------------------------------ MODULE Sessions ------------------------------
(* Users at the node's own terminals: connections over Telnet and SSH, their    *)
(* logins, the table `sessions` of ClientServer, the profile of contacts that    *)
(* every session saves, and the lines a session collects for 40 ms before it     *)
(* sends them. A password is checked behind an await over Telnet, during which   *)
(* anything may happen, and without one over SSH.                                *)
(* A client types when it has been answered: no input waits behind another.      *)
EXTENDS Accounts, Naturals, FiniteSets, Functions

CONSTANTS
    Telnet, Ssh,    \* connections; bound: each is made once and closed once
    NoConn,
    Client,         \* Client[c]: the names, passwords, keys and contacts entered on c
    Remote,         \* users of other nodes
    Nick,           \* the name in an address
    Console, General,   \* the system console and the global channel
    Line,           \* bound: each line is entered once
    MaxAttempts     \* wrong passwords a connection may enter: 3 in the code

Conn == Telnet \cup Ssh
Peer == User \cup Remote
Target == Peer \cup {Console, General}

ASSUME SessionsAssumption ==
    /\ Telnet \cap Ssh = {} /\ NoConn \notin Conn \cup User
    /\ Client \in [Conn -> [names : SUBSET User, passwords : SUBSET Password,
                            keys : SUBSET Key, contacts : SUBSET Peer]]
    /\ User \cap Remote = {} /\ Peer \cap {Console, General} = {}
    /\ MaxAttempts \in Nat \ {0}

VARIABLES
    account,    \* the secrets and keys of each user
    profile,    \* the contacts saved for each user
    sessions,   \* sessions[u]: the connection whose session is listed for u
    sock,       \* the socket of each connection
    authState,
    user,       \* targetUserAddress, then the address of the session
    temp,       \* tempPassword
    check,      \* what the awaited check of a password will say
    attempts,   \* loginAttempts, failedAuthCount
    contacts,   \* contacts of the profile read, then of the session
    active,     \* activeTarget
    pending,    \* pendingPasteLines; the flush timer is set while there are any
    left        \* lines that left pending, sent or not

login == <<account, sessions, sock, authState, user, temp, check, attempts>>
lines == <<pending, left>>
vars == <<login, profile, contacts, active, lines>>

States == {"USERNAME", "LOGIN_PASSWORD", "REGISTER_PASSWORD", "CONFIRM_PASSWORD",
           "AUTHENTICATED", "SHELL"}

TypeOK ==
    /\ account \in [User -> [secret : Secret, keys : KeyLists, allowTelnet : BOOLEAN]]
    /\ profile \in [User -> SUBSET Peer]
    /\ sessions \in [User -> Conn \cup {NoConn}]
    /\ sock \in [Conn -> {"none", "open", "ending", "closed"}]
    /\ authState \in [Conn -> States]
    /\ user \in [Conn -> User \cup {NoConn}]
    /\ temp \in [Conn -> Password \cup {NoConn}]
    /\ check \in [Conn -> {"none", "hash", "right", "wrong"}]
    /\ attempts \in [Conn -> 0 .. MaxAttempts]
    /\ contacts \in [Conn -> SUBSET Peer]
    /\ active \in [Conn -> Target]
    /\ pending \in [Conn -> {q \in Seq(Line) : IsInjective(q)}]
    /\ left \in SUBSET Line

Init ==
    /\ account = [u \in User |-> NewAccount]
    /\ profile = [u \in User |-> {}]
    /\ sessions = [u \in User |-> NoConn]
    /\ sock = [c \in Conn |-> "none"]
    /\ authState = [c \in Conn |-> "USERNAME"]
    /\ user = [c \in Conn |-> NoConn]
    /\ temp = [c \in Conn |-> NoConn]
    /\ check = [c \in Conn |-> "none"]
    /\ attempts = [c \in Conn |-> 0]
    /\ contacts = [c \in Conn |-> {}]
    /\ active = [c \in Conn |-> General]
    /\ pending = [c \in Conn |-> <<>>]
    /\ left = {}

-----------------------------------------------------------------------------
\* A connection takes input while its client has not gone and nothing is awaited.
\* The socket may have been ended: what the client had sent by then still comes in.
Listens(c) == sock[c] \in {"open", "ending"} /\ check[c] = "none"

\* The connection has a session.
InSession(c) == authState[c] = IF c \in Telnet THEN "AUTHENTICATED" ELSE "SHELL"

\* The sessions' saving of contacts: an SSH connection forgets the user when it closes,
\* and what its session then saves is in nobody's row.
Saved(S, cs) ==
    [u \in User |->
        LET Of == {c \in S : user[c] = u /\ InSession(c)} IN
        IF Of = {} THEN profile[u] ELSE cs[CHOOSE c \in Of : TRUE]]

Connect(c) ==
    /\ sock[c] = "none"
    /\ sock' = [sock EXCEPT ![c] = "open"]
    /\ UNCHANGED <<account, sessions, authState, user, temp, check, attempts, profile,
                   contacts, active, lines>>

-----------------------------------------------------------------------------
(* Telnet *)

\* A name that is listed is refused; otherwise the profile decides what comes next.
\* Its contacts are those a new user's session will start with.
Username(c, u) ==
    /\ Listens(c) /\ authState[c] = "USERNAME" /\ sessions[u] = NoConn
    /\ user' = [user EXCEPT ![c] = u]
    /\ contacts' = [contacts EXCEPT ![c] = profile[u]]
    /\ authState' = [authState EXCEPT ![c] =
           IF account[u].secret = Unset THEN "REGISTER_PASSWORD" ELSE "LOGIN_PASSWORD"]
    /\ UNCHANGED <<account, sessions, sock, temp, check, attempts, profile, active, lines>>

RegisterPassword(c, p) ==
    /\ Listens(c) /\ authState[c] = "REGISTER_PASSWORD"
    /\ temp' = [temp EXCEPT ![c] = p]
    /\ authState' = [authState EXCEPT ![c] = "CONFIRM_PASSWORD"]
    /\ UNCHANGED <<account, sessions, sock, user, check, attempts, profile, contacts, active, lines>>

ConfirmPassword(c, p) ==
    /\ Listens(c) /\ authState[c] = "CONFIRM_PASSWORD"
    /\ \/ /\ p # temp[c]
          /\ temp' = [temp EXCEPT ![c] = NoConn]
          /\ authState' = [authState EXCEPT ![c] = "REGISTER_PASSWORD"]
          /\ UNCHANGED check
       \/ /\ p = temp[c]
          /\ check' = [check EXCEPT ![c] = "hash"]
          /\ UNCHANGED <<temp, authState>>
    /\ UNCHANGED <<account, sessions, sock, user, attempts, profile, contacts, active, lines>>

\* completeLogin: it looks neither at the socket nor at the table.
CompleteLogin(c) ==
    /\ authState' = [authState EXCEPT ![c] = "AUTHENTICATED"]
    /\ sessions' = [sessions EXCEPT ![user[c]] = c]
    /\ check' = [check EXCEPT ![c] = "none"]

\* The new user's password has been hashed.
Hashed(c) ==
    /\ check[c] = "hash"
    /\ account' = [account EXCEPT ![user[c]].secret = Classic(temp[c])]
    /\ temp' = [temp EXCEPT ![c] = NoConn]
    /\ CompleteLogin(c)
    /\ UNCHANGED <<sock, user, attempts, profile, contacts, active, lines>>

\* The account is read again; a vault may be closed to Telnet.
LoginPassword(c, p) ==
    LET a == account[user[c]] IN
    /\ Listens(c) /\ authState[c] = "LOGIN_PASSWORD"
    /\ contacts' = [contacts EXCEPT ![c] = profile[user[c]]]
    /\ IF BarsTelnet(a)
       THEN sock' = [sock EXCEPT ![c] = "ending"] /\ UNCHANGED check
       ELSE /\ check' = [check EXCEPT ![c] = IF OpensTelnet(a, p) THEN "right" ELSE "wrong"]
            /\ UNCHANGED sock
    /\ UNCHANGED <<account, sessions, authState, user, temp, attempts, profile, active, lines>>

\* The password has been checked. Wrong attempts after the last are not counted.
Accepted(c) ==
    /\ check[c] = "right"
    /\ CompleteLogin(c)
    /\ UNCHANGED <<account, sock, user, temp, attempts, profile, contacts, active, lines>>

Rejected(c) ==
    /\ check[c] = "wrong"
    /\ check' = [check EXCEPT ![c] = "none"]
    /\ attempts' = [attempts EXCEPT ![c] = IF @ < MaxAttempts THEN @ + 1 ELSE @]
    /\ sock' = [sock EXCEPT ![c] =
           IF @ = "open" /\ attempts'[c] = MaxAttempts THEN "ending" ELSE @]
    /\ UNCHANGED <<account, sessions, authState, user, temp, profile, contacts, active, lines>>

-----------------------------------------------------------------------------
(* SSH *)

\* One password of a client that offers key k, or none. A client asks no more once it
\* has been let in. An address that is locked out for 30 s is a client that does not ask.
SshAuth(c, u, p, k) ==
    LET a == account[u] IN
    /\ sock[c] = "open" /\ authState[c] = "USERNAME" /\ user[c] = NoConn
    /\ \/ /\ attempts[c] = MaxAttempts
          /\ sock' = [sock EXCEPT ![c] = "ending"]
          /\ UNCHANGED <<account, authState, user, attempts>>
       \/ /\ attempts[c] < MaxAttempts /\ Admitted(a, k)
          /\ ~Registers(a) /\ ~OpensSsh(a, p, k)
          /\ attempts' = [attempts EXCEPT ![c] = @ + 1]
          /\ UNCHANGED <<account, sock, authState, user>>
       \/ /\ attempts[c] < MaxAttempts /\ Admitted(a, k)
          /\ Registers(a) \/ OpensSsh(a, p, k)
          /\ account' = [account EXCEPT ![u] = IF Registers(a) THEN Registered(a, p, k) ELSE a]
          /\ authState' = [authState EXCEPT ![c] = "AUTHENTICATED"]
          /\ user' = [user EXCEPT ![c] = u]
          /\ attempts' = [attempts EXCEPT ![c] = 0]
          /\ UNCHANGED sock
    /\ UNCHANGED <<sessions, temp, check, profile, contacts, active, lines>>

\* startSshTuiSession: the newest login takes the place in the table.
Shell(c) ==
    /\ c \in Ssh /\ Listens(c) /\ authState[c] = "AUTHENTICATED"
    /\ authState' = [authState EXCEPT ![c] = "SHELL"]
    /\ contacts' = [contacts EXCEPT ![c] = profile[user[c]]]
    /\ sessions' = [sessions EXCEPT ![user[c]] = c]
    /\ UNCHANGED <<account, sock, user, temp, check, attempts, profile, active, lines>>

-----------------------------------------------------------------------------
(* The end of a connection *)

\* Mutant: whoever is listed for the user is taken off.
MutCleanup(c) ==
    /\ authState' = [authState EXCEPT ![c] = IF c \in Ssh THEN "USERNAME" ELSE @]
    /\ IF InSession(c)
       THEN /\ profile' = [profile EXCEPT ![user[c]] = contacts[c]]
            /\ sessions' = [sessions EXCEPT ![user[c]] = NoConn]
       ELSE UNCHANGED <<profile, sessions>>
    /\ UNCHANGED <<account, user, temp, check, attempts, contacts, active, lines>>

\* Mutant: nothing is cleaned up once the server has ended the socket.
MutCleanupOpen(c) ==
    /\ authState' = [authState EXCEPT ![c] = IF c \in Ssh THEN "USERNAME" ELSE @]
    /\ IF InSession(c) /\ sock[c] = "open"
       THEN /\ profile' = [profile EXCEPT ![user[c]] = contacts[c]]
            /\ sessions' = [sessions EXCEPT ![user[c]] = IF @ = c THEN NoConn ELSE @]
       ELSE UNCHANGED <<profile, sessions>>
    /\ UNCHANGED <<account, user, temp, check, attempts, contacts, active, lines>>

\* The session is saved, and leaves the table if it is the one listed there.
Cleanup(c) ==
    /\ authState' = [authState EXCEPT ![c] = IF c \in Ssh THEN "USERNAME" ELSE @]
    /\ IF InSession(c)
       THEN /\ profile' = [profile EXCEPT ![user[c]] = contacts[c]]
            /\ sessions' = [sessions EXCEPT ![user[c]] = IF @ = c THEN NoConn ELSE @]
       ELSE UNCHANGED <<profile, sessions>>
    /\ UNCHANGED <<account, user, temp, check, attempts, contacts, active, lines>>

\* The client goes, or the network: at any moment.
Close(c) ==
    /\ sock[c] \in {"open", "ending"}
    /\ sock' = [sock EXCEPT ![c] = "closed"]
    /\ Cleanup(c)

\* An SSH client closes its channel first.
ChannelClose(c) ==
    /\ c \in Ssh /\ sock[c] = "open" /\ InSession(c)
    /\ sock' = [sock EXCEPT ![c] = "ending"]
    /\ Cleanup(c)

\* /quit or Ctrl-C: the server ends the socket, and the session stays until it is closed.
Quit(c) ==
    /\ sock[c] = "open" /\ check[c] = "none" /\ InSession(c)
    /\ sock' = [sock EXCEPT ![c] = "ending"]
    /\ UNCHANGED <<account, sessions, authState, user, temp, check, attempts, profile,
                   contacts, active, lines>>

-----------------------------------------------------------------------------
(* Inside a session *)

Typing(c) == Listens(c) /\ InSession(c)

\* While lines wait to be sent, a command counts as one more line.
Commanding(c) == Typing(c) /\ pending[c] = <<>>

\* queueOutboundBurst: one more line, and the timer starts anew.
Queued(l, q) == Append(q, l)

\* ENTER after a line. On the console nothing is sent.
Enter(c, l) ==
    /\ Typing(c) /\ active[c] # Console
    /\ l \notin left /\ \A d \in Conn : ~Contains(pending[d], l)
    /\ pending' = [pending EXCEPT ![c] = Queued(l, @)]
    /\ UNCHANGED <<login, profile, contacts, active, left>>

\* setTarget, with the saving of addContact.
SetTarget(c, t) ==
    /\ active' = [active EXCEPT ![c] = t]
    /\ contacts' = [contacts EXCEPT ![c] = @ \cup ({t} \cap Peer)]
    /\ profile' = Saved({c}, contacts')
    /\ UNCHANGED <<login, lines>>

\* ENTER in the sidebar, also while lines wait.
Select(c, t) ==
    /\ Typing(c) /\ t \in contacts[c] \cup {Console, General} /\ t # active[c]
    /\ SetTarget(c, t)

\* /msg, /join, /system.
Address(c, t) == Commanding(c) /\ t \notin contacts[c] /\ SetTarget(c, t)

\* /remove, /leave: the session falls back to the global channel.
RemoveContact(c, t) ==
    /\ Commanding(c) /\ t \in contacts[c]
    /\ contacts' = [contacts EXCEPT ![c] = @ \ {t}]
    /\ active' = [active EXCEPT ![c] = IF @ = t THEN General ELSE @]
    /\ profile' = Saved({c}, contacts')
    /\ UNCHANGED <<login, lines>>

\* /keys add, /keys del (not the last one), /allowtelnet.
Keys(c, a) ==
    /\ account[user[c]] # a
    /\ account' = [account EXCEPT ![user[c]] = a]
    /\ UNCHANGED <<sessions, sock, authState, user, temp, check, attempts, profile,
                   contacts, active, lines>>

KeysAdd(c, k) == Commanding(c) /\ Keys(c, WithKey(account[user[c]], k))
KeysDel(c, k) ==
    /\ Commanding(c) /\ Len(account[user[c]].keys) > 1
    /\ Keys(c, WithoutKey(account[user[c]], k))
AllowTelnet(c, b) == Commanding(c) /\ Keys(c, [account[user[c]] EXCEPT !.allowTelnet = b])

-----------------------------------------------------------------------------
(* Messages *)

\* The contacts of all after p was added to those of the sessions D.
Added(D, p) == [d \in Conn |-> IF d \in D THEN contacts[d] \cup {p} ELSE contacts[d]]

\* The listed session of p, if he has one here.
Listed(p) == IF p \in User /\ sessions[p] # NoConn THEN {sessions[p]} ELSE {}

\* handleOutboundMessage for what goes from c to its target: a local recipient gets the
\* sender as a contact. Sealing the text, saving it and handing it to the federation
\* change nothing here.
Outbound(c) == Added(Listed(active[c]), user[c])

\* Mutant: the timer looks for the socket.
MutFlush(c) ==
    LET to == Listed(active[c])
        once == IF Len(pending[c]) = 1 THEN {c} ELSE {}
    IN
    /\ pending[c] # <<>> /\ sock[c] = "open"
    /\ pending' = [pending EXCEPT ![c] = <<>>]
    /\ left' = left \cup ToSet(pending[c])
    /\ IF active[c] = Console
       THEN UNCHANGED <<contacts, profile>>
       ELSE /\ contacts' = Outbound(c)
            /\ profile' = [u \in User |->
                   IF \E d \in to : user[d] = u THEN Saved(to, contacts')[u]
                   ELSE Saved(once, contacts)[u]]
    /\ UNCHANGED <<login, active>>

\* The flush timer, also of a session that has ended. The lines go, as one message, to
\* the target of this moment, or nowhere from the console. A single line goes into the
\* history, which saves the profile; then the message goes out.
Flush(c) ==
    LET to == Listed(active[c])
        once == IF Len(pending[c]) = 1 THEN {c} ELSE {}
    IN
    /\ pending[c] # <<>>
    /\ pending' = [pending EXCEPT ![c] = <<>>]
    /\ left' = left \cup ToSet(pending[c])
    /\ IF active[c] = Console
       THEN UNCHANGED <<contacts, profile>>
       ELSE /\ contacts' = Outbound(c)
            /\ profile' = [u \in User |->
                   IF \E d \in to : user[d] = u THEN Saved(to, contacts')[u]
                   ELSE Saved(once, contacts)[u]]
    /\ UNCHANGED <<login, active>>

\* The contacts and targets that bear p's name at another node become p.
Namesakes(p) == {q \in Peer \ {p} : Nick[q] = Nick[p]}
Moved(cs, p) == IF cs \cap Namesakes(p) = {} THEN cs ELSE (cs \ Namesakes(p)) \cup {p}

\* Mutant: contacts that move are not saved.
MutHeard(p, U) ==
    LET all == {sessions[u] : u \in User} \ {NoConn}
        to == UNION {Listed(u) : u \in U}
    IN
    /\ active' = [c \in Conn |->
           IF c \in all /\ active[c] \in Namesakes(p) THEN p ELSE active[c]]
    /\ contacts' = [c \in Conn |->
           (IF c \in all THEN Moved(contacts[c], p) ELSE contacts[c])
               \cup (IF c \in to THEN {p} ELSE {})]
    /\ profile' = Saved(to, contacts')
    /\ UNCHANGED <<login, lines>>

\* updateTargetMigration for user p of another node, in the sessions of the table; then,
\* if p wrote to local user u, his session gets p as a contact.
Heard(p, U) ==
    LET all == {sessions[u] : u \in User} \ {NoConn}
        to == UNION {Listed(u) : u \in U}
        moved == {c \in all : contacts[c] \cap Namesakes(p) # {}}
    IN
    /\ active' = [c \in Conn |->
           IF c \in all /\ active[c] \in Namesakes(p) THEN p ELSE active[c]]
    /\ contacts' = [c \in Conn |->
           (IF c \in all THEN Moved(contacts[c], p) ELSE contacts[c])
               \cup (IF c \in to THEN {p} ELSE {})]
    /\ profile' = Saved(moved \cup to, contacts')
    /\ UNCHANGED <<login, lines>>

PresenceChange(p) == Heard(p, {})
RemoteMessage(p, u) == Heard(p, {u})

-----------------------------------------------------------------------------
Next ==
    \/ \E c \in Conn : Connect(c) \/ Close(c) \/ Quit(c) \/ Flush(c)
    \/ \E c \in Telnet : Hashed(c) \/ Accepted(c) \/ Rejected(c)
    \/ \E c \in Telnet : \E u \in Client[c].names : Username(c, u)
    \/ \E c \in Telnet : \E p \in Client[c].passwords :
           RegisterPassword(c, p) \/ ConfirmPassword(c, p) \/ LoginPassword(c, p)
    \/ \E c \in Ssh : Shell(c) \/ ChannelClose(c)
    \/ \E c \in Ssh : \E u \in Client[c].names, p \in Client[c].passwords :
           \E k \in Client[c].keys \cup {NoKey} : SshAuth(c, u, p, k)
    \/ \E c \in Conn, l \in Line : Enter(c, l)
    \/ \E c \in Conn, t \in Target : Select(c, t) \/ RemoveContact(c, t)
    \/ \E c \in Conn : \E t \in Client[c].contacts : Address(c, t)
    \/ \E c \in Conn : \E k \in Client[c].keys : KeysAdd(c, k) \/ KeysDel(c, k)
    \/ \E c \in Conn, b \in BOOLEAN : AllowTelnet(c, b)
    \/ \E p \in Remote : PresenceChange(p)
    \/ \E p \in Remote, u \in User : RemoteMessage(p, u)

\* Timers fire.
Spec == Init /\ [][Next]_vars /\ \A c \in Conn : WF_vars(Flush(c))

-----------------------------------------------------------------------------
(* Properties *)

\* A user's place in the table changes hands only when a session of his begins there, or
\* when the connection that has it closes: an older connection of the same user that
\* closes later (telnetClientConnection.js:163, sshClientConnection.js:606) takes nobody
\* off the table.
OwnSession ==
    [][\A u \in User : sessions[u] \notin {NoConn, sessions'[u]} =>
           \/ sessions'[u] # NoConn /\ ~InSession(sessions'[u])
           \/ sessions'[u] = NoConn /\ sock'[sessions[u]] # sock[sessions[u]]]_vars

\* What is closed is not listed any more (158-170, 590-615), whatever was going on in
\* the connection; only a login whose check outlasts the socket comes back.
ClosedLeaves ==
    [][\A c \in Conn : sock[c] # "closed" /\ sock'[c] = "closed" =>
           \A u \in User : sessions'[u] # c]_vars

\* Only a connection that was told to register, because there was no password then,
\* replaces the one that is there (telnetClientConnection.js:244): no login does.
PasswordKept ==
    [][\A u \in User : account[u].secret \notin {Unset, account'[u].secret} =>
           \E c \in Telnet : user[c] = u /\ check[c] = "hash" /\ check'[c] = "none"]_vars

\* As long as one connection at a time has used a name, his saved contacts are those of
\* his session, after every command, message and change of a contact's address.
ProfileKept ==
    \A c \in Conn :
        InSession(c) /\ (\A d \in Conn \ {c} : user[d] # user[c])
            => profile[user[c]] = contacts[c]

\* A line that was entered leaves the buffer, also if its connection closes, or another
\* one takes its place in the table, before the timer fires.
EveryLineLeaves == \A l \in Line : (\E c \in Conn : Contains(pending[c], l)) ~> l \in left

\* A vault is opened by its password with every key of the account, as `/keys add` tells
\* (src/locales/en.js:282): its salt is the one that a login takes.
VaultOpens ==
    \A u \in User : account[u].secret.kind = "vault" /\ account[u].keys # <<>> =>
        account[u].secret.salt = account[u].keys[1]
=============================================================================
