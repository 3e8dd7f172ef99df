--------------------------- MODULE SessionsProofs ---------------------------
(***************************************************************************)
(* Who is listed for a user, what a close leaves behind, who may replace a *)
(* password and which contacts are saved: for every set of users, keys and *)
(* connections, every number of attempts and every interleaving.           *)
(***************************************************************************)
EXTENDS Sessions, SequenceTheorems, TLAPS

\* As much of the types as the steps need.
Typed ==
    /\ DOMAIN account = User
    /\ \A u \in User : "secret" \in DOMAIN account[u]
    /\ DOMAIN profile = User
    /\ sessions \in [User -> Conn \cup {NoConn}]
    /\ sock \in [Conn -> {"none", "open", "ending", "closed"}]
    /\ authState \in [Conn -> States]
    /\ user \in [Conn -> User \cup {NoConn}]
    /\ check \in [Conn -> {"none", "hash", "right", "wrong"}]
    /\ DOMAIN contacts = Conn

\* A password is checked for a Telnet connection that has given one.
Awaiting ==
    \A c \in Conn : check[c] # "none" =>
        c \in Telnet /\ authState[c] \in {"CONFIRM_PASSWORD", "LOGIN_PASSWORD"}

\* A connection past its first state has a user, and over Telnet not earlier.
Named ==
    \A c \in Conn :
        /\ authState[c] # "USERNAME" => user[c] \in User
        /\ c \in Telnet /\ authState[c] = "USERNAME" => user[c] = NoConn

\* Whoever is listed for a user has a session of that user.
Listing ==
    \A u \in User : sessions[u] # NoConn =>
        InSession(sessions[u]) /\ user[sessions[u]] = u

\* The connection has read the profile of its user.
HasRead(c) == IF c \in Telnet THEN authState[c] # "USERNAME" ELSE authState[c] = "SHELL"

Alone(c) == \A d \in Conn \ {c} : user[d] # user[c]

\* ProfileKept holds for Telnet connections from the moment they read the profile.
Kept == \A c \in Conn : HasRead(c) /\ Alone(c) => profile[user[c]] = contacts[c]

IInv == Typed /\ Awaiting /\ Named /\ Listing /\ Kept

\* The steps that OwnSession, ClosedLeaves and PasswordKept allow.
OwnStep ==
    \A u \in User : sessions[u] \notin {NoConn, sessions'[u]} =>
        \/ sessions'[u] # NoConn /\ ~InSession(sessions'[u])
        \/ sessions'[u] = NoConn /\ sock'[sessions[u]] # sock[sessions[u]]

ClosedStep ==
    \A c \in Conn : sock[c] # "closed" /\ sock'[c] = "closed" =>
        \A u \in User : sessions'[u] # c

PasswordStep ==
    \A u \in User : account[u].secret \notin {Unset, account'[u].secret} =>
        \E c \in Telnet : user[c] = u /\ check[c] = "hash" /\ check'[c] = "none"

Good == IInv' /\ OwnStep /\ ClosedStep /\ PasswordStep

-----------------------------------------------------------------------------
LEMMA InitHolds == Init => IInv
<1> SUFFICES ASSUME Init
             PROVE  IInv
  OBVIOUS
<1>1. Typed
  BY SessionsAssumption DEF Init, Typed, NewAccount, States, Peer
<1>2. Awaiting /\ Named
  BY DEF Init, Awaiting, Named
<1>3. Listing
  BY DEF Init, Listing
<1>4. Kept
  BY SessionsAssumption DEF Init, Kept, HasRead, Conn
<1> QED
  BY <1>1, <1>2, <1>3, <1>4 DEF IInv

\* Steps that touch nothing the invariant speaks of.
LEMMA QuietStep ==
  ASSUME IInv,
         UNCHANGED <<account, profile, sessions, sock, authState, user, check, contacts>>
  PROVE  Good
BY DEF Good, IInv, Typed, Awaiting, Named, Listing, Kept, HasRead, Alone, InSession,
       OwnStep, ClosedStep, PasswordStep

\* The socket opens, or the server ends it.
LEMMA SocketStep ==
  ASSUME IInv, NEW c \in Conn, Connect(c) \/ Quit(c)
  PROVE  Good
BY DEF Connect, Quit, Good, IInv, Typed, Awaiting, Named, Listing, Kept, HasRead, Alone,
       InSession, OwnStep, ClosedStep, PasswordStep, lines

LEMMA UsernameStep ==
  ASSUME IInv, NEW c \in Telnet, NEW u \in Client[c].names, Username(c, u)
  PROVE  Good
<1>1. c \in Conn /\ u \in User
  BY SessionsAssumption DEF Conn
<1>2. Typed' /\ Awaiting' /\ Named'
  BY <1>1 DEF Username, Listens, IInv, Typed, Awaiting, Named, States, lines
<1>3. Listing'
  BY <1>1, SessionsAssumption DEF Username, IInv, Typed, Listing, InSession, Conn
<1>4. Kept'
  <2>1. user[c] = NoConn /\ contacts' = [contacts EXCEPT ![c] = profile[u]]
        /\ user' = [user EXCEPT ![c] = u]
    BY <1>1 DEF Username, IInv, Named
  <2>2. ASSUME NEW d \in Conn \ {c}, HasRead(d)', Alone(d)'
        PROVE  profile'[user'[d]] = contacts'[d]
    <3>1. HasRead(d) /\ user[d] \in User
      BY <2>2 DEF Username, IInv, Typed, Named, HasRead
    <3>2. Alone(d)
      BY <1>1, <2>1, <2>2, <3>1, SessionsAssumption DEF IInv, Typed, Alone
    <3> QED
      BY <2>1, <3>1, <3>2 DEF Username, IInv, Typed, Kept
  <2>3. profile'[user'[c]] = contacts'[c]
    BY <1>1, <2>1 DEF Username, IInv, Typed
  <2> QED
    BY <2>2, <2>3 DEF Kept
<1>5. OwnStep /\ ClosedStep /\ PasswordStep
  BY <1>1 DEF Username, OwnStep, ClosedStep, PasswordStep
<1> QED
  BY <1>2, <1>3, <1>4, <1>5 DEF Good, IInv

\* The steps between the name and the check of a password.
LEMMA PasswordEntryStep ==
  ASSUME IInv, NEW c \in Telnet, NEW p \in Client[c].passwords,
         RegisterPassword(c, p) \/ ConfirmPassword(c, p) \/ LoginPassword(c, p)
  PROVE  Good
<1>1. c \in Conn
  BY DEF Conn
<1>2. Typed' /\ Awaiting' /\ Named'
  BY <1>1 DEF RegisterPassword, ConfirmPassword, LoginPassword, Listens, IInv, Typed,
              Awaiting, Named, States, lines
<1>3. Listing'
  BY <1>1, SessionsAssumption
     DEF RegisterPassword, ConfirmPassword, LoginPassword, IInv, Typed, Listing,
         InSession, Conn
<1>4. Kept'
  BY <1>1 DEF RegisterPassword, ConfirmPassword, LoginPassword, IInv, Typed, Kept, Named,
              HasRead, Alone
<1>5. OwnStep /\ ClosedStep /\ PasswordStep
  BY <1>1 DEF RegisterPassword, ConfirmPassword, LoginPassword, IInv, Typed, OwnStep,
              ClosedStep, PasswordStep
<1> QED
  BY <1>2, <1>3, <1>4, <1>5 DEF Good, IInv

\* The check of a password has ended well.
LEMMA LoginStep ==
  ASSUME IInv, NEW c \in Telnet, Hashed(c) \/ Accepted(c)
  PROVE  Good
<1>1. c \in Conn /\ user[c] \in User /\ authState[c] \in {"CONFIRM_PASSWORD", "LOGIN_PASSWORD"}
  BY DEF Hashed, Accepted, IInv, Awaiting, Named, Conn
<1>2. /\ UNCHANGED <<profile, sock, user, contacts>>
      /\ CompleteLogin(c)
  BY DEF Hashed, Accepted
<1>3. Typed'
  BY <1>1, <1>2 DEF Hashed, Accepted, CompleteLogin, IInv, Typed, States
<1>4. Awaiting' /\ Named'
  BY <1>1, <1>2 DEF CompleteLogin, IInv, Typed, Awaiting, Named
<1>5. Listing'
  BY <1>1, <1>2 DEF CompleteLogin, IInv, Typed, Listing, InSession
<1>6. Kept'
  BY <1>1, <1>2 DEF CompleteLogin, IInv, Typed, Kept, HasRead, Alone
<1>7. OwnStep /\ ClosedStep
  BY <1>1, <1>2, SessionsAssumption
     DEF CompleteLogin, IInv, Typed, InSession, OwnStep, ClosedStep
<1>8. PasswordStep
  BY <1>1, <1>2 DEF Hashed, Accepted, CompleteLogin, IInv, Typed, PasswordStep
<1> QED
  BY <1>3, <1>4, <1>5, <1>6, <1>7, <1>8 DEF Good, IInv

LEMMA RejectedStep ==
  ASSUME IInv, NEW c \in Telnet, Rejected(c)
  PROVE  Good
<1>1. c \in Conn
  BY DEF Conn
<1>2. /\ check' = [check EXCEPT ![c] = "none"]
      /\ sock' \in {sock, [sock EXCEPT ![c] = "ending"]}
      /\ UNCHANGED <<account, sessions, authState, user, profile, contacts>>
  BY <1>1 DEF Rejected, IInv, Typed
<1> QED
  BY <1>1, <1>2 DEF Good, IInv, Typed, Awaiting, Named, Listing, Kept, HasRead, Alone,
                    InSession, OwnStep, ClosedStep, PasswordStep

LEMMA SshAuthStep ==
  ASSUME IInv, NEW c \in Ssh, NEW u \in User, NEW p, NEW k, SshAuth(c, u, p, k)
  PROVE  Good
<1>1. c \in Conn /\ c \notin Telnet /\ authState[c] = "USERNAME" /\ user[c] = NoConn
  BY SessionsAssumption DEF SshAuth, Conn
<1>2. /\ UNCHANGED <<sessions, check, profile, contacts>>
      /\ sock' \in {sock, [sock EXCEPT ![c] = "ending"]}
      /\ \/ UNCHANGED <<account, authState, user>>
         \/ /\ account' = [account EXCEPT ![u] =
                   IF Registers(account[u]) THEN Registered(account[u], p, k) ELSE account[u]]
            /\ authState' = [authState EXCEPT ![c] = "AUTHENTICATED"]
            /\ user' = [user EXCEPT ![c] = u]
  BY DEF SshAuth
<1>3. Typed'
  <2>1. "secret" \in DOMAIN Registered(account[u], p, k)
    BY DEF IInv, Typed, Registered, WithKey
  <2>2. DOMAIN account' = User /\ \A v \in User : "secret" \in DOMAIN account'[v]
    BY <1>2, <2>1 DEF IInv, Typed
  <2> QED
    BY <1>1, <1>2, <2>2 DEF IInv, Typed, States
<1>4. Awaiting' /\ Named'
  BY <1>1, <1>2 DEF IInv, Typed, Awaiting, Named
<1>5. Listing'
  BY <1>1, <1>2 DEF IInv, Typed, Listing, InSession
<1>6. Kept'
  <2>1. SUFFICES ASSUME NEW d \in Conn, HasRead(d)', Alone(d)'
                 PROVE  profile'[user'[d]] = contacts'[d]
    BY DEF Kept
  <2>2. d # c
    BY <1>1, <1>2, <2>1 DEF IInv, Typed, HasRead
  <2>3. HasRead(d) /\ user[d] \in User /\ user'[d] = user[d]
    BY <1>2, <2>1, <2>2 DEF IInv, Typed, Named, HasRead
  <2>4. Alone(d)
    BY <1>1, <1>2, <2>1, <2>2, <2>3, SessionsAssumption DEF IInv, Typed, Alone
  <2> QED
    BY <1>2, <2>3, <2>4 DEF IInv, Kept
<1>7. OwnStep /\ ClosedStep
  BY <1>1, <1>2 DEF IInv, Typed, OwnStep, ClosedStep
<1>8. PasswordStep
  <2> SUFFICES ASSUME NEW v \in User, account[v].secret # Unset
               PROVE  account'[v].secret = account[v].secret
    BY DEF PasswordStep
  <2> QED
    BY <1>2 DEF IInv, Typed, Registers
<1> QED
  BY <1>3, <1>4, <1>5, <1>6, <1>7, <1>8 DEF Good, IInv

LEMMA ShellStep ==
  ASSUME IInv, NEW c \in Ssh, Shell(c)
  PROVE  Good
<1>1. c \in Conn /\ c \notin Telnet /\ authState[c] = "AUTHENTICATED" /\ user[c] \in User
      /\ check[c] = "none"
  BY SessionsAssumption DEF Shell, Listens, Conn, IInv, Named
<1>2. Typed' /\ Awaiting' /\ Named'
  BY <1>1 DEF Shell, IInv, Typed, Awaiting, Named, States
<1>3. Listing'
  BY <1>1 DEF Shell, IInv, Typed, Listing, InSession
<1>4. Kept'
  BY <1>1 DEF Shell, IInv, Typed, Kept, HasRead, Alone
<1>5. OwnStep /\ ClosedStep /\ PasswordStep
  BY <1>1, SessionsAssumption DEF Shell, IInv, Typed, InSession, OwnStep, ClosedStep, PasswordStep
<1> QED
  BY <1>2, <1>3, <1>4, <1>5 DEF Good, IInv

\* A connection ends or its channel does: its session is saved and leaves the table.
LEMMA CleanupStep ==
  ASSUME IInv, NEW c \in Conn, Close(c) \/ ChannelClose(c)
  PROVE  Good
<1>1. /\ sock[c] # sock'[c] /\ \A d \in Conn \ {c} : sock'[d] = sock[d]
      /\ sock' \in [Conn -> {"none", "open", "ending", "closed"}]
      /\ Cleanup(c)
  BY DEF Close, ChannelClose, IInv, Typed
<1>2. /\ authState' = [authState EXCEPT ![c] = IF c \in Ssh THEN "USERNAME" ELSE @]
      /\ UNCHANGED <<account, user, check, contacts>>
  BY <1>1 DEF Cleanup
<1>3. InSession(c) => user[c] \in User
  BY DEF IInv, Named, InSession
<1>4. /\ ~InSession(c) => UNCHANGED <<profile, sessions>>
      /\ InSession(c) =>
           /\ profile' = [profile EXCEPT ![user[c]] = contacts[c]]
           /\ sessions' = [sessions EXCEPT ![user[c]] =
                  IF sessions[user[c]] = c THEN NoConn ELSE sessions[user[c]]]
  BY <1>1, <1>3 DEF Cleanup, IInv, Typed
<1>5. \A u \in User :
         sessions'[u] = IF sessions[u] = c THEN NoConn ELSE sessions[u]
  <2>1. SUFFICES ASSUME NEW u \in User
                 PROVE  sessions'[u] = IF sessions[u] = c THEN NoConn ELSE sessions[u]
    OBVIOUS
  <2>2. sessions[u] = c => InSession(c) /\ user[c] = u
    BY SessionsAssumption DEF IInv, Listing
  <2> QED
    BY <1>3, <1>4, <2>2 DEF IInv, Typed
<1>6. Typed'
  BY <1>1, <1>2, <1>3, <1>4 DEF IInv, Typed, States
<1>7. Awaiting' /\ Named'
  BY <1>2, SessionsAssumption DEF IInv, Typed, Awaiting, Named
<1>8. Listing'
  BY <1>2, <1>5 DEF IInv, Typed, Listing, InSession
<1>9. Kept'
  <2>1. SUFFICES ASSUME NEW d \in Conn, HasRead(d)', Alone(d)
                 PROVE  profile'[user[d]] = contacts[d]
    BY <1>2 DEF Kept, Alone
  <2>2. HasRead(d) /\ user[d] \in User
    BY <1>2, <2>1, SessionsAssumption DEF HasRead, IInv, Typed, Named
  <2>3. CASE d = c
    <3>1. c \in Telnet
      BY <1>2, <2>1, <2>3, SessionsAssumption DEF HasRead, IInv, Typed, Conn
    <3>2. CASE InSession(c)
      BY <1>3, <1>4, <2>3, <3>2 DEF IInv, Typed
    <3>3. CASE ~InSession(c)
      BY <1>4, <2>1, <2>2, <2>3, <3>3 DEF IInv, Kept
    <3> QED
      BY <3>2, <3>3
  <2>4. CASE d # c
    <3>1. user[c] # user[d]
      BY <2>1, <2>4 DEF Alone
    <3>2. profile'[user[d]] = profile[user[d]]
      BY <1>3, <1>4, <2>2, <3>1 DEF IInv, Typed
    <3> QED
      BY <2>1, <2>2, <3>2 DEF IInv, Kept
  <2> QED
    BY <2>3, <2>4
<1>10. OwnStep /\ ClosedStep /\ PasswordStep
  BY <1>1, <1>2, <1>5, SessionsAssumption DEF OwnStep, ClosedStep, PasswordStep
<1> QED
  BY <1>6, <1>7, <1>8, <1>9, <1>10 DEF Good, IInv

-----------------------------------------------------------------------------
\* What a user alone in using his name has saved: his own session's contacts, if it
\* is among those that save.
LEMMA SavedAlone ==
  ASSUME NEW S \in SUBSET Conn, NEW cs, NEW d \in Conn, user[d] \in User, Alone(d)
  PROVE  Saved(S, cs)[user[d]] =
             IF d \in S /\ InSession(d) THEN cs[d] ELSE profile[user[d]]
<1> DEFINE Of == {e \in S : user[e] = user[d] /\ InSession(e)}
<1>1. Of = IF d \in S /\ InSession(d) THEN {d} ELSE {}
  BY DEF Alone
<1>2. Saved(S, cs)[user[d]] =
          IF Of = {} THEN profile[user[d]] ELSE cs[CHOOSE e \in Of : TRUE]
  BY DEF Saved
<1> QED
  BY <1>1, <1>2

\* A step that changes contacts only, and saves those of whoever uses his name alone.
LEMMA ContactsStep ==
  ASSUME IInv, UNCHANGED login, DOMAIN profile' = User, DOMAIN contacts' = Conn,
         \A d \in Conn : HasRead(d) /\ Alone(d) => profile'[user[d]] = contacts'[d]
  PROVE  Good
BY DEF login, Good, IInv, Typed, Awaiting, Named, Listing, Kept, HasRead, Alone, InSession,
       OwnStep, ClosedStep, PasswordStep

\* A session changes its own contacts and saves them.
LEMMA OwnContactsStep ==
  ASSUME IInv, NEW c \in Conn, NEW v, InSession(c), UNCHANGED login,
         contacts' = [contacts EXCEPT ![c] = v], profile' = Saved({c}, contacts')
  PROVE  Good
<1>1. DOMAIN profile' = User /\ DOMAIN contacts' = Conn
  BY DEF IInv, Typed, Saved
<1>2. ASSUME NEW d \in Conn, HasRead(d), Alone(d)
      PROVE  profile'[user[d]] = contacts'[d]
  <2>1. user[d] \in User /\ profile[user[d]] = contacts[d]
    BY <1>2 DEF IInv, Typed, Named, Kept, HasRead
  <2>2. profile'[user[d]] =
            IF d \in {c} /\ InSession(d) THEN contacts'[d] ELSE profile[user[d]]
    BY <1>2, <2>1, SavedAlone
  <2> QED
    BY <2>1, <2>2 DEF IInv, Typed
<1> QED
  BY <1>1, <1>2, ContactsStep

LEMMA TargetStep ==
  ASSUME IInv, NEW c \in Conn, NEW t, Select(c, t) \/ Address(c, t) \/ RemoveContact(c, t)
  PROVE  Good
BY OwnContactsStep DEF Select, Address, RemoveContact, SetTarget, Typing, Commanding

\* The connections listed for p have a session of his.
LEMMA ListedSession ==
  ASSUME IInv, NEW p, NEW d \in Listed(p)
  PROVE  d \in Conn /\ InSession(d) /\ user[d] = p
BY DEF IInv, Typed, Listing, Listed

LEMMA FlushStep ==
  ASSUME IInv, NEW c \in Conn, Flush(c)
  PROVE  Good
<1> DEFINE to == Listed(active[c])
           once == IF Len(pending[c]) = 1 THEN {c} ELSE {}
<1>1. UNCHANGED login
  BY DEF Flush
<1>2. CASE active[c] = Console
  BY <1>1, <1>2, QuietStep DEF Flush, login
<1>3. CASE active[c] # Console
  <2>1. /\ contacts' = Added(to, user[c])
        /\ profile' = [u \in User |->
               IF \E d \in to : user[d] = u THEN Saved(to, contacts')[u]
               ELSE Saved(once, contacts)[u]]
    BY <1>3 DEF Flush, Outbound
  <2>2. to \in SUBSET Conn /\ once \in SUBSET Conn
        /\ \A d \in to : InSession(d)
    BY ListedSession
  <2> HIDE DEF to, once
  <2>3. DOMAIN profile' = User /\ DOMAIN contacts' = Conn
    BY <2>1 DEF Added
  <2>4. ASSUME NEW d \in Conn, HasRead(d), Alone(d)
        PROVE  profile'[user[d]] = contacts'[d]
    <3>1. user[d] \in User /\ profile[user[d]] = contacts[d]
      BY <2>4 DEF IInv, Typed, Named, Kept, HasRead
    <3>2. CASE d \in to
      BY <2>1, <2>2, <2>4, <3>1, <3>2, SavedAlone
    <3>3. CASE d \notin to
      <4>1. contacts'[d] = contacts[d]
        BY <2>1, <3>3 DEF Added
      <4>2. ~ \E e \in to : user[e] = user[d]
        BY <2>2, <2>4, <3>3 DEF Alone
      <4>3. profile'[user[d]] = Saved(once, contacts)[user[d]]
        BY <2>1, <3>1, <4>2
      <4>4. Saved(once, contacts)[user[d]] =
                IF d \in once /\ InSession(d) THEN contacts[d] ELSE profile[user[d]]
        BY <2>2, <2>4, <3>1, SavedAlone
      <4> QED
        BY <3>1, <4>1, <4>3, <4>4
    <3> QED
      BY <3>2, <3>3
  <2> QED
    BY <1>1, <2>3, <2>4, ContactsStep
<1> QED
  BY <1>2, <1>3

LEMMA HeardStep ==
  ASSUME IInv, NEW p, NEW U \in SUBSET User, Heard(p, U)
  PROVE  Good
<1> DEFINE all == {sessions[u] : u \in User} \ {NoConn}
           to == UNION {Listed(u) : u \in U}
           moved == {c \in all : contacts[c] \cap Namesakes(p) # {}}
<1>1. /\ UNCHANGED login
      /\ contacts' = [c \in Conn |->
             (IF c \in all THEN Moved(contacts[c], p) ELSE contacts[c])
                 \cup (IF c \in to THEN {p} ELSE {})]
      /\ profile' = Saved(moved \cup to, contacts')
  BY DEF Heard
<1>2. /\ moved \cup to \in SUBSET Conn
      /\ \A c \in moved \cup to : InSession(c)
      /\ \A c \in all \ moved : Moved(contacts[c], p) = contacts[c]
  <2>1. all \in SUBSET Conn /\ \A c \in all : InSession(c)
    BY DEF IInv, Typed, Listing
  <2>2. to \in SUBSET Conn /\ \A c \in to : InSession(c)
    BY ListedSession
  <2>3. \A c \in all \ moved : Moved(contacts[c], p) = contacts[c]
    BY DEF Moved
  <2> QED
    BY <2>1, <2>2, <2>3
<1> HIDE DEF all, to, moved
<1>3. DOMAIN profile' = User /\ DOMAIN contacts' = Conn
  BY <1>1 DEF Saved
<1>4. ASSUME NEW d \in Conn, HasRead(d), Alone(d)
      PROVE  profile'[user[d]] = contacts'[d]
  <2>1. user[d] \in User /\ profile[user[d]] = contacts[d]
    BY <1>4 DEF IInv, Typed, Named, Kept, HasRead
  <2>2. profile'[user[d]] = IF d \in moved \cup to /\ InSession(d)
                            THEN contacts'[d] ELSE profile[user[d]]
    <3> DEFINE S == moved \cup to
    <3>1. S \in SUBSET Conn
      BY <1>2
    <3> HIDE DEF S
    <3>2. Saved(S, contacts')[user[d]] =
              IF d \in S /\ InSession(d) THEN contacts'[d] ELSE profile[user[d]]
      BY <1>4, <2>1, <3>1, SavedAlone
    <3> QED
      BY <1>1, <3>2 DEF S
  <2>3. d \notin moved \cup to => contacts'[d] = contacts[d]
    BY <1>1, <1>2
  <2> QED
    BY <1>2, <2>1, <2>2, <2>3
<1> QED
  BY <1>1, <1>3, <1>4, ContactsStep

\* Keys and Telnet access of an account are changed, never its secret.
LEMMA KeysStep ==
  ASSUME IInv, NEW c \in Conn, NEW k, NEW b,
         KeysAdd(c, k) \/ KeysDel(c, k) \/ AllowTelnet(c, b)
  PROVE  Good
<1>1. user[c] \in User
  BY DEF KeysAdd, KeysDel, AllowTelnet, Typing, Commanding, InSession, IInv, Named
<1>2. PICK a : /\ account' = [account EXCEPT ![user[c]] = a]
               /\ "secret" \in DOMAIN a /\ a.secret = account[user[c]].secret
  BY <1>1 DEF KeysAdd, KeysDel, AllowTelnet, Keys, WithKey, WithoutKey, IInv, Typed
<1>3. UNCHANGED <<sessions, sock, authState, user, check, profile, contacts>>
  BY DEF KeysAdd, KeysDel, AllowTelnet, Keys
<1> QED
  BY <1>1, <1>2, <1>3
     DEF Good, IInv, Typed, Awaiting, Named, Listing, Kept, HasRead, Alone, InSession,
         OwnStep, ClosedStep, PasswordStep

-----------------------------------------------------------------------------
LEMMA StepHolds == IInv /\ [Next]_vars => Good
<1> SUFFICES ASSUME IInv, [Next]_vars
             PROVE  Good
  OBVIOUS
<1>1. ASSUME NEW c \in Conn, Connect(c) \/ Close(c) \/ Quit(c) \/ Flush(c) PROVE Good
  BY <1>1, SocketStep, CleanupStep, FlushStep
<1>2. ASSUME NEW c \in Telnet, Hashed(c) \/ Accepted(c) \/ Rejected(c) PROVE Good
  BY <1>2, LoginStep, RejectedStep
<1>3. ASSUME NEW c \in Telnet, NEW u \in Client[c].names, Username(c, u) PROVE Good
  BY <1>3, UsernameStep
<1>4. ASSUME NEW c \in Telnet, NEW p \in Client[c].passwords,
             RegisterPassword(c, p) \/ ConfirmPassword(c, p) \/ LoginPassword(c, p)
      PROVE Good
  BY <1>4, PasswordEntryStep
<1>5. ASSUME NEW c \in Ssh, Shell(c) \/ ChannelClose(c) PROVE Good
  BY <1>5, ShellStep, CleanupStep DEF Conn
<1>6. ASSUME NEW c \in Ssh, NEW u \in Client[c].names, NEW p \in Client[c].passwords,
             NEW k \in Client[c].keys \cup {NoKey}, SshAuth(c, u, p, k)
      PROVE Good
  <2>1. u \in User
    BY SessionsAssumption DEF Conn
  <2> QED
    BY <1>6, <2>1, SshAuthStep
<1>7. ASSUME NEW c \in Conn, NEW l \in Line, Enter(c, l) PROVE Good
  BY <1>7, QuietStep DEF Enter, login
<1>8. ASSUME NEW c \in Conn, NEW t, Select(c, t) \/ RemoveContact(c, t) \/ Address(c, t)
      PROVE Good
  BY <1>8, TargetStep
<1>9. ASSUME NEW c \in Conn, NEW k, NEW b, KeysAdd(c, k) \/ KeysDel(c, k) \/ AllowTelnet(c, b)
      PROVE Good
  BY <1>9, KeysStep
<1>10. ASSUME NEW p, NEW u \in User, PresenceChange(p) \/ RemoteMessage(p, u) PROVE Good
  BY <1>10, HeardStep DEF PresenceChange, RemoteMessage
<1>11. ASSUME NEW p, PresenceChange(p) PROVE Good
  BY <1>11, HeardStep DEF PresenceChange
<1>12. CASE UNCHANGED vars
  BY <1>12, QuietStep DEF vars, login
<1> QED
  BY <1>1, <1>2, <1>3, <1>4, <1>5, <1>6, <1>7, <1>8, <1>9, <1>10, <1>11, <1>12 DEF Next

-----------------------------------------------------------------------------
(* Types                                                                    *)

\* The rows of the table.
Account == [secret : Secret, keys : KeyLists, allowTelnet : BOOLEAN]

Bursts == {q \in Seq(Line) : IsInjective(q)}

\* A sequence without repetition stays one when an element it lacks is appended ...
LEMMA AppendFresh ==
  ASSUME NEW S, NEW q \in Seq(S), IsInjective(q), NEW x \in S, ~Contains(q, x)
  PROVE  Append(q, x) \in Seq(S) /\ IsInjective(Append(q, x))
<1>1. Len(q) \in Nat /\ DOMAIN q = 1 .. Len(q)
  BY LenProperties
<1>2. /\ Append(q, x) \in Seq(S) /\ Len(Append(q, x)) = Len(q) + 1
      /\ \A i \in 1 .. Len(q) : Append(q, x)[i] = q[i]
      /\ Append(q, x)[Len(q) + 1] = x
  BY AppendProperties
<1>3. DOMAIN Append(q, x) = 1 .. Len(q) + 1
  BY <1>2, LenProperties
<1> DEFINE r == Append(q, x)
<1> HIDE DEF r
<1>4. \A i \in 1 .. Len(q) : q[i] # x
  BY DEF Contains
<1>5. ASSUME NEW i \in 1 .. Len(q) + 1, NEW j \in 1 .. Len(q) + 1, r[i] = r[j]
      PROVE  i = j
  <2>1. CASE i \in 1 .. Len(q) /\ j \in 1 .. Len(q)
    BY <1>1, <1>2, <1>5, <2>1 DEF r, IsInjective
  <2>2. CASE i = Len(q) + 1 \/ j = Len(q) + 1
    BY <1>1, <1>2, <1>4, <1>5, <2>2 DEF r
  <2> QED
    BY <1>1, <2>1, <2>2
<1> QED
  BY <1>2, <1>3, <1>5 DEF IsInjective, r

\* ... or one is taken out.
LEMMA RemovedAt ==
  ASSUME NEW S, NEW q \in Seq(S), IsInjective(q), NEW n \in 1 .. Len(q)
  PROVE  RemoveAt(q, n) \in Seq(S) /\ IsInjective(RemoveAt(q, n))
<1> DEFINE l == Len(q)
           a == SubSeq(q, 1, n - 1)
           b == SubSeq(q, n + 1, l)
<1>1. l \in Nat /\ DOMAIN q = 1 .. l /\ \A i \in 1 .. l : q[i] \in S
  BY LenProperties
<1>2. n \in Int /\ n - 1 \in Int /\ n + 1 \in Int /\ l \in Int
  BY <1>1
<1>3. (\A i \in 1 .. n - 1 : q[i] \in S) /\ \A i \in n + 1 .. l : q[i] \in S
  BY <1>1
<1>4. /\ a \in Seq(S) /\ Len(a) = n - 1 /\ \A i \in 1 .. n - 1 : a[i] = q[i]
  <2>1. /\ a \in Seq(S) /\ Len(a) = (IF 1 <= n - 1 THEN (n - 1) - 1 + 1 ELSE 0)
        /\ \A i \in 1 .. (n - 1) - 1 + 1 : a[i] = q[1 + i - 1]
    BY <1>2, <1>3, SubSeqProperties
  <2> HIDE DEF a, l
  <2> QED
    BY <1>1, <2>1
<1>5. /\ b \in Seq(S) /\ Len(b) = l - n /\ \A i \in 1 .. l - n : b[i] = q[n + i]
  <2>1. /\ b \in Seq(S) /\ Len(b) = (IF n + 1 <= l THEN l - (n + 1) + 1 ELSE 0)
        /\ \A i \in 1 .. l - (n + 1) + 1 : b[i] = q[(n + 1) + i - 1]
    BY <1>2, <1>3, SubSeqProperties
  <2> HIDE DEF b, l
  <2>2. \A i \in 1 .. l - n : (n + 1) + i - 1 = n + i
    BY <1>1
  <2>3. l - (n + 1) + 1 = l - n /\ (n + 1 <= l \/ l - n = 0)
    BY <1>1
  <2> QED
    BY <2>1, <2>2, <2>3
<1> HIDE DEF a, b, l
<1>6. /\ a \o b \in Seq(S) /\ Len(a \o b) = Len(a) + Len(b)
      /\ \A i \in 1 .. Len(a) + Len(b) : (a \o b)[i] = IF i <= Len(a) THEN a[i] ELSE b[i - Len(a)]
  BY <1>4, <1>5, ConcatProperties
<1>7. DOMAIN (a \o b) = 1 .. l - 1
  <2>1. Len(a \o b) = l - 1
    BY <1>1, <1>4, <1>5, <1>6
  <2> QED
    BY <1>6, <2>1, LenProperties
<1>8. ASSUME NEW i \in 1 .. l - 1
      PROVE  (a \o b)[i] = q[IF i < n THEN i ELSE i + 1]
  <2>1. (a \o b)[i] = IF i <= n - 1 THEN a[i] ELSE b[i - (n - 1)]
    BY <1>1, <1>4, <1>5, <1>6
  <2>2. CASE i < n
    BY <1>1, <1>4, <2>1, <2>2
  <2>3. CASE ~(i < n)
    <3>1. i - (n - 1) \in 1 .. l - n /\ n + (i - (n - 1)) = i + 1
      BY <1>1, <2>3
    <3> QED
      BY <1>1, <1>5, <2>1, <2>3, <3>1
  <2> QED
    BY <2>2, <2>3
<1>9. IsInjective(a \o b)
  <2> SUFFICES ASSUME NEW i \in 1 .. l - 1, NEW j \in 1 .. l - 1, (a \o b)[i] = (a \o b)[j]
               PROVE  i = j
    BY <1>7 DEF IsInjective
  <2>1. q[IF i < n THEN i ELSE i + 1] = q[IF j < n THEN j ELSE j + 1]
    BY <1>8, Zenon
  <2>2. (IF i < n THEN i ELSE i + 1) = (IF j < n THEN j ELSE j + 1)
    BY <1>1, <2>1 DEF IsInjective
  <2> QED
    BY <1>1, <2>2
<1> QED
  BY <1>6, <1>9 DEF RemoveAt, a, b, l

LEMMA NoneTwice == <<>> \in KeyLists /\ <<>> \in Bursts
BY EmptySeq DEF KeyLists, Bursts, IsInjective

LEMMA NewAccountType == NewAccount \in Account
BY NoneTwice DEF NewAccount, Account, Secret

\* What the commands on keys make of an account.
LEMMA WithKeyType ==
  ASSUME NEW a \in Account, NEW k \in Key
  PROVE  WithKey(a, k) \in Account
<1>1. a.keys \in Seq(Key) /\ IsInjective(a.keys)
  BY DEF Account, KeyLists
<1>2. CASE Contains(a.keys, k)
  BY <1>2 DEF WithKey, Account
<1>3. CASE ~Contains(a.keys, k)
  <2>1. Append(a.keys, k) \in KeyLists
    BY <1>1, <1>3, AppendFresh DEF KeyLists
  <2>2. WithKey(a, k) = [a EXCEPT !.keys = Append(a.keys, k)]
    BY <1>3 DEF WithKey
  <2> QED
    BY <2>1, <2>2 DEF Account
<1> QED
  BY <1>2, <1>3

LEMMA WithoutKeyType ==
  ASSUME NEW a \in Account, NEW k
  PROVE  WithoutKey(a, k) \in Account
<1>1. a.keys \in Seq(Key) /\ IsInjective(a.keys)
  BY DEF Account, KeyLists
<1> DEFINE n == CHOOSE i \in 1 .. Len(a.keys) : a.keys[i] = k
<1>2. CASE Contains(a.keys, k)
  <2>1. n \in 1 .. Len(a.keys)
    BY <1>2 DEF Contains
  <2>2. WithoutKey(a, k) = [a EXCEPT !.keys = RemoveAt(a.keys, n)]
    BY <1>2 DEF WithoutKey
  <2> HIDE DEF n
  <2>3. RemoveAt(a.keys, n) \in KeyLists
    BY <1>1, <2>1, RemovedAt DEF KeyLists
  <2> QED
    BY <2>2, <2>3 DEF Account
<1>3. CASE ~Contains(a.keys, k)
  BY <1>3 DEF WithoutKey, Account
<1> QED
  BY <1>2, <1>3

\* The first login over SSH leaves an account.
LEMMA RegisteredType ==
  ASSUME NEW a \in Account, NEW p \in Password, NEW k \in Key \cup {NoKey}
  PROVE  Registered(a, p, k) \in Account
<1>1. Salt(a, k) \in Key \cup {OwnSalt}
  <2>1. a.keys \in Seq(Key)
    BY DEF Account, KeyLists
  <2>2. a.keys # <<>> => a.keys[1] \in Key
    BY <2>1, EmptySeq, LenProperties
  <2> QED
    BY <2>2 DEF Salt
<1>2. Vault(p, Salt(a, k)) \in Secret
  BY <1>1 DEF Secret
<1> DEFINE b == [a EXCEPT !.secret = Vault(p, Salt(a, k))]
<1>3. b \in Account
  BY <1>2 DEF Account
<1> HIDE DEF b
<1>4. k # NoKey => WithKey(b, k) \in Account
  BY <1>3, WithKeyType
<1> QED
  BY <1>3, <1>4 DEF Registered, b

\* What else types need: a password waits to be hashed, and whoever has lines to send
\* has an address.
Given ==
    /\ \A c \in Conn : check[c] = "hash" => temp[c] \in Password
    /\ \A c \in Conn : pending[c] # <<>> => user[c] \in User

Types == TypeOK /\ Given

LEMMA InitTypes == Init => Types
<1> SUFFICES ASSUME Init
             PROVE  Types
  OBVIOUS
<1>1. account \in [User -> Account] /\ pending \in [Conn -> Bursts]
  BY NewAccountType, NoneTwice DEF Init
<1> QED
  BY <1>1, SessionsAssumption DEF Init, Types, TypeOK, Given, Account, Bursts, States, Target

\* What is saved are contacts.
LEMMA SavedType ==
  ASSUME TypeOK, NEW S \in SUBSET Conn, NEW cs \in [Conn -> SUBSET Peer]
  PROVE  Saved(S, cs) \in [User -> SUBSET Peer]
<1> SUFFICES ASSUME NEW u \in User
             PROVE  Saved(S, cs)[u] \in SUBSET Peer
  BY DEF Saved
<1> DEFINE Of == {c \in S : user[c] = u /\ InSession(c)}
<1>1. Saved(S, cs)[u] = IF Of = {} THEN profile[u] ELSE cs[CHOOSE c \in Of : TRUE]
  BY DEF Saved
<1>2. Of \subseteq Conn
  OBVIOUS
<1> HIDE DEF Of
<1> QED
  BY <1>1, <1>2 DEF TypeOK

LEMMA QuietTypes ==
  ASSUME Types, UNCHANGED vars
  PROVE  Types'
BY DEF Types, TypeOK, Given, vars, login, lines

\* The socket opens, or the server ends it.
LEMMA SocketTypes ==
  ASSUME Types, NEW c \in Conn, Connect(c) \/ Quit(c)
  PROVE  Types'
BY DEF Connect, Quit, Types, TypeOK, Given, lines

\* The steps up to the check of a password.
LEMMA EntryTypes ==
  ASSUME Types, IInv, NEW c \in Telnet,
         \/ \E u \in Client[c].names : Username(c, u)
         \/ \E p \in Client[c].passwords :
                RegisterPassword(c, p) \/ ConfirmPassword(c, p) \/ LoginPassword(c, p)
  PROVE  Types'
<1>1. /\ c \in Conn /\ Client[c].names \subseteq User
      /\ Client[c].passwords \subseteq Password /\ "hash" # "none"
  BY SessionsAssumption DEF Conn
<1>2. ASSUME NEW u \in User, Username(c, u)
      PROVE  Types'
  BY <1>1, <1>2 DEF Username, Types, TypeOK, Given, States, lines
<1>3. ASSUME NEW p \in Password, RegisterPassword(c, p)
      PROVE  Types'
  BY <1>1, <1>3 DEF RegisterPassword, Listens, Types, TypeOK, Given, States, lines
<1>4. ASSUME NEW p \in Password, ConfirmPassword(c, p)
      PROVE  Types'
  <2>1. /\ temp' \in [Conn -> Password \cup {NoConn}]
        /\ check' \in [Conn -> {"none", "hash", "right", "wrong"}]
        /\ authState' \in [Conn -> States]
    BY <1>1, <1>4 DEF ConfirmPassword, Types, TypeOK, States
  <2>2. \A d \in Conn : check'[d] = "hash" => temp'[d] \in Password
    BY <1>1, <1>4 DEF ConfirmPassword, Listens, Types, TypeOK, Given
  <2> QED
    BY <1>4, <2>1, <2>2 DEF ConfirmPassword, Types, TypeOK, Given, lines
<1>5. ASSUME NEW p \in Password, LoginPassword(c, p)
      PROVE  Types'
  <2>1. user[c] \in User
    BY <1>1, <1>5 DEF LoginPassword, IInv, Named
  <2>2. /\ contacts' \in [Conn -> SUBSET Peer]
        /\ sock' \in [Conn -> {"none", "open", "ending", "closed"}]
        /\ check' \in [Conn -> {"none", "hash", "right", "wrong"}]
    BY <1>1, <1>5, <2>1 DEF LoginPassword, Types, TypeOK
  <2>3. \A d \in Conn : check'[d] = "hash" => check[d] = "hash"
    BY <1>1, <1>5 DEF LoginPassword, Types, TypeOK
  <2> QED
    BY <1>5, <2>2, <2>3 DEF LoginPassword, Types, TypeOK, Given, lines
<1> QED
  BY <1>1, <1>2, <1>3, <1>4, <1>5

\* The check of a password has ended.
LEMMA CheckTypes ==
  ASSUME Types, IInv, NEW c \in Telnet, Hashed(c) \/ Accepted(c) \/ Rejected(c)
  PROVE  Types'
<1>1. c \in Conn /\ user[c] \in User
  BY DEF Hashed, Accepted, Rejected, IInv, Awaiting, Named, Conn
<1>2. CASE Hashed(c)
  <2>1. Classic(temp[c]) \in Secret
    BY <1>1, <1>2 DEF Hashed, Types, Given, Secret
  <2>2. account' \in [User -> Account]
    BY <1>1, <1>2, <2>1 DEF Hashed, Types, TypeOK, Account
  <2> QED
    BY <1>1, <1>2, <2>2 DEF Hashed, CompleteLogin, Types, TypeOK, Given, Account, States, lines
<1>3. CASE Accepted(c)
  BY <1>1, <1>3 DEF Accepted, CompleteLogin, Types, TypeOK, Given, States, lines
<1>4. CASE Rejected(c)
  <2>1. attempts' \in [Conn -> 0 .. MaxAttempts]
    BY <1>1, <1>4, SessionsAssumption DEF Rejected, Types, TypeOK
  <2>2. sock' \in [Conn -> {"none", "open", "ending", "closed"}]
    BY <1>1, <1>4 DEF Rejected, Types, TypeOK
  <2> QED
    BY <1>1, <1>4, <2>1, <2>2 DEF Rejected, Types, TypeOK, Given, lines
<1> QED
  BY <1>2, <1>3, <1>4

LEMMA SshTypes ==
  ASSUME Types, IInv, NEW c \in Ssh,
         \/ Shell(c)
         \/ \E u \in Client[c].names, p \in Client[c].passwords :
                \E k \in Client[c].keys \cup {NoKey} : SshAuth(c, u, p, k)
  PROVE  Types'
<1>1. /\ c \in Conn /\ Client[c].names \subseteq User
      /\ Client[c].passwords \subseteq Password /\ Client[c].keys \subseteq Key
  BY SessionsAssumption DEF Conn
<1>2. CASE Shell(c)
  <2>1. user[c] \in User
    BY <1>1, <1>2 DEF Shell, IInv, Named
  <2> QED
    BY <1>1, <1>2, <2>1 DEF Shell, Types, TypeOK, Given, States, lines
<1>3. ASSUME NEW u \in User, NEW p \in Password, NEW k \in Key \cup {NoKey}, SshAuth(c, u, p, k)
      PROVE  Types'
  <2>1. account[u] \in Account
    BY DEF Types, TypeOK, Account
  <2>2. Registered(account[u], p, k) \in Account
    BY <2>1, RegisteredType
  <2>3. account' \in [User -> Account]
    BY <1>3, <2>1, <2>2 DEF SshAuth, Types, TypeOK, Account
  <2>4. attempts' \in [Conn -> 0 .. MaxAttempts]
    BY <1>1, <1>3, SessionsAssumption DEF SshAuth, Types, TypeOK
  <2>5. /\ sock' \in [Conn -> {"none", "open", "ending", "closed"}]
        /\ authState' \in [Conn -> States]
        /\ user' \in [Conn -> User \cup {NoConn}]
        /\ \A d \in Conn : user'[d] = user[d] \/ user'[d] \in User
    <3>1. /\ sock \in [Conn -> {"none", "open", "ending", "closed"}]
          /\ authState \in [Conn -> States]
          /\ user \in [Conn -> User \cup {NoConn}]
      BY DEF Types, TypeOK
    <3>2. \/ sock' = [sock EXCEPT ![c] = "ending"] /\ UNCHANGED <<authState, user>>
          \/ UNCHANGED <<sock, authState, user>>
          \/ /\ authState' = [authState EXCEPT ![c] = "AUTHENTICATED"]
             /\ user' = [user EXCEPT ![c] = u]
             /\ UNCHANGED sock
      BY <1>3 DEF SshAuth
    <3> QED
      BY <1>1, <3>1, <3>2 DEF States
  <2>6. UNCHANGED <<sessions, temp, check, profile, contacts, active, pending, left>>
    BY <1>3 DEF SshAuth, lines
  <2> QED
    BY <2>3, <2>4, <2>5, <2>6 DEF Types, TypeOK, Given, Account
<1> QED
  BY <1>1, <1>2, <1>3

LEMMA CleanupTypes ==
  ASSUME Types, IInv, NEW c \in Conn, Close(c) \/ ChannelClose(c)
  PROVE  Types'
<1>1. Cleanup(c) /\ sock' \in [Conn -> {"none", "open", "ending", "closed"}]
  BY DEF Close, ChannelClose, Types, TypeOK
<1>2. InSession(c) => user[c] \in User
  BY DEF IInv, Named, InSession
<1>3. profile' \in [User -> SUBSET Peer] /\ sessions' \in [User -> Conn \cup {NoConn}]
  <2>1. /\ profile \in [User -> SUBSET Peer] /\ sessions \in [User -> Conn \cup {NoConn}]
        /\ contacts[c] \in SUBSET Peer
    BY DEF Types, TypeOK
  <2>2. CASE InSession(c)
    BY <1>1, <1>2, <2>1, <2>2 DEF Cleanup
  <2>3. CASE ~InSession(c)
    BY <1>1, <2>1, <2>3 DEF Cleanup
  <2> QED
    BY <2>2, <2>3
<1> QED
  BY <1>1, <1>3 DEF Cleanup, Types, TypeOK, Given, States, lines

LEMMA EnterTypes ==
  ASSUME Types, IInv, NEW c \in Conn, NEW l \in Line, Enter(c, l)
  PROVE  Types'
<1>1. user[c] \in User
  BY DEF Enter, Typing, InSession, IInv, Named
<1>2. pending[c] \in Seq(Line) /\ IsInjective(pending[c]) /\ ~Contains(pending[c], l)
  BY DEF Enter, Types, TypeOK
<1>3. Queued(l, pending[c]) \in Bursts
  BY <1>2, AppendFresh DEF Queued, Bursts
<1>4. pending' \in [Conn -> Bursts] /\ \A d \in Conn \ {c} : pending'[d] = pending[d]
  BY <1>3 DEF Enter, Types, TypeOK, Bursts
<1>5. UNCHANGED <<login, profile, contacts, active, left>>
  BY DEF Enter
<1> QED
  BY <1>1, <1>4, <1>5 DEF Types, TypeOK, Given, Bursts, login

\* A session changes its own contacts and its target, and saves them.
LEMMA TargetTypes ==
  ASSUME Types, NEW c \in Conn, NEW t \in Target,
         Select(c, t) \/ Address(c, t) \/ RemoveContact(c, t)
  PROVE  Types'
<1>1. UNCHANGED <<login, lines>> /\ profile' = Saved({c}, contacts')
  BY DEF Select, Address, RemoveContact, SetTarget
<1>2. contacts' \in [Conn -> SUBSET Peer]
  <2>1. contacts \in [Conn -> SUBSET Peer]
    BY DEF Types, TypeOK
  <2>2. PICK v \in SUBSET Peer : contacts' = [contacts EXCEPT ![c] = v]
    <3>1. CASE Select(c, t) \/ Address(c, t)
      BY <2>1, <3>1 DEF Select, Address, SetTarget
    <3>2. CASE RemoveContact(c, t)
      BY <2>1, <3>2 DEF RemoveContact
    <3> QED
      BY <3>1, <3>2
  <2> QED
    BY <2>1, <2>2
<1>3. active' \in [Conn -> Target]
  BY DEF Select, Address, RemoveContact, SetTarget, Types, TypeOK, Target
<1>4. profile' \in [User -> SUBSET Peer]
  BY <1>1, <1>2, SavedType DEF Types
<1> QED
  BY <1>1, <1>2, <1>3, <1>4 DEF Types, TypeOK, Given, login, lines

LEMMA FlushTypes ==
  ASSUME Types, IInv, NEW c \in Conn, Flush(c)
  PROVE  Types'
<1> DEFINE to == Listed(active[c])
           once == IF Len(pending[c]) = 1 THEN {c} ELSE {}
<1>1. user[c] \in User /\ UNCHANGED <<login, active>>
  BY DEF Flush, Types, Given
<1>2. to \in SUBSET Conn /\ once \in SUBSET Conn
  BY ListedSession
<1>3. left' \subseteq Line
  <2>1. pending[c] \in Seq(Line) /\ left' = left \cup ToSet(pending[c])
    BY DEF Flush, Types, TypeOK
  <2>2. ToSet(pending[c]) \subseteq Line
    BY <2>1, LenProperties DEF ToSet
  <2> QED
    BY <2>1, <2>2 DEF Types, TypeOK
<1>4. pending' \in [Conn -> Bursts] /\ \A d \in Conn : pending'[d] # <<>> => pending[d] # <<>>
  BY NoneTwice DEF Flush, Types, TypeOK, Bursts
<1>5. contacts' \in [Conn -> SUBSET Peer] /\ profile' \in [User -> SUBSET Peer]
  <2>1. CASE active[c] = Console
    BY <2>1 DEF Flush, Types, TypeOK
  <2>2. CASE active[c] # Console
    <3>1. /\ contacts' = Added(to, user[c])
          /\ profile' = [u \in User |->
                 IF \E d \in to : user[d] = u THEN Saved(to, contacts')[u]
                 ELSE Saved(once, contacts)[u]]
      BY <2>2 DEF Flush, Outbound
    <3> HIDE DEF to, once
    <3>2. contacts' \in [Conn -> SUBSET Peer] /\ contacts \in [Conn -> SUBSET Peer]
      BY <1>1, <3>1 DEF Added, Types, TypeOK, Peer
    <3>3. /\ Saved(to, contacts') \in [User -> SUBSET Peer]
          /\ Saved(once, contacts) \in [User -> SUBSET Peer]
      BY <1>2, <3>2, SavedType DEF Types
    <3> QED
      BY <3>1, <3>2, <3>3
  <2> QED
    BY <2>1, <2>2
<1> HIDE DEF to, once
<1> QED
  BY <1>1, <1>3, <1>4, <1>5 DEF Types, TypeOK, Given, Bursts, login

LEMMA HeardTypes ==
  ASSUME Types, IInv, NEW p \in Remote, NEW U \in SUBSET User, Heard(p, U)
  PROVE  Types'
<1> DEFINE all == {sessions[u] : u \in User} \ {NoConn}
           to == UNION {Listed(u) : u \in U}
           moved == {c \in all : contacts[c] \cap Namesakes(p) # {}}
           S == moved \cup to
<1>1. UNCHANGED <<login, lines>> /\ profile' = Saved(S, contacts')
  BY DEF Heard
<1>2. S \in SUBSET Conn
  <2>1. all \in SUBSET Conn
    BY DEF IInv, Typed
  <2>2. to \in SUBSET Conn
    BY ListedSession
  <2> QED
    BY <2>1, <2>2
<1>3. contacts' \in [Conn -> SUBSET Peer]
  BY DEF Heard, Moved, Types, TypeOK, Peer
<1>4. active' \in [Conn -> Target]
  BY DEF Heard, Types, TypeOK, Target, Peer
<1> HIDE DEF S
<1>5. profile' \in [User -> SUBSET Peer]
  BY <1>1, <1>2, <1>3, SavedType DEF Types
<1> QED
  BY <1>1, <1>3, <1>4, <1>5 DEF Types, TypeOK, Given, login, lines

LEMMA KeysTypes ==
  ASSUME Types, IInv, NEW c \in Conn,
         \/ \E k \in Client[c].keys : KeysAdd(c, k) \/ KeysDel(c, k)
         \/ \E b \in BOOLEAN : AllowTelnet(c, b)
  PROVE  Types'
<1>1. user[c] \in User /\ account[user[c]] \in Account /\ Client[c].keys \subseteq Key
  BY SessionsAssumption DEF KeysAdd, KeysDel, AllowTelnet, Typing, Commanding, InSession,
     IInv, Named, Types, TypeOK, Account
<1>2. PICK a \in Account : Keys(c, a)
  <2>1. ASSUME NEW k \in Key, KeysAdd(c, k) \/ KeysDel(c, k)
        PROVE  \E a \in Account : Keys(c, a)
    BY <1>1, <2>1, WithKeyType, WithoutKeyType DEF KeysAdd, KeysDel
  <2>2. ASSUME NEW b \in BOOLEAN, AllowTelnet(c, b)
        PROVE  \E a \in Account : Keys(c, a)
    BY <1>1, <2>2 DEF AllowTelnet, Account
  <2> QED
    BY <1>1, <2>1, <2>2
<1>3. account' \in [User -> Account]
  BY <1>1, <1>2 DEF Keys, Types, TypeOK, Account
<1> QED
  BY <1>2, <1>3 DEF Keys, Types, TypeOK, Given, Account, lines

LEMMA TypesKept == IInv /\ Types /\ [Next]_vars => Types'
<1> SUFFICES ASSUME IInv, Types, [Next]_vars
             PROVE  Types'
  OBVIOUS
<1>1. ASSUME NEW c \in Conn, Connect(c) \/ Close(c) \/ Quit(c) \/ Flush(c) PROVE Types'
  BY <1>1, SocketTypes, CleanupTypes, FlushTypes
<1>2. ASSUME NEW c \in Telnet, Hashed(c) \/ Accepted(c) \/ Rejected(c) PROVE Types'
  BY <1>2, CheckTypes
<1>3. ASSUME NEW c \in Telnet,
             \/ \E u \in Client[c].names : Username(c, u)
             \/ \E p \in Client[c].passwords :
                    RegisterPassword(c, p) \/ ConfirmPassword(c, p) \/ LoginPassword(c, p)
      PROVE Types'
  BY <1>3, EntryTypes
<1>4. ASSUME NEW c \in Ssh,
             \/ Shell(c)
             \/ \E u \in Client[c].names, p \in Client[c].passwords :
                    \E k \in Client[c].keys \cup {NoKey} : SshAuth(c, u, p, k)
      PROVE Types'
  BY <1>4, SshTypes
<1>5. ASSUME NEW c \in Ssh, ChannelClose(c) PROVE Types'
  BY <1>5, CleanupTypes DEF Conn
<1>6. ASSUME NEW c \in Conn, NEW l \in Line, Enter(c, l) PROVE Types'
  BY <1>6, EnterTypes
<1>7. ASSUME NEW c \in Conn, NEW t \in Target, Select(c, t) \/ RemoveContact(c, t) PROVE Types'
  BY <1>7, TargetTypes
<1>8. ASSUME NEW c \in Conn, NEW t \in Client[c].contacts, Address(c, t) PROVE Types'
  <2>1. t \in Target
    BY SessionsAssumption DEF Target
  <2> QED
    BY <1>8, <2>1, TargetTypes
<1>9. ASSUME NEW c \in Conn,
             \/ \E k \in Client[c].keys : KeysAdd(c, k) \/ KeysDel(c, k)
             \/ \E b \in BOOLEAN : AllowTelnet(c, b)
      PROVE Types'
  BY <1>9, KeysTypes
<1>10. ASSUME NEW p \in Remote, NEW u \in User, RemoteMessage(p, u) PROVE Types'
  BY <1>10, HeardTypes DEF RemoteMessage
<1>11. ASSUME NEW p \in Remote, PresenceChange(p) PROVE Types'
  BY <1>11, HeardTypes DEF PresenceChange
<1>12. CASE UNCHANGED vars
  BY <1>12, QuietTypes
<1> QED
  BY <1>1, <1>2, <1>3, <1>4, <1>5, <1>6, <1>7, <1>8, <1>9, <1>10, <1>11, <1>12 DEF Next

-----------------------------------------------------------------------------
LEMMA InvariantHolds == Spec => []IInv
BY InitHolds, StepHolds, PTL DEF Spec, Good

\* A user's place in the table changes hands only when a session of his begins there
\* or when the connection that has it closes, for any number of connections.
THEOREM PlaceKept == Spec => OwnSession
<1>1. IInv /\ [Next]_vars => [OwnStep]_vars
  BY StepHolds DEF Good
<1> QED
  BY <1>1, InvariantHolds, PTL DEF Spec, OwnSession, OwnStep

\* Whatever a connection was doing when it closed, it is listed for nobody then.
THEOREM ClosedTakenOff == Spec => ClosedLeaves
<1>1. IInv /\ [Next]_vars => [ClosedStep]_vars
  BY StepHolds DEF Good
<1> QED
  BY <1>1, InvariantHolds, PTL DEF Spec, ClosedLeaves, ClosedStep

\* Only a connection that was told to register replaces a password.
THEOREM PasswordsKept == Spec => PasswordKept
<1>1. IInv /\ [Next]_vars => [PasswordStep]_vars
  BY StepHolds DEF Good
<1> QED
  BY <1>1, InvariantHolds, PTL DEF Spec, PasswordKept, PasswordStep

\* The saved contacts of whoever uses his name over one connection are his session's.
THEOREM ContactsSaved == Spec => []ProfileKept
<1>1. IInv => ProfileKept
  BY DEF IInv, Kept, HasRead, Alone, InSession, ProfileKept
<1> QED
  BY <1>1, InvariantHolds, PTL

\* Accounts keep a list of keys without repetition and a secret sealed with one of them, or
\* with the hash; whoever is listed, typed to, saved or queued is someone: for every number
\* of connections, and although a session that ended still flushes, saves and is written to.
THEOREM TypeCorrect == Spec => []TypeOK
<1>1. Types => TypeOK
  BY DEF Types
<1> QED
  BY <1>1, InitTypes, TypesKept, InvariantHolds, PTL DEF Spec
=============================================================================
