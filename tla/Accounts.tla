------------------------------ MODULE Accounts ------------------------------
(* The rows of the table `profiles` as far as logging in depends on them: who   *)
(* registered with what, which keys the account has, and how a password is held *)
(* against it. A classic account stores a hash of the password. A vault stores  *)
(* a token sealed with a seed that is derived from the password and a salt: a   *)
(* key of the account, or a hash of node and user (OwnSalt) if it has none.     *)
(* Hashes and seeds are equal exactly if what they are made of is.              *)
EXTENDS SequencesExt

CONSTANTS
    User,       \* local addresses
    Password,   \* passwords of four characters or more
    Key,        \* public keys of type ssh-ed25519
    NoKey,      \* the client offers no such key
    OwnSalt

ASSUME AccountsAssumption == NoKey \notin Key /\ OwnSalt \notin Key

Unset == [kind |-> "none"]
Classic(p) == [kind |-> "classic", password |-> p]
Vault(p, salt) == [kind |-> "vault", password |-> p, salt |-> salt]
Secret == {Unset} \cup {Classic(p) : p \in Password}
                  \cup {Vault(p, k) : p \in Password, k \in Key \cup {OwnSalt}}

\* publicKeys without repetition, as they are kept: addUserPublicKey goes through a Set.
KeyLists == {keys \in Seq(Key) : IsInjective(keys)}

NewAccount == [secret |-> Unset, keys |-> <<>>, allowTelnet |-> FALSE]

\* Mutant: a key may be there twice.
MutWithKey(a, k) == [a EXCEPT !.keys = Append(@, k)]

WithKey(a, k) == [a EXCEPT !.keys = IF Contains(@, k) THEN @ ELSE Append(@, k)]

WithoutKey(a, k) ==
    [a EXCEPT !.keys =
        IF Contains(@, k) THEN RemoveAt(@, CHOOSE i \in 1 .. Len(@) : @[i] = k) ELSE @]

\* The salt a login uses for account a if the client offers k.
Salt(a, k) ==
    IF a.keys # <<>> THEN a.keys[1] ELSE IF k # NoKey THEN k ELSE OwnSalt

\* Whether an account with keys takes a client that offers k at all.
Admitted(a, k) == a.keys = <<>> \/ Contains(a.keys, k)

\* Mutant: a password that is no vault's is replaced.
MutRegisters(a) == a.secret.kind # "vault"

\* The first login over SSH registers the account.
Registers(a) == a.secret = Unset

\* It does so with the key the client offers.
Registered(a, p, k) ==
    LET b == [a EXCEPT !.secret = Vault(p, Salt(a, k))] IN
    IF k = NoKey THEN b ELSE WithKey(b, k)

\* Over SSH a password opens a vault only.
OpensSsh(a, p, k) == a.secret = Vault(p, Salt(a, k))

\* Over Telnet a vault is opened with its first key as the salt.
OpensTelnet(a, p) == a.secret \in {Classic(p), Vault(p, Salt(a, NoKey))}

\* Telnet turns away the vaults that do not allow it or have no key.
BarsTelnet(a) == a.secret.kind = "vault" /\ (~a.allowTelnet \/ a.keys = <<>>)
=============================================================================
