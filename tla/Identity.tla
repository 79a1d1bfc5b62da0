------------------------------ MODULE Identity ------------------------------
(***************************************************************************)
(* The identity component (apps/identity): registration and verification   *)
(* of accounts, and the refresh tokens that a login is continued with.     *)
(*                                                                         *)
(* An account is named by its identifier as it was spelled: the check of   *)
(* register ignores case, the unique constraint does not.  Requests        *)
(* interleave at their reads and writes; a transaction that has read a     *)
(* row with select_for_update keeps others from it until it commits.       *)
(***************************************************************************)
EXTENDS Naturals, FiniteSets

CONSTANTS
    Identifiers,   \* email addresses and phone numbers
    Spellings,     \* ways to write an identifier
    MaxTokens,     \* bound on the refresh tokens issued
    MaxAttempts,   \* VERIFICATION_MAX_ATTEMPTS
    MaxWrong,      \* bound on the wrong codes sent for an account
    Clients        \* concurrent requests

ASSUME IdentityAssumption ==
    /\ MaxTokens \in Nat /\ MaxAttempts \in Nat /\ MaxWrong \in Nat

VARIABLES
    account,       \* users.account_status, "none" where there is no row
    verified,      \* accounts whose verification_status is verified
    code,          \* verification_codes: the registration code of an account
    wrong,         \* how many wrong codes the clients have sent
    token,         \* the rows of refresh_tokens
    client,        \* the requests in progress
    overlapped     \* identifiers for which two registrations overlapped

vars == <<account, verified, code, wrong, token, client, overlapped>>
-----------------------------------------------------------------------------
Accounts == Identifiers \X Spellings
Tokens == 1..MaxTokens
NoAccount == <<>>

NoCode == [state |-> "none", expired |-> FALSE, attempts |-> 0]
NoToken == [user |-> NoAccount, revoked |-> FALSE, expired |-> FALSE, rotated |-> 0]
Idle == [pc |-> "idle", account |-> NoAccount, token |-> 0]

Init ==
    /\ account = [a \in Accounts |-> "none"]
    /\ verified = {}
    /\ code = [a \in Accounts |-> NoCode]
    /\ wrong = [a \in Accounts |-> 0]
    /\ token = [t \in Tokens |-> NoToken]
    /\ client = [c \in Clients |-> Idle]
    /\ overlapped = {}

Issued == {t \in Tokens : token[t].user # NoAccount}

\* Mutant: the row is read without select_for_update.
FreeWithoutLock(t) == TRUE

\* select_for_update of rotate_refresh_token locks the token and, through
\* select_related, its user until the request commits.
Free(t) == \A c \in Clients : ~(client[c].pc = "rotate" /\ client[c].token = t)
UserFree(a) == \A c \in Clients : ~(client[c].pc = "rotate" /\ client[c].account = a)

Begin(c, pc, a, t) == client' = [client EXCEPT ![c] = [pc |-> pc, account |-> a, token |-> t]]
End(c) == client' = [client EXCEPT ![c] = Idle]
-----------------------------------------------------------------------------
\* Mutant: the check compares identifiers as they are spelled.
ExistsAsSpelled(a) == account[a] # "none"

\* _identifier_exists: the comparison ignores case.
IdentifierExists(a) == \E b \in Accounts : b[1] = a[1] /\ account[b] # "none"

Registering(i) == \E c \in Clients : client[c].pc = "insert" /\ client[c].account[1] = i

RegisterCheck(c, a) ==
    /\ client[c].pc = "idle"
    /\ ~IdentifierExists(a)
    /\ Begin(c, "insert", a, 0)
    /\ overlapped' = IF Registering(a[1]) THEN overlapped \cup {a[1]} ELSE overlapped
    /\ UNCHANGED <<account, verified, code, wrong, token>>

\* The user and the code, unless the unique constraint refuses the user.
RegisterInsert(c) ==
    LET a == client[c].account
    IN  /\ client[c].pc = "insert"
        /\ End(c)
        /\ IF account[a] # "none" THEN UNCHANGED <<account, code>>
           ELSE /\ account' = [account EXCEPT ![a] = "unverified"]
                /\ code' = [code EXCEPT ![a].state = "sent"]
        /\ UNCHANGED <<verified, wrong, token, overlapped>>
-----------------------------------------------------------------------------
\* verify keeps the user's row locked: the whole of it is one step.  A wrong
\* code is counted and the count rolled back with the error that is raised.
Verifiable(a) ==
    /\ account[a] # "none" /\ a \notin verified
    /\ code[a].state = "sent" /\ ~code[a].expired
    /\ code[a].attempts < MaxAttempts

VerifyRight(a) ==
    /\ Verifiable(a) /\ UserFree(a)
    /\ code' = [code EXCEPT ![a].state = "consumed"]
    /\ verified' = verified \cup {a}
    /\ account' = [account EXCEPT ![a] = "active"]
    /\ UNCHANGED <<wrong, token, client, overlapped>>

VerifyWrong(a) ==
    /\ Verifiable(a) /\ UserFree(a)
    /\ wrong[a] < MaxWrong
    /\ wrong' = [wrong EXCEPT ![a] = @ + 1]
    /\ UNCHANGED <<account, verified, code, token, client, overlapped>>

CodeExpires(a) ==
    /\ code[a].state = "sent" /\ ~code[a].expired
    /\ code' = [code EXCEPT ![a].expired = TRUE]
    /\ UNCHANGED <<account, verified, wrong, token, client, overlapped>>

\* Mutant: whoever is reinstated is active.
ReinstateActive(a) ==
    /\ account[a] = "suspended" /\ UserFree(a)
    /\ account' = [account EXCEPT ![a] = "active"]
    /\ UNCHANGED <<verified, code, wrong, token, client, overlapped>>

\* An administrator's edits of the account_status.
Suspend(a) ==
    /\ account[a] \in {"unverified", "active"} /\ UserFree(a)
    /\ account' = [account EXCEPT ![a] = "suspended"]
    /\ UNCHANGED <<verified, code, wrong, token, client, overlapped>>

Reinstate(a) ==
    /\ account[a] = "suspended" /\ UserFree(a)
    /\ account' = [account EXCEPT ![a] = IF a \in verified THEN "active" ELSE "unverified"]
    /\ UNCHANGED <<verified, code, wrong, token, client, overlapped>>
-----------------------------------------------------------------------------
\* Mutant: the token rotated from stays in use.
IssueBeside(a, t) ==
    LET n == Cardinality(Issued) + 1
    IN  /\ n \in Tokens
        /\ token' = [token EXCEPT ![n] = [NoToken EXCEPT !.user = a, !.rotated = t]]

\* The row of a new refresh token; the one it is rotated from, if any, is
\* revoked.
Issue(a, t) ==
    LET n == Cardinality(Issued) + 1
    IN  /\ n \in Tokens
        /\ token' = [s \in Tokens |->
              IF s = n THEN [NoToken EXCEPT !.user = a, !.rotated = t]
              ELSE IF s = t THEN [token[s] EXCEPT !.revoked = TRUE] ELSE token[s]]

\* authenticate reads the account, issue_refresh_token does not look again.
LoginRead(c, a) ==
    /\ client[c].pc = "idle"
    /\ account[a] = "active"
    /\ Begin(c, "login", a, 0)
    /\ UNCHANGED <<account, verified, code, wrong, token, overlapped>>

LoginIssue(c) ==
    /\ client[c].pc = "login"
    /\ UserFree(client[c].account)
    /\ Issue(client[c].account, 0)
    /\ End(c)
    /\ UNCHANGED <<account, verified, code, wrong, overlapped>>

\* Mutant: the revoked flag is not looked at.
UsableIfRevoked(t) == ~token[t].expired /\ account[token[t].user] # "suspended"

Usable(t) ==
    /\ ~token[t].revoked /\ ~token[t].expired
    /\ account[token[t].user] # "suspended"

RotateRead(c, t) ==
    /\ client[c].pc = "idle"
    /\ t \in Issued
    /\ Free(t) /\ UserFree(token[t].user)
    /\ Usable(t)
    /\ Begin(c, "rotate", token[t].user, t)
    /\ UNCHANGED <<account, verified, code, wrong, token, overlapped>>

RotateWrite(c) ==
    /\ client[c].pc = "rotate"
    /\ Issue(client[c].account, client[c].token)
    /\ End(c)
    /\ UNCHANGED <<account, verified, code, wrong, overlapped>>

\* A request that ends in an error or a crash leaves nothing.
Abort(c) ==
    /\ client[c].pc \in {"insert", "login", "rotate"}
    /\ End(c)
    /\ UNCHANGED <<account, verified, code, wrong, token, overlapped>>

\* revoke_refresh_token, whatever the token's flag and expiry.
Revoke(t) ==
    /\ t \in Issued
    /\ Free(t)
    /\ token' = [token EXCEPT ![t].revoked = TRUE]
    /\ UNCHANGED <<account, verified, code, wrong, client, overlapped>>

TokenExpires(t) ==
    /\ t \in Issued /\ ~token[t].expired
    /\ token' = [token EXCEPT ![t].expired = TRUE]
    /\ UNCHANGED <<account, verified, code, wrong, client, overlapped>>
-----------------------------------------------------------------------------
Next ==
    \/ \E c \in Clients, a \in Accounts : RegisterCheck(c, a) \/ LoginRead(c, a)
    \/ \E c \in Clients : \/ RegisterInsert(c) \/ LoginIssue(c)
                          \/ RotateWrite(c) \/ Abort(c)
    \/ \E c \in Clients, t \in Tokens : RotateRead(c, t)
    \/ \E a \in Accounts : \/ VerifyRight(a) \/ VerifyWrong(a) \/ CodeExpires(a)
                           \/ Suspend(a) \/ Reinstate(a)
    \/ \E t \in Tokens : Revoke(t) \/ TokenExpires(t)

Spec == Init /\ [][Next]_vars
-----------------------------------------------------------------------------
\* Rows and requests have the shapes the code gives them.
TypeOK ==
    /\ account \in [Accounts -> {"none", "unverified", "active", "suspended"}]
    /\ verified \subseteq Accounts
    /\ code \in [Accounts -> [state : {"none", "sent", "consumed"}, expired : BOOLEAN,
                              attempts : 0..MaxAttempts]]
    /\ wrong \in [Accounts -> 0..MaxWrong]
    /\ token \in [Tokens -> [user : Accounts \cup {NoAccount}, revoked : BOOLEAN,
                             expired : BOOLEAN, rotated : 0..MaxTokens]]
    /\ client \in [Clients -> [pc : {"idle", "insert", "login", "rotate"},
                               account : Accounts \cup {NoAccount},
                               token : 0..MaxTokens]]
    /\ overlapped \subseteq Identifiers

\* An identifier, however it is spelled, is registered once, unless two of its
\* registrations overlapped.
OneAccountPerIdentifier ==
    \A a, b \in Accounts :
        /\ account[a] # "none" /\ account[b] # "none"
        /\ a[1] = b[1] /\ a[1] \notin overlapped
        => a = b

\* No access before verification: an account is active, and has tokens, only
\* after its code was consumed, whatever happened to it since.
AccessNeedsVerification ==
    \A a \in Accounts :
        /\ a \in verified <=> code[a].state = "consumed"
        /\ (account[a] = "active" \/ \E t \in Issued : token[t].user = a) => a \in verified

Successors(t) == {s \in Issued : token[s].rotated = t}

\* Two refreshes of one token never both answer with a new one.
RotatedOnce == \A t \in Tokens : Cardinality(Successors(t)) <= 1

\* The login a token continues, by its first token.
Root[t \in Tokens] == IF token[t].rotated = 0 THEN t ELSE Root[token[t].rotated]
ChainOf(r) == {t \in Issued : Root[t] = r}

LivingTokens(r) == {t \in ChainOf(r) : ~token[t].revoked}

\* A login is continued by one token at a time.
OneLivingToken == \A r \in Issued : Cardinality(LivingTokens(r)) <= 1

\* A login that has been ended stays ended, whatever refresh of it is still
\* in progress.
EndedLoginStaysEnded ==
    [][\A r \in Issued : LivingTokens(r) = {} => LivingTokens(r)' = {}]_vars

\* The test of test_registration: an account is not verified with the right
\* code after MaxAttempts wrong ones.
AttemptsExhausted == \A a \in verified : wrong[a] < MaxAttempts
=============================================================================
