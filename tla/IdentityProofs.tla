---------------------------- MODULE IdentityProofs ----------------------------
(***************************************************************************)
(* Proofs about Identity, for any number of identifiers, spellings,        *)
(* clients, tokens and codes.                                              *)
(***************************************************************************)
EXTENDS Identity, Sequences, FiniteSetTheorems, TLAPS

CodeRow == [state : {"none", "sent", "consumed"}, expired : BOOLEAN,
            attempts : 0..MaxAttempts]
TokenRow == [user : Accounts \cup {NoAccount}, revoked : BOOLEAN,
             expired : BOOLEAN, rotated : 0..MaxTokens]
ClientRow == [pc : {"idle", "insert", "login", "rotate"},
              account : Accounts \cup {NoAccount}, token : 0..MaxTokens]

\* Tokens are issued in order, so that the next one is new.
IssuedInOrder == \E n \in 0..MaxTokens : Issued = 1..n

\* A token that another one was rotated from is revoked, and rotated once.
TokensFit ==
    /\ \A t \in Tokens \ Issued : token[t].rotated = 0
    /\ \A t \in Tokens :
          token[t].rotated # 0 =>
              token[t].rotated \in Issued /\ token[token[t].rotated].revoked
    /\ \A s, t \in Tokens :
          token[s].rotated # 0 /\ token[s].rotated = token[t].rotated => s = t

\* The lock of a rotation: its token stays unrevoked, and is in no other's hand.
ClientsFit ==
    /\ \A c \in Clients :
          /\ client[c].pc = "insert" => client[c].account \in Accounts
          /\ client[c].pc = "login" => client[c].account \in verified
          /\ client[c].pc = "rotate" =>
                /\ client[c].token \in Issued
                /\ ~token[client[c].token].revoked
                /\ client[c].account = token[client[c].token].user
    /\ \A c, d \in Clients :
          (c # d /\ client[c].pc = "rotate" /\ client[d].pc = "rotate")
          => client[c].token # client[d].token

\* A registration that has passed its check finds its identifier taken only
\* where another one overlapped with it.
RegistersFit ==
    \A c \in Clients : client[c].pc = "insert" =>
        /\ \A d \in Clients :
              (d # c /\ client[d].pc = "insert" /\ client[d].account[1] = client[c].account[1])
              => client[c].account[1] \in overlapped
        /\ \A b \in Accounts :
              (account[b] # "none" /\ b[1] = client[c].account[1]) => b[1] \in overlapped

VerifiedExist == \A a \in verified : account[a] # "none"

IdInv ==
    /\ TypeOK
    /\ IssuedInOrder
    /\ TokensFit
    /\ ClientsFit
    /\ RegistersFit
    /\ VerifiedExist
    /\ OneAccountPerIdentifier
    /\ AccessNeedsVerification
-----------------------------------------------------------------------------
LEMMA NoAccountIsNone == NoAccount \notin Accounts
<1>1. \A a \in Accounts : Len(a) = 2
  BY DEF Accounts
<1>2. Len(NoAccount) = 0
  BY DEF NoAccount
<1>3. QED
  BY <1>1, <1>2

LEMMA IdInitInv == Init => IdInv
<1> SUFFICES ASSUME Init PROVE IdInv
  OBVIOUS
<1>1. MaxTokens \in Nat /\ MaxAttempts \in Nat /\ MaxWrong \in Nat
  BY IdentityAssumption DEF IdentityAssumption
<1>2. NoCode \in CodeRow /\ NoToken \in TokenRow /\ Idle \in ClientRow
  BY <1>1 DEF NoCode, NoToken, Idle, CodeRow, TokenRow, ClientRow
<1>3. TypeOK
  BY <1>1, <1>2 DEF Init, TypeOK, CodeRow, TokenRow, ClientRow
<1>4. Issued = {} /\ IssuedInOrder
  <2>1. Issued = {}
    BY DEF Init, Issued, NoToken
  <2>2. 0 \in 0..MaxTokens /\ {} = 1..0
    BY <1>1
  <2>3. QED
    BY <2>1, <2>2 DEF IssuedInOrder
<1>5. TokensFit
  BY DEF Init, TokensFit, NoToken
<1>6. ClientsFit /\ RegistersFit
  BY DEF Init, ClientsFit, RegistersFit, Idle
<1>7. VerifiedExist /\ OneAccountPerIdentifier /\ AccessNeedsVerification
  BY <1>4 DEF Init, VerifiedExist, OneAccountPerIdentifier, AccessNeedsVerification, NoCode
<1>8. QED
  BY <1>3, <1>4, <1>5, <1>6, <1>7 DEF IdInv
-----------------------------------------------------------------------------
IssuedAs(n, a, t) ==
    /\ token' = [s \in Tokens |->
          IF s = n THEN [NoToken EXCEPT !.user = a, !.rotated = t]
          ELSE IF s = t THEN [token[s] EXCEPT !.revoked = TRUE] ELSE token[s]]
    /\ Issued' = Issued \cup {n}
    /\ IssuedInOrder'

\* Issue writes the first row there is not yet, and revokes one at most.
LEMMA IssueStep ==
  ASSUME IdInv, NEW a \in Accounts, NEW t \in Issued \cup {0}, Issue(a, t)
  PROVE  \E n \in Tokens \ Issued : IssuedAs(n, a, t)
<1>1. PICK m \in 0..MaxTokens : Issued = 1..m
  BY DEF IdInv, IssuedInOrder
<1>2. m \in Nat /\ MaxTokens \in Nat /\ Cardinality(Issued) = m
  <2>1. m \in Nat /\ MaxTokens \in Nat
    BY <1>1, IdentityAssumption DEF IdentityAssumption
  <2>2. Cardinality(1..m) = IF 1 > m THEN 0 ELSE m - 1 + 1
    BY <2>1, FS_Interval
  <2>3. QED
    BY <1>1, <2>1, <2>2
<1> DEFINE n == m + 1
<1>3. /\ n \in Tokens /\ n \notin Issued /\ n \in 0..MaxTokens
      /\ token' = [s \in Tokens |->
            IF s = n THEN [NoToken EXCEPT !.user = a, !.rotated = t]
            ELSE IF s = t THEN [token[s] EXCEPT !.revoked = TRUE] ELSE token[s]]
  BY <1>1, <1>2 DEF Issue, Tokens
<1>4. token'[n].user = a /\ \A s \in Tokens : s # n => token'[s].user = token[s].user
  <2>1. token \in [Tokens -> TokenRow]
    BY DEF IdInv, TypeOK, TokenRow
  <2>2. QED
    BY <1>3, <2>1 DEF NoToken, TokenRow
<1>5. Issued' = Issued \cup {n}
  BY <1>3, <1>4, NoAccountIsNone DEF Issued
<1>6. Issued' = 1..n
  BY <1>1, <1>2, <1>5
<1>7. QED
  BY <1>3, <1>5, <1>6 DEF IssuedAs, IssuedInOrder

\* What a new row of a verified user does to the invariant's facts about tokens.
LEMMA IssueInv ==
  ASSUME IdInv, NEW a \in verified, NEW t \in Issued \cup {0},
         t # 0 => ~token[t].revoked, Issue(a, t)
  PROVE  /\ token' \in [Tokens -> TokenRow]
         /\ IssuedInOrder' /\ TokensFit'
         /\ \A s \in Issued : /\ s \in Issued'
                              /\ token'[s].user = token[s].user
                              /\ s # t => token'[s].revoked = token[s].revoked
         /\ \A s \in Issued' : s \in Issued \/ token'[s].user = a
<1>1. /\ token \in [Tokens -> TokenRow] /\ TokensFit /\ a \in Accounts
      /\ MaxTokens \in Nat /\ Issued \subseteq Tokens /\ 0 \notin Tokens
  BY IdentityAssumption DEF IdInv, TypeOK, TokenRow, Issued, Tokens, IdentityAssumption
<1>a. PICK n \in Tokens \ Issued : IssuedAs(n, a, t)
  BY <1>1, IssueStep
<1>2. /\ n \in Tokens \ Issued /\ Issued' = Issued \cup {n} /\ IssuedInOrder'
      /\ token' = [s \in Tokens |->
            IF s = n THEN [NoToken EXCEPT !.user = a, !.rotated = t]
            ELSE IF s = t THEN [token[s] EXCEPT !.revoked = TRUE] ELSE token[s]]
  BY <1>a DEF IssuedAs
<1>3. t \in 0..MaxTokens /\ t # n
  BY <1>1, <1>2 DEF Tokens
<1>4. /\ token'[n] \in TokenRow /\ token'[n].rotated = t /\ token'[n].user = a
      /\ \A s \in Tokens : s # n =>
            /\ token'[s] \in TokenRow
            /\ token'[s].user = token[s].user /\ token'[s].rotated = token[s].rotated
            /\ s # t => token'[s].revoked = token[s].revoked
            /\ s = t => token'[s].revoked
  BY <1>1, <1>2, <1>3 DEF NoToken, TokenRow
<1>5. token' \in [Tokens -> TokenRow]
  BY <1>2, <1>4
<1>6. TokensFit'
  <2>1. \A s \in Tokens : token[s].rotated = t /\ t # 0 => FALSE
    BY <1>1 DEF TokensFit
  <2>2. \A s \in Tokens \ Issued' : token'[s].rotated = 0
    BY <1>1, <1>2, <1>4 DEF TokensFit
  <2>3. ASSUME NEW s \in Tokens, token'[s].rotated # 0
        PROVE  token'[s].rotated \in Issued' /\ token'[token'[s].rotated].revoked
    <3>1. CASE s = n
      BY <1>1, <1>2, <1>4, <2>3, <3>1
    <3>2. CASE s # n
      <4>1. token[s].rotated \in Issued /\ token[token[s].rotated].revoked
        BY <1>4, <2>3, <3>2 DEF TokensFit, IdInv
      <4>2. token[s].rotated # n /\ token[s].rotated \in Tokens
        BY <1>1, <1>2, <4>1
      <4>3. QED
        BY <1>2, <1>4, <3>2, <4>1, <4>2
    <3>3. QED
      BY <3>1, <3>2
  <2>4. \A r, s \in Tokens :
           token'[r].rotated # 0 /\ token'[r].rotated = token'[s].rotated => r = s
    BY <1>1, <1>4, <2>1 DEF TokensFit
  <2>5. QED
    BY <2>2, <2>3, <2>4 DEF TokensFit
<1>7. QED
  BY <1>1, <1>2, <1>4, <1>5, <1>6

\* A step that only marks issued tokens, none that a rotation holds as revoked.
LEMMA MarkInv ==
  ASSUME IdInv, NEW t \in Issued, NEW row \in TokenRow,
         token' = [token EXCEPT ![t] = row],
         row.user = token[t].user, row.rotated = token[t].rotated,
         token[t].revoked => row.revoked,
         row.revoked /\ ~token[t].revoked => Free(t),
         UNCHANGED <<account, verified, code, wrong, client, overlapped>>
  PROVE  IdInv'
<1>1. /\ token \in [Tokens -> TokenRow] /\ TypeOK /\ TokensFit /\ ClientsFit
      /\ RegistersFit /\ VerifiedExist /\ OneAccountPerIdentifier
      /\ AccessNeedsVerification /\ IssuedInOrder /\ Issued \subseteq Tokens /\ t \in Tokens
  BY DEF IdInv, TypeOK, TokenRow, Issued
<1>2. /\ token' \in [Tokens -> TokenRow] /\ token'[t] = row
      /\ \A s \in Tokens : s # t => token'[s] = token[s]
  BY <1>1
<1>3. TypeOK'
  BY <1>1, <1>2 DEF TypeOK, TokenRow
<1>4. Issued' = Issued
  BY <1>1, <1>2 DEF Issued
<1>5. IssuedInOrder'
  BY <1>1, <1>4 DEF IssuedInOrder
<1>6. \A s \in Tokens : /\ token'[s].user = token[s].user /\ token'[s].rotated = token[s].rotated
                        /\ token[s].revoked => token'[s].revoked
  BY <1>1, <1>2
<1>7. TokensFit'
  BY <1>1, <1>4, <1>6 DEF TokensFit
<1>8. ClientsFit'
  <2>1. ASSUME NEW c \in Clients, client[c].pc = "rotate"
        PROVE  ~token'[client[c].token].revoked
               /\ client[c].account = token'[client[c].token].user
    <3>1. /\ client[c].token \in Issued /\ ~token[client[c].token].revoked
          /\ client[c].account = token[client[c].token].user
      BY <1>1, <2>1 DEF ClientsFit
    <3>2. client[c].token # t \/ ~row.revoked
      BY <2>1, <3>1 DEF Free
    <3>3. QED
      BY <1>1, <1>2, <1>6, <3>1, <3>2
  <2>2. QED
    BY <1>1, <1>4, <2>1 DEF ClientsFit
<1>9. AccessNeedsVerification'
  BY <1>1, <1>4, <1>6 DEF AccessNeedsVerification
<1>10. RegistersFit' /\ VerifiedExist' /\ OneAccountPerIdentifier'
  BY <1>1 DEF RegistersFit, VerifiedExist, OneAccountPerIdentifier
<1>11. QED
  BY <1>3, <1>5, <1>7, <1>8, <1>9, <1>10 DEF IdInv

LEMMA RevokeInv == ASSUME IdInv, NEW t \in Tokens, Revoke(t) PROVE IdInv'
<1> DEFINE row == [token[t] EXCEPT !.revoked = TRUE]
<1>1. t \in Issued /\ Free(t) /\ token[t] \in TokenRow
  BY DEF Revoke, IdInv, TypeOK, TokenRow
<1>2. /\ row \in TokenRow /\ row.user = token[t].user /\ row.rotated = token[t].rotated
      /\ row.revoked /\ token' = [token EXCEPT ![t] = row]
  BY <1>1 DEF Revoke, TokenRow
<1> HIDE DEF row
<1>3. QED
  BY <1>1, <1>2, MarkInv DEF Revoke

LEMMA TokenExpiresInv == ASSUME IdInv, NEW t \in Tokens, TokenExpires(t) PROVE IdInv'
<1> DEFINE row == [token[t] EXCEPT !.expired = TRUE]
<1>1. t \in Issued /\ token[t] \in TokenRow
  BY DEF TokenExpires, IdInv, TypeOK, TokenRow
<1>2. /\ row \in TokenRow /\ row.user = token[t].user /\ row.rotated = token[t].rotated
      /\ row.revoked = token[t].revoked /\ token' = [token EXCEPT ![t] = row]
  BY <1>1 DEF TokenExpires, TokenRow
<1> HIDE DEF row
<1>3. QED
  BY <1>1, <1>2, MarkInv DEF TokenExpires
-----------------------------------------------------------------------------
\* A step on the accounts there are keeps the invariant, if it verifies
\* nobody without a code and activates nobody who is not verified.
LEMMA AccountInv ==
  ASSUME IdInv, UNCHANGED <<token, client, overlapped>>,
         account' \in [Accounts -> {"none", "unverified", "active", "suspended"}],
         code' \in [Accounts -> CodeRow], wrong' \in [Accounts -> 0..MaxWrong],
         verified \subseteq verified', verified' \subseteq Accounts,
         \A a \in Accounts : account'[a] # "none" <=> account[a] # "none",
         \A a \in verified' : account'[a] # "none",
         \A a \in Accounts : a \in verified' <=> code'[a].state = "consumed",
         \A a \in Accounts : account'[a] = "active" => a \in verified'
  PROVE  IdInv'
<1>1. /\ TypeOK /\ IssuedInOrder /\ TokensFit /\ ClientsFit /\ RegistersFit
      /\ OneAccountPerIdentifier /\ AccessNeedsVerification
  BY DEF IdInv
<1>2. TypeOK'
  BY <1>1 DEF TypeOK, CodeRow
<1>3. Issued' = Issued
  BY DEF Issued
<1>4. IssuedInOrder' /\ TokensFit' /\ ClientsFit'
  BY <1>1, <1>3 DEF IssuedInOrder, TokensFit, ClientsFit
<1>5. RegistersFit' /\ OneAccountPerIdentifier' /\ VerifiedExist'
  BY <1>1 DEF RegistersFit, OneAccountPerIdentifier, VerifiedExist
<1>6. AccessNeedsVerification'
  BY <1>1, <1>3 DEF AccessNeedsVerification
<1>7. QED
  BY <1>2, <1>4, <1>5, <1>6 DEF IdInv

LEMMA AccountStep ==
  ASSUME IdInv, NEW a \in Accounts,
         \/ VerifyRight(a) \/ VerifyWrong(a) \/ CodeExpires(a) \/ Suspend(a) \/ Reinstate(a)
  PROVE  IdInv'
<1>1. /\ account \in [Accounts -> {"none", "unverified", "active", "suspended"}]
      /\ verified \subseteq Accounts /\ code \in [Accounts -> CodeRow]
      /\ wrong \in [Accounts -> 0..MaxWrong] /\ MaxWrong \in Nat
      /\ AccessNeedsVerification /\ VerifiedExist
  BY IdentityAssumption DEF IdInv, TypeOK, CodeRow, IdentityAssumption
<1>2. CASE VerifyRight(a)
  <2>1. /\ code' \in [Accounts -> CodeRow] /\ code'[a].state = "consumed"
        /\ \A b \in Accounts : b # a => code'[b] = code[b]
    BY <1>1, <1>2 DEF VerifyRight, CodeRow
  <2>2. /\ account' \in [Accounts -> {"none", "unverified", "active", "suspended"}]
        /\ account[a] # "none" /\ account'[a] = "active"
        /\ \A b \in Accounts : b # a => account'[b] = account[b]
    BY <1>1, <1>2 DEF VerifyRight, Verifiable
  <2>3. /\ verified' = verified \cup {a} /\ UNCHANGED <<wrong, token, client, overlapped>>
    BY <1>2 DEF VerifyRight
  <2>4. /\ \A b \in verified' : account'[b] # "none"
        /\ \A b \in Accounts : b \in verified' <=> code'[b].state = "consumed"
        /\ \A b \in Accounts : account'[b] = "active" => b \in verified'
    BY <1>1, <2>1, <2>2, <2>3 DEF VerifiedExist, AccessNeedsVerification
  <2>5. QED
    BY <1>1, <2>1, <2>2, <2>3, <2>4, AccountInv
<1>3. CASE VerifyWrong(a)
  <2>1. /\ wrong' \in [Accounts -> 0..MaxWrong]
        /\ UNCHANGED <<account, verified, code, token, client, overlapped>>
    BY <1>1, <1>3 DEF VerifyWrong
  <2>2. QED
    BY <1>1, <2>1, AccountInv DEF VerifiedExist, AccessNeedsVerification
<1>4. CASE CodeExpires(a)
  <2>1. /\ code' \in [Accounts -> CodeRow]
        /\ \A b \in Accounts : code'[b].state = code[b].state
        /\ UNCHANGED <<account, verified, wrong, token, client, overlapped>>
    BY <1>1, <1>4 DEF CodeExpires, CodeRow
  <2>2. QED
    BY <1>1, <2>1, AccountInv DEF VerifiedExist, AccessNeedsVerification
<1>5. CASE Suspend(a) \/ Reinstate(a)
  <2>1. /\ account' \in [Accounts -> {"none", "unverified", "active", "suspended"}]
        /\ \A b \in Accounts : /\ account'[b] # "none" <=> account[b] # "none"
                               /\ account'[b] = "active" => b \in verified
        /\ UNCHANGED <<verified, code, wrong, token, client, overlapped>>
    BY <1>1, <1>5 DEF Suspend, Reinstate, AccessNeedsVerification
  <2>2. QED
    BY <1>1, <2>1, AccountInv DEF VerifiedExist, AccessNeedsVerification
<1>6. QED
  BY <1>2, <1>3, <1>4, <1>5

\* A step that only moves one client.
LEMMA MoveInv ==
  ASSUME IdInv, NEW c \in Clients, NEW row \in ClientRow,
         client' = [client EXCEPT ![c] = row],
         UNCHANGED <<account, verified, code, wrong, token>>,
         overlapped \subseteq overlapped', overlapped' \subseteq Identifiers,
         row.pc = "insert" =>
            /\ row.account \in Accounts
            /\ \A b \in Accounts : account[b] # "none" => b[1] # row.account[1]
            /\ Registering(row.account[1]) => row.account[1] \in overlapped',
         row.pc = "login" => row.account \in verified,
         row.pc = "rotate" => /\ row.token \in Issued /\ ~token[row.token].revoked
                              /\ row.account = token[row.token].user /\ Free(row.token)
  PROVE  IdInv'
<1>1. /\ client \in [Clients -> ClientRow] /\ TypeOK /\ IssuedInOrder /\ TokensFit
      /\ ClientsFit /\ RegistersFit /\ VerifiedExist /\ OneAccountPerIdentifier
      /\ AccessNeedsVerification
  BY DEF IdInv, TypeOK, ClientRow
<1>2. /\ client' \in [Clients -> ClientRow] /\ client'[c] = row
      /\ \A d \in Clients : d # c => client'[d] = client[d]
  BY <1>1
<1>3. TypeOK'
  BY <1>1, <1>2 DEF TypeOK, ClientRow
<1>4. Issued' = Issued
  BY DEF Issued
<1>5. IssuedInOrder' /\ TokensFit' /\ VerifiedExist' /\ AccessNeedsVerification'
  BY <1>1, <1>4 DEF IssuedInOrder, TokensFit, VerifiedExist, AccessNeedsVerification
<1>6. OneAccountPerIdentifier'
  BY <1>1 DEF OneAccountPerIdentifier
<1>7. ClientsFit'
  <2>1. ASSUME NEW d \in Clients
        PROVE  /\ client'[d].pc = "insert" => client'[d].account \in Accounts
               /\ client'[d].pc = "login" => client'[d].account \in verified'
               /\ client'[d].pc = "rotate" =>
                     /\ client'[d].token \in Issued'
                     /\ ~token'[client'[d].token].revoked
                     /\ client'[d].account = token'[client'[d].token].user
    <3>1. CASE d = c
      BY <1>2, <1>4, <3>1
    <3>2. CASE d # c
      BY <1>1, <1>2, <1>4, <3>2 DEF ClientsFit
    <3>3. QED
      BY <3>1, <3>2
  <2>2. ASSUME NEW d \in Clients, NEW e \in Clients, d # e,
               client'[d].pc = "rotate", client'[e].pc = "rotate"
        PROVE  client'[d].token # client'[e].token
    BY <1>1, <1>2, <2>2 DEF ClientsFit, Free
  <2>3. QED
    BY <2>1, <2>2 DEF ClientsFit
<1>8. RegistersFit'
  <2> SUFFICES ASSUME NEW d \in Clients, client'[d].pc = "insert"
               PROVE  /\ \A e \in Clients :
                            (/\ e # d /\ client'[e].pc = "insert"
                             /\ client'[e].account[1] = client'[d].account[1])
                            => client'[d].account[1] \in overlapped'
                      /\ \A b \in Accounts :
                            (account[b] # "none" /\ b[1] = client'[d].account[1])
                            => b[1] \in overlapped'
    BY DEF RegistersFit
  <2>1. CASE d = c
    BY <1>2, <2>1 DEF Registering
  <2>2. CASE d # c
    <3>1. client'[d] = client[d]
      BY <1>2, <2>2
    <3>2. ASSUME NEW e \in Clients, e # d, client'[e].pc = "insert",
                 client'[e].account[1] = client'[d].account[1]
          PROVE  client'[d].account[1] \in overlapped'
      <4>1. CASE e = c
        BY <1>2, <3>1, <3>2, <4>1 DEF Registering
      <4>2. CASE e # c
        BY <1>1, <1>2, <3>1, <3>2, <4>2 DEF RegistersFit
      <4>3. QED
        BY <4>1, <4>2
    <3>3. QED
      BY <1>1, <3>1, <3>2 DEF RegistersFit
  <2>3. QED
    BY <2>1, <2>2
<1>9. QED
  BY <1>3, <1>5, <1>6, <1>7, <1>8 DEF IdInv

LEMMA ReadsInv ==
  ASSUME IdInv, NEW c \in Clients
  PROVE  /\ \A a \in Accounts : RegisterCheck(c, a) \/ LoginRead(c, a) => IdInv'
         /\ \A t \in Tokens : RotateRead(c, t) => IdInv'
         /\ Abort(c) => IdInv'
<1>1. /\ MaxTokens \in Nat /\ overlapped \subseteq Identifiers
      /\ \A a \in Accounts : a[1] \in Identifiers
      /\ token \in [Tokens -> TokenRow] /\ AccessNeedsVerification
  BY IdentityAssumption DEF IdInv, TypeOK, IdentityAssumption, TokenRow, Accounts
<1>2. ASSUME NEW a \in Accounts, RegisterCheck(c, a) PROVE IdInv'
  <2> DEFINE row == [pc |-> "insert", account |-> a, token |-> 0]
  <2>1. row \in ClientRow /\ row.pc = "insert" /\ row.account = a
    BY <1>1 DEF ClientRow
  <2>2. /\ client' = [client EXCEPT ![c] = row] /\ ~IdentifierExists(a)
        /\ UNCHANGED <<account, verified, code, wrong, token>>
        /\ overlapped' = IF Registering(a[1]) THEN overlapped \cup {a[1]} ELSE overlapped
    BY <1>2 DEF RegisterCheck, Begin
  <2>3. \A b \in Accounts : account[b] # "none" => b[1] # a[1]
    BY <2>2 DEF IdentifierExists
  <2>4. /\ overlapped \subseteq overlapped' /\ overlapped' \subseteq Identifiers
        /\ Registering(a[1]) => a[1] \in overlapped'
    BY <1>1, <2>2
  <2> HIDE DEF row
  <2>5. QED
    BY <2>1, <2>2, <2>3, <2>4, MoveInv
<1>3. ASSUME NEW a \in Accounts, LoginRead(c, a) PROVE IdInv'
  <2> DEFINE row == [pc |-> "login", account |-> a, token |-> 0]
  <2>1. row \in ClientRow /\ row.pc = "login" /\ row.account = a
    BY <1>1 DEF ClientRow
  <2>2. /\ client' = [client EXCEPT ![c] = row] /\ a \in verified
        /\ UNCHANGED <<account, verified, code, wrong, token, overlapped>>
    BY <1>1, <1>3 DEF LoginRead, Begin, AccessNeedsVerification
  <2> HIDE DEF row
  <2>3. QED
    BY <1>1, <2>1, <2>2, MoveInv
<1>4. ASSUME NEW t \in Tokens, RotateRead(c, t) PROVE IdInv'
  <2> DEFINE row == [pc |-> "rotate", account |-> token[t].user, token |-> t]
  <2>1. /\ row \in ClientRow /\ row.pc = "rotate"
        /\ row.account = token[t].user /\ row.token = t
    BY <1>1 DEF ClientRow, TokenRow, Tokens
  <2>2. /\ client' = [client EXCEPT ![c] = row]
        /\ t \in Issued /\ ~token[t].revoked /\ Free(t)
        /\ UNCHANGED <<account, verified, code, wrong, token, overlapped>>
    BY <1>4 DEF RotateRead, Begin, Usable
  <2> HIDE DEF row
  <2>3. QED
    BY <1>1, <2>1, <2>2, MoveInv
<1>5. CASE Abort(c)
  <2>1. Idle \in ClientRow /\ Idle.pc = "idle"
    BY <1>1 DEF Idle, ClientRow
  <2>2. /\ client' = [client EXCEPT ![c] = Idle]
        /\ UNCHANGED <<account, verified, code, wrong, token, overlapped>>
    BY <1>5 DEF Abort, End
  <2>3. QED
    BY <1>1, <2>1, <2>2, MoveInv
<1>6. QED
  BY <1>2, <1>3, <1>4, <1>5

\* The insert meets the accounts of its identifier only after an overlap.
LEMMA RegisterInsertInv == ASSUME IdInv, NEW c \in Clients, RegisterInsert(c) PROVE IdInv'
<1> DEFINE a == client[c].account
<1>1. /\ client \in [Clients -> ClientRow] /\ TypeOK /\ IssuedInOrder /\ TokensFit
      /\ ClientsFit /\ RegistersFit /\ VerifiedExist /\ OneAccountPerIdentifier
      /\ AccessNeedsVerification /\ client[c].pc = "insert" /\ a \in Accounts
      /\ UNCHANGED <<verified, wrong, token, overlapped>>
  BY DEF IdInv, TypeOK, ClientRow, ClientsFit, RegisterInsert
<1>2. /\ Idle \in ClientRow /\ Idle.pc = "idle" /\ client' = [client EXCEPT ![c] = Idle]
  BY IdentityAssumption DEF RegisterInsert, End, Idle, ClientRow, IdentityAssumption
<1>3. /\ client' \in [Clients -> ClientRow] /\ client'[c].pc = "idle"
      /\ \A d \in Clients : d # c => client'[d] = client[d]
  BY <1>1, <1>2
<1>4. CASE account[a] # "none"
  <2>1. UNCHANGED <<account, code>>
    BY <1>4 DEF RegisterInsert
  <2>2. QED
    BY <1>1, <1>2, <2>1, MoveInv DEF TypeOK
<1>5. CASE account[a] = "none"
  <2>1. /\ account' = [account EXCEPT ![a] = "unverified"]
        /\ code' = [code EXCEPT ![a].state = "sent"]
    BY <1>5 DEF RegisterInsert
  <2>2. /\ account' \in [Accounts -> {"none", "unverified", "active", "suspended"}]
        /\ account'[a] = "unverified"
        /\ \A b \in Accounts : b # a => account'[b] = account[b]
    BY <1>1, <2>1 DEF TypeOK
  <2>3. /\ code' \in [Accounts -> CodeRow] /\ code'[a].state = "sent"
        /\ \A b \in Accounts : b # a => code'[b] = code[b]
    <3>1. code \in [Accounts -> CodeRow]
      BY <1>1 DEF TypeOK, CodeRow
    <3>2. QED
      BY <1>1, <2>1, <3>1 DEF CodeRow
  <2>4. TypeOK'
    BY <1>1, <1>3, <2>2, <2>3 DEF TypeOK, ClientRow, CodeRow
  <2>5. Issued' = Issued
    BY <1>1 DEF Issued
  <2>6. IssuedInOrder' /\ TokensFit' /\ VerifiedExist'
    <3>1. IssuedInOrder' /\ TokensFit'
      BY <1>1, <2>5 DEF IssuedInOrder, TokensFit
    <3>2. VerifiedExist'
      BY <1>1, <2>2 DEF VerifiedExist, TypeOK
    <3>3. QED
      BY <3>1, <3>2
  <2>7. AccessNeedsVerification'
    BY <1>1, <1>5, <2>2, <2>3, <2>5 DEF AccessNeedsVerification, VerifiedExist
  <2>8. ClientsFit'
    BY <1>1, <1>3, <2>5 DEF ClientsFit
  <2>9. OneAccountPerIdentifier'
    BY <1>1, <2>2 DEF OneAccountPerIdentifier, RegistersFit
  <2>10. RegistersFit'
    BY <1>1, <1>3, <2>2 DEF RegistersFit
  <2>11. QED
    BY <2>4, <2>6, <2>7, <2>8, <2>9, <2>10 DEF IdInv
<1>6. QED
  BY <1>4, <1>5

\* A login or a rotation commits its token.
LEMMA IssuesInv ==
  ASSUME IdInv, NEW c \in Clients, NEW a \in verified, NEW t \in Issued \cup {0},
         Issue(a, t), End(c), UNCHANGED <<account, verified, code, wrong, overlapped>>,
         t # 0 => client[c].pc = "rotate" /\ client[c].token = t
  PROVE  IdInv'
<1>1. /\ client \in [Clients -> ClientRow] /\ TypeOK
      /\ ClientsFit /\ RegistersFit /\ VerifiedExist /\ OneAccountPerIdentifier
      /\ AccessNeedsVerification /\ Issued \subseteq Tokens /\ 0 \notin Tokens
  BY DEF IdInv, TypeOK, ClientRow, Issued, Tokens
<1>2. t # 0 => ~token[t].revoked
  BY <1>1 DEF ClientsFit
<1>3. /\ token' \in [Tokens -> TokenRow]
      /\ IssuedInOrder' /\ TokensFit'
      /\ \A s \in Issued : /\ s \in Issued'
                           /\ token'[s].user = token[s].user
                           /\ s # t => token'[s].revoked = token[s].revoked
      /\ \A s \in Issued' : s \in Issued \/ token'[s].user = a
  BY <1>2, IssueInv
<1>4. /\ Idle \in ClientRow /\ Idle.pc = "idle" /\ client' = [client EXCEPT ![c] = Idle]
  BY IdentityAssumption DEF End, Idle, ClientRow, IdentityAssumption
<1>5. /\ client' \in [Clients -> ClientRow] /\ client'[c].pc = "idle"
      /\ \A d \in Clients : d # c => client'[d] = client[d]
  BY <1>1, <1>4
<1>6. TypeOK'
  BY <1>1, <1>3, <1>5 DEF TypeOK, TokenRow, ClientRow
<1>7. ClientsFit'
  <2>1. ASSUME NEW d \in Clients, d # c, client[d].pc = "rotate"
        PROVE  /\ client[d].token \in Issued'
               /\ ~token'[client[d].token].revoked
               /\ client[d].account = token'[client[d].token].user
    <3>1. /\ client[d].token \in Issued /\ ~token[client[d].token].revoked
          /\ client[d].account = token[client[d].token].user /\ client[d].token # t
      BY <1>1, <2>1 DEF ClientsFit
    <3>2. QED
      BY <1>3, <3>1
  <2>2. QED
    BY <1>1, <1>5, <2>1 DEF ClientsFit
<1>8. AccessNeedsVerification'
  <2>1. ASSUME NEW s \in Issued' PROVE token'[s].user \in verified
    <3>1. ASSUME NEW r \in Issued PROVE token[r].user \in Accounts
      BY <1>1, <3>1 DEF Issued, TypeOK
    <3>2. \A r \in Issued : token[r].user \in verified
      BY <1>1, <3>1 DEF AccessNeedsVerification
    <3>3. QED
      BY <1>3, <3>2
  <2>2. QED
    BY <1>1, <2>1 DEF AccessNeedsVerification
<1>9. RegistersFit' /\ VerifiedExist' /\ OneAccountPerIdentifier'
  BY <1>1, <1>5 DEF RegistersFit, VerifiedExist, OneAccountPerIdentifier
<1>10. QED
  BY <1>3, <1>6, <1>7, <1>8, <1>9 DEF IdInv

LEMMA IdNextInv == IdInv /\ [Next]_vars => IdInv'
<1> SUFFICES ASSUME IdInv, [Next]_vars PROVE IdInv'
  OBVIOUS
<1>1. /\ ClientsFit /\ AccessNeedsVerification /\ token \in [Tokens -> TokenRow]
      /\ Issued \subseteq Tokens /\ verified \subseteq Accounts
  BY DEF IdInv, TypeOK, TokenRow, Issued
<1>2. \A t \in Issued : token[t].user \in verified
  <2>1. ASSUME NEW t \in Issued PROVE token[t].user \in Accounts
    BY <1>1, <2>1 DEF Issued, TokenRow
  <2>2. QED
    BY <1>1, <2>1 DEF AccessNeedsVerification
<1>3. ASSUME NEW c \in Clients, NEW a \in Accounts, RegisterCheck(c, a) \/ LoginRead(c, a)
      PROVE  IdInv'
  BY <1>3, ReadsInv
<1>4. ASSUME NEW c \in Clients, RegisterInsert(c) PROVE IdInv'
  BY <1>4, RegisterInsertInv
<1>5. ASSUME NEW c \in Clients, LoginIssue(c) PROVE IdInv'
  BY <1>1, <1>5, IssuesInv DEF LoginIssue, ClientsFit
<1>6. ASSUME NEW c \in Clients, RotateWrite(c) PROVE IdInv'
  <2>1. /\ client[c].pc = "rotate" /\ client[c].token \in Issued
        /\ client[c].account \in verified
    BY <1>1, <1>2, <1>6 DEF RotateWrite, ClientsFit
  <2>2. QED
    BY <1>6, <2>1, IssuesInv DEF RotateWrite
<1>7. ASSUME NEW c \in Clients, NEW t \in Tokens, RotateRead(c, t) PROVE IdInv'
  BY <1>7, ReadsInv
<1>8. ASSUME NEW c \in Clients, Abort(c) PROVE IdInv'
  BY <1>8, ReadsInv
<1>9. ASSUME NEW a \in Accounts,
             \/ VerifyRight(a) \/ VerifyWrong(a) \/ CodeExpires(a)
             \/ Suspend(a) \/ Reinstate(a)
      PROVE  IdInv'
  BY <1>9, AccountStep
<1>10. ASSUME NEW t \in Tokens, Revoke(t) \/ TokenExpires(t) PROVE IdInv'
  BY <1>10, RevokeInv, TokenExpiresInv
<1>11. CASE UNCHANGED vars
  <2>1. Issued' = Issued
    BY <1>11 DEF vars, Issued
  <2>2. /\ TypeOK' /\ IssuedInOrder' /\ TokensFit' /\ ClientsFit'
    BY <1>11, <2>1 DEF IdInv, vars, TypeOK, IssuedInOrder, TokensFit, ClientsFit
  <2>3. RegistersFit' /\ VerifiedExist' /\ OneAccountPerIdentifier' /\ AccessNeedsVerification'
    BY <1>11, <2>1 DEF IdInv, vars, RegistersFit, VerifiedExist, OneAccountPerIdentifier,
                       AccessNeedsVerification
  <2>4. QED
    BY <2>2, <2>3 DEF IdInv
<1>12. QED
  BY <1>3, <1>4, <1>5, <1>6, <1>7, <1>8, <1>9, <1>10, <1>11 DEF Next

LEMMA AlwaysIdInv == Spec => []IdInv
<1>1. QED
  BY IdInitInv, IdNextInv, PTL DEF Spec
-----------------------------------------------------------------------------
\* Every reachable state is well typed.
THEOREM IdentityTypes == Spec => []TypeOK
<1>1. IdInv => TypeOK
  BY DEF IdInv
<1>2. QED
  BY <1>1, AlwaysIdInv, PTL

\* An identifier is registered once, in any spelling, unless two of its
\* registrations overlapped.
THEOREM OneAccount == Spec => []OneAccountPerIdentifier
<1>1. IdInv => OneAccountPerIdentifier
  BY DEF IdInv
<1>2. QED
  BY <1>1, AlwaysIdInv, PTL

\* An account is active, or has tokens, only after its code was consumed.
THEOREM VerifiedAccess == Spec => []AccessNeedsVerification
<1>1. IdInv => AccessNeedsVerification
  BY DEF IdInv
<1>2. QED
  BY <1>1, AlwaysIdInv, PTL

\* No token is ever rotated into two, whatever refreshes of it race.
THEOREM TokenRotatedOnce == Spec => []RotatedOnce
<1>1. IdInv => RotatedOnce
  <2> SUFFICES ASSUME IdInv, NEW t \in Tokens PROVE Cardinality(Successors(t)) <= 1
    BY DEF RotatedOnce
  <2>1. /\ Issued \subseteq Tokens /\ t # 0
        /\ \A r, s \in Tokens :
              token[r].rotated # 0 /\ token[r].rotated = token[s].rotated => r = s
    BY DEF IdInv, TokensFit, Issued, Tokens
  <2>2. \A r, s \in Successors(t) : r = s
    BY <2>1 DEF Successors
  <2>3. CASE Successors(t) = {}
    BY <2>3, FS_EmptySet
  <2>4. CASE Successors(t) # {}
    <3>1. PICK s \in Successors(t) : TRUE
      BY <2>4
    <3>2. Successors(t) = {s}
      BY <2>2, <3>1
    <3>3. Cardinality({s}) = 1
      BY FS_Singleton
    <3>4. QED
      BY <3>2, <3>3
  <2>5. QED
    BY <2>3, <2>4
<1>2. QED
  BY <1>1, AlwaysIdInv, PTL
-----------------------------------------------------------------------------
(* The logins.  Root is recursive: that it is the function its equation    *)
(* describes rests on a token being newer than the one it continues.       *)

\* A set of numbers has a least one.
LEMMA LeastNumber ==
  ASSUME NEW S \in SUBSET Nat, S # {}
  PROVE  \E k \in S : \A j \in S : k <= j
<1> DEFINE T == {0..k : k \in S}
<1>1. T \subseteq FiniteSubsetsOf(Nat) /\ T # {}
  <2>1. \A k \in Nat : IsFiniteSet(0..k)
    BY FS_Interval
  <2>2. \A k \in Nat : 0..k \in FiniteSubsetsOf(Nat)
    BY <2>1 DEF FiniteSubsetsOf
  <2>3. \A k \in S : 0..k \in FiniteSubsetsOf(Nat)
    BY <2>2
  <2>4. PICK k \in S : TRUE
    OBVIOUS
  <2>5. 0..k \in T
    OBVIOUS
  <2>6. QED
    BY <2>3, <2>5
<1>2. IsWellFoundedOn(StrictSubsetOrdering(Nat), FiniteSubsetsOf(Nat))
  BY FS_StrictSubsetOrderingWellFounded
<1>3. PICK x \in T : \A y \in T : ~(<<y, x>> \in StrictSubsetOrdering(Nat))
  <2> HIDE DEF T
  <2>1. QED
    BY <1>1, <1>2, WFMin
<1>4. PICK k \in S : x = 0..k
  OBVIOUS
<1>5. ASSUME NEW j \in S, j < k
      PROVE  FALSE
  <2>1. 0..j \in T /\ 0..j \subseteq 0..k /\ 0..j # 0..k
    <3>1. k \in 0..k /\ k \notin 0..j
      BY <1>5
    <3>2. QED
      BY <1>5, <3>1
  <2>2. <<0..j, 0..k>> \in StrictSubsetOrdering(Nat)
    BY <2>1 DEF StrictSubsetOrdering
  <2>3. QED
    BY <1>3, <1>4, <2>1, <2>2
<1>6. QED
  BY <1>5

\* Following earlier numbers ends: the equation of Root has a solution.
LEMMA RootExists ==
  ASSUME NEW m \in Nat, NEW p \in [1..m -> Nat], \A i \in 1..m : p[i] < i
  PROVE  \E f : f = [i \in 1..m |-> IF p[i] = 0 THEN i ELSE f[p[i]]]
<1> DEFINE Solves(f, k) ==
              /\ f \in [1..k -> Nat]
              /\ \A i \in 1..k : f[i] = IF p[i] = 0 THEN i ELSE f[p[i]]
           Bad == {k \in 0..m : ~ \E f : Solves(f, k)}
<1>1. Bad = {}
  <2> SUFFICES ASSUME Bad # {} PROVE FALSE
    OBVIOUS
  <2>1. Bad \in SUBSET Nat
    OBVIOUS
  <2>2. PICK k \in Bad : \A j \in Bad : k <= j
    <3> HIDE DEF Bad
    <3>1. QED
      BY <2>1, LeastNumber
  <2>3. CASE k = 0
    <3>1. Solves([i \in {} |-> 0], 0)
      OBVIOUS
    <3>2. QED
      BY <2>2, <2>3, <3>1
  <2>4. CASE k # 0
    <3>a. k \in 0..m
      BY <2>2
    <3>b. k \in Nat /\ k - 1 \in 0..m /\ k \in 1..m /\ ~(k <= k - 1)
      BY <2>4, <3>a
    <3>c. k - 1 \notin Bad
      <4> HIDE DEF Bad
      <4>1. QED
        BY <2>2, <3>b
    <3>1. k \in 1..m /\ k - 1 \in 0..m /\ k - 1 \notin Bad
      BY <3>b, <3>c
    <3> HIDE DEF Solves
    <3>2. PICK f : Solves(f, k - 1)
      BY <3>1
    <3> USE DEF Solves
    <3> DEFINE g == [i \in 1..k |-> IF i < k THEN f[i]
                                    ELSE IF p[k] = 0 THEN k ELSE f[p[k]]]
    <3>3. p[k] = 0 \/ p[k] \in 1..(k - 1)
      BY <3>1
    <3>4. g \in [1..k -> Nat]
      BY <3>1, <3>2, <3>3
    <3>5. ASSUME NEW i \in 1..k
          PROVE  g[i] = IF p[i] = 0 THEN i ELSE g[p[i]]
      <4>1. i \in 1..m /\ p[i] \in Nat /\ p[i] < i
        BY <3>1, <3>5
      <4>2. p[i] # 0 => p[i] \in 1..k /\ p[i] < k
        BY <3>1, <3>5, <4>1
      <4>3. CASE i = k
        BY <3>1, <4>1, <4>2, <4>3
      <4>4. CASE i # k
        <5>1. i \in 1..(k - 1) /\ i < k
          BY <3>1, <3>5, <4>4
        <5>2. f[i] = IF p[i] = 0 THEN i ELSE f[p[i]]
          BY <3>2, <5>1
        <5>3. QED
          BY <4>2, <5>1, <5>2
      <4>5. QED
        BY <4>3, <4>4
    <3> HIDE DEF g
    <3>6. Solves(g, k)
      BY <3>4, <3>5
    <3>7. QED
      BY <2>2, <3>6
  <2>5. QED
    BY <2>3, <2>4
<1>a. m \in 0..m
  OBVIOUS
<1> HIDE DEF Solves
<1>2. PICK f : Solves(f, m)
  BY <1>1, <1>a
<1> USE DEF Solves
<1>3. f = [i \in 1..m |-> IF p[i] = 0 THEN i ELSE f[p[i]]]
  BY <1>2
<1>4. QED
  BY <1>3

\* A token is newer than the one it was rotated from.
OlderFirst == \A t \in Tokens : token[t].rotated < t

\* Root is what its definition says: a token's own number, or the root of the
\* token it was rotated from, and no newer than the token.
RootFits ==
    \A t \in Tokens :
        /\ Root[t] = IF token[t].rotated = 0 THEN t ELSE Root[token[t].rotated]
        /\ Root[t] \in Tokens /\ Root[t] <= t

LEMMA RootDefined == IdInv /\ OlderFirst => RootFits
<1> SUFFICES ASSUME IdInv, OlderFirst PROVE RootFits
  OBVIOUS
<1> DEFINE p == [t \in Tokens |-> token[t].rotated]
<1>1. MaxTokens \in Nat /\ Tokens = 1..MaxTokens
  BY IdentityAssumption DEF IdentityAssumption, Tokens
<1>2. p \in [1..MaxTokens -> Nat] /\ \A t \in 1..MaxTokens : p[t] < t
  BY <1>1 DEF IdInv, TypeOK, OlderFirst
<1>3. PICK f : f = [t \in 1..MaxTokens |-> IF p[t] = 0 THEN t ELSE f[p[t]]]
  <2> HIDE DEF p
  <2>1. QED
    BY <1>1, <1>2, RootExists
<1>4. f = [t \in Tokens |-> IF token[t].rotated = 0 THEN t ELSE f[token[t].rotated]]
  BY <1>1, <1>3
<1>5. Root = [t \in Tokens |-> IF token[t].rotated = 0 THEN t ELSE Root[token[t].rotated]]
  BY <1>4, Zenon DEF Root
<1>6. \A t \in Tokens : Root[t] = IF token[t].rotated = 0 THEN t ELSE Root[token[t].rotated]
  BY <1>5
<1> DEFINE Bad == {t \in Tokens : ~(Root[t] \in Tokens /\ Root[t] <= t)}
<1>7. Bad = {}
  <2> SUFFICES ASSUME Bad # {} PROVE FALSE
    OBVIOUS
  <2>1. Bad \in SUBSET Nat
    BY <1>1
  <2>2. PICK t \in Bad : \A s \in Bad : t <= s
    <3> HIDE DEF Bad
    <3>1. QED
      BY <2>1, LeastNumber
  <2>3. /\ t \in Tokens /\ t \in Nat /\ token[t].rotated \in Nat /\ token[t].rotated < t
        /\ Root[t] = IF token[t].rotated = 0 THEN t ELSE Root[token[t].rotated]
    BY <1>1, <1>6 DEF OlderFirst, IdInv, TypeOK
  <2>4. token[t].rotated # 0
    BY <2>2, <2>3
  <2>5. token[t].rotated \in Tokens /\ token[t].rotated \notin Bad
    BY <1>1, <2>2, <2>3, <2>4
  <2>6. QED
    BY <1>1, <2>2, <2>3, <2>4, <2>5
<1>8. QED
  BY <1>6, <1>7 DEF RootFits

-----------------------------------------------------------------------------
\* What a step does to the tokens: it marks rows there are, or ...
Marks ==
    /\ Issued' = Issued
    /\ \A s \in Tokens : /\ token'[s].rotated = token[s].rotated
                         /\ token[s].revoked => token'[s].revoked

\* ... it adds the row n, the newest, and revokes the one it was rotated from.
Extends(n, t) ==
    /\ Issued' = Issued \cup {n}
    /\ \A s \in Issued : s < n
    /\ token'[n].rotated = t
    /\ t # 0 => ~token[t].revoked /\ token'[t].revoked
    /\ \A s \in Tokens \ {n} : /\ token'[s].rotated = token[s].rotated
                               /\ token[s].revoked => token'[s].revoked

TokenEffect == Marks \/ \E n \in Tokens \ Issued, t \in Issued \cup {0} : Extends(n, t)

LEMMA IssueExtends ==
  ASSUME IdInv, NEW a \in Accounts, NEW t \in Issued \cup {0}, Issue(a, t),
         t # 0 => ~token[t].revoked
  PROVE  \E n \in Tokens \ Issued : Extends(n, t)
<1>1. PICK n \in Tokens \ Issued : IssuedAs(n, a, t)
  BY IssueStep
<1>2. PICK m \in 0..MaxTokens : Issued = 1..m
  BY DEF IdInv, IssuedInOrder
<1>3. token \in [Tokens -> TokenRow] /\ Issued \subseteq Tokens /\ 0 \notin Tokens
  BY DEF Tokens, IdInv, TypeOK, TokenRow, Issued
<1>4. \A s \in Issued : s < n
  <2>1. n \in 1..MaxTokens /\ n \notin 1..m /\ MaxTokens \in Nat /\ m \in Nat
    BY <1>1, <1>2, IdentityAssumption DEF IdentityAssumption, Tokens
  <2>2. QED
    BY <1>2, <2>1
<1>5. t # n /\ (t # 0 => t \in Tokens)
  BY <1>1, <1>3
<1>6. /\ token'[n].rotated = t
      /\ \A s \in Tokens \ {n} : /\ token'[s].rotated = token[s].rotated
                                 /\ token[s].revoked => token'[s].revoked
                                 /\ s = t => token'[s].revoked
  BY <1>1, <1>3 DEF IssuedAs, NoToken, TokenRow
<1>7. Issued' = Issued \cup {n}
  BY <1>1 DEF IssuedAs
<1>8. QED
  BY <1>1, <1>4, <1>5, <1>6, <1>7 DEF Extends

LEMMA TokenStep == IdInv /\ [Next]_vars => TokenEffect
<1> SUFFICES ASSUME IdInv, [Next]_vars PROVE TokenEffect
  OBVIOUS
<1>1. /\ ClientsFit /\ AccessNeedsVerification /\ token \in [Tokens -> TokenRow]
      /\ Issued \subseteq Tokens /\ verified \subseteq Accounts
  BY DEF IdInv, TypeOK, TokenRow, Issued
<1>2. ASSUME UNCHANGED token PROVE TokenEffect
  BY <1>2 DEF TokenEffect, Marks, Issued
<1>3. ASSUME NEW c \in Clients, NEW a \in Accounts, RegisterCheck(c, a) \/ LoginRead(c, a)
      PROVE  TokenEffect
  BY <1>2, <1>3 DEF RegisterCheck, LoginRead
<1>4. ASSUME NEW c \in Clients, RegisterInsert(c) \/ Abort(c) PROVE TokenEffect
  BY <1>2, <1>4 DEF RegisterInsert, Abort
<1>5. ASSUME NEW c \in Clients, LoginIssue(c) PROVE TokenEffect
  <2>1. client[c].account \in Accounts /\ Issue(client[c].account, 0)
    BY <1>1, <1>5 DEF LoginIssue, ClientsFit
  <2>2. \E n \in Tokens \ Issued : Extends(n, 0)
    BY <2>1, IssueExtends
  <2>3. QED
    BY <2>2 DEF TokenEffect
<1>6. ASSUME NEW c \in Clients, RotateWrite(c) PROVE TokenEffect
  <2>1. /\ client[c].token \in Issued /\ ~token[client[c].token].revoked
        /\ client[c].account = token[client[c].token].user
        /\ Issue(client[c].account, client[c].token)
    BY <1>1, <1>6 DEF RotateWrite, ClientsFit
  <2>2. client[c].account \in Accounts
    BY <1>1, <2>1 DEF Issued, TokenRow
  <2>3. \E n \in Tokens \ Issued : Extends(n, client[c].token)
    BY <2>1, <2>2, IssueExtends
  <2>4. QED
    BY <2>1, <2>3 DEF TokenEffect
<1>7. ASSUME NEW c \in Clients, NEW t \in Tokens, RotateRead(c, t) PROVE TokenEffect
  BY <1>2, <1>7 DEF RotateRead
<1>8. ASSUME NEW a \in Accounts,
             \/ VerifyRight(a) \/ VerifyWrong(a) \/ CodeExpires(a)
             \/ Suspend(a) \/ Reinstate(a)
      PROVE  TokenEffect
  BY <1>2, <1>8 DEF VerifyRight, VerifyWrong, CodeExpires, Suspend, Reinstate
<1>9. ASSUME NEW t \in Tokens, Revoke(t) \/ TokenExpires(t) PROVE TokenEffect
  <2>1. \A s \in Tokens : /\ token'[s].user = token[s].user
                          /\ token'[s].rotated = token[s].rotated
                          /\ token[s].revoked => token'[s].revoked
    BY <1>1, <1>9 DEF Revoke, TokenExpires, TokenRow
  <2>2. Issued' = Issued
    BY <2>1 DEF Issued
  <2>3. QED
    BY <2>1, <2>2 DEF TokenEffect, Marks
<1>10. CASE UNCHANGED vars
  BY <1>2, <1>10 DEF vars
<1>11. QED
  BY <1>3, <1>4, <1>5, <1>6, <1>7, <1>8, <1>9, <1>10 DEF Next

LEMMA OlderInit == Init => OlderFirst
BY IdentityAssumption DEF Init, OlderFirst, NoToken, Tokens, IdentityAssumption

LEMMA OlderStep == IdInv /\ OlderFirst /\ [Next]_vars => OlderFirst'
<1> SUFFICES ASSUME IdInv, OlderFirst, [Next]_vars, NEW s \in Tokens
             PROVE  token'[s].rotated < s
  BY DEF OlderFirst
<1>1. token[s].rotated < s /\ TokenEffect
  BY TokenStep DEF OlderFirst
<1>2. CASE Marks
  BY <1>1, <1>2 DEF Marks
<1>3. ASSUME NEW n \in Tokens \ Issued, NEW t \in Issued \cup {0}, Extends(n, t)
      PROVE  token'[s].rotated < s
  <2>1. n \in Nat /\ 0 < n /\ t < n
    BY <1>3, IdentityAssumption DEF Extends, Tokens, IdentityAssumption
  <2>2. QED
    BY <1>1, <1>3, <2>1 DEF Extends
<1>4. QED
  BY <1>1, <1>2, <1>3 DEF TokenEffect

LEMMA AlwaysRoot == Spec => [](IdInv /\ OlderFirst /\ RootFits)
<1>1. Spec => [](IdInv /\ OlderFirst)
  BY AlwaysIdInv, OlderInit, OlderStep, PTL DEF Spec
<1>2. QED
  BY <1>1, RootDefined, PTL

\* The first token of a login that has been issued is an issued one.
LEMMA RootIssued == ASSUME IdInv, RootFits PROVE \A s \in Issued : Root[s] \in Issued
<1>1. Issued \subseteq Tokens
  BY DEF Issued
<1>2. PICK m \in 0..MaxTokens : Issued = 1..m
  BY DEF IdInv, IssuedInOrder
<1>3. ASSUME NEW s \in Issued PROVE Root[s] \in Issued
  <2>1. s \in Tokens /\ Root[s] \in Tokens /\ Root[s] <= s
    BY <1>1 DEF RootFits
  <2>2. MaxTokens \in Nat
    BY IdentityAssumption DEF IdentityAssumption
  <2>3. QED
    BY <1>2, <2>1, <2>2 DEF Tokens
<1>4. QED
  BY <1>3

\* A token stays in the login it continues.
LEMMA RootKept ==
  ASSUME IdInv, OlderFirst, RootFits, RootFits', TokenEffect
  PROVE  \A s \in Issued : Root'[s] = Root[s]
<1> DEFINE Bad == {s \in Issued : Root'[s] # Root[s]}
<1>1. /\ Issued \subseteq Tokens /\ Issued \in SUBSET Nat
      /\ \A s \in Tokens : s \in Nat /\ token[s].rotated \in Nat /\ token[s].rotated < s
      /\ \A s \in Tokens : token[s].rotated # 0 => token[s].rotated \in Issued
  BY IdentityAssumption DEF IdInv, TypeOK, TokensFit, Issued, Tokens, IdentityAssumption,
                            OlderFirst
<1>2. \A s \in Issued : token'[s].rotated = token[s].rotated
  BY <1>1 DEF TokenEffect, Marks, Extends
<1>3. \A s \in Issued :
         /\ Root[s] = IF token[s].rotated = 0 THEN s ELSE Root[token[s].rotated]
         /\ Root'[s] = IF token[s].rotated = 0 THEN s ELSE Root'[token[s].rotated]
  BY <1>1, <1>2 DEF RootFits
<1>4. Bad = {}
  <2> SUFFICES ASSUME Bad # {} PROVE FALSE
    OBVIOUS
  <2>1. Bad \in SUBSET Nat
    BY <1>1
  <2>2. PICK s \in Bad : \A r \in Bad : s <= r
    <3> HIDE DEF Bad
    <3>1. QED
      BY <2>1, LeastNumber
  <2>3. /\ s \in Issued /\ token[s].rotated # 0 /\ token[s].rotated \in Bad
    BY <1>1, <1>3, <2>2
  <2>4. QED
    BY <1>1, <2>2, <2>3
<1>5. QED
  BY <1>4

\* A login is never continued by two tokens that are not revoked.
OneUnrevoked ==
    \A s, t \in Issued :
        (Root[s] = Root[t] /\ ~token[s].revoked /\ ~token[t].revoked) => s = t

LEMMA OneUnrevokedStep ==
  ASSUME IdInv, OlderFirst, RootFits, RootFits', OneUnrevoked, TokenEffect
  PROVE  OneUnrevoked'
<1>1. /\ \A s \in Issued : Root'[s] = Root[s] /\ Root[s] \in Issued
      /\ Issued \subseteq Tokens
  BY RootKept, RootIssued DEF Issued
<1>2. CASE Marks
  BY <1>1, <1>2 DEF Marks, OneUnrevoked
<1>3. ASSUME NEW n \in Tokens \ Issued, NEW t \in Issued \cup {0}, Extends(n, t)
      PROVE  OneUnrevoked'
  <2>1. /\ Issued' = Issued \cup {n} /\ 0 \notin Tokens
        /\ \A s \in Issued : token[s].revoked => token'[s].revoked
    BY <1>1, <1>3 DEF Extends, Tokens
  <2>2. ASSUME NEW s \in Issued, Root'[s] = Root'[n] PROVE token'[s].revoked
    <3>1. Root'[n] = IF t = 0 THEN n ELSE Root[t]
      BY <1>1, <1>3 DEF RootFits, Extends
    <3>2. t # 0 /\ Root[s] = Root[t]
      BY <1>1, <2>2, <3>1
    <3>3. t \in Issued /\ ~token[t].revoked /\ token'[t].revoked
      BY <1>3, <3>2 DEF Extends
    <3>4. QED
      BY <2>1, <3>2, <3>3 DEF OneUnrevoked
  <2>3. QED
    BY <1>1, <2>1, <2>2 DEF OneUnrevoked
<1>4. QED
  BY <1>2, <1>3 DEF TokenEffect

LEMMA AlwaysOneUnrevoked == Spec => []OneUnrevoked
<1>1. Init => OneUnrevoked
  BY DEF Init, OneUnrevoked, Issued, NoToken
<1>2. /\ IdInv /\ OlderFirst /\ RootFits /\ (IdInv /\ OlderFirst /\ RootFits)'
      /\ OneUnrevoked /\ [Next]_vars
      => OneUnrevoked'
  BY TokenStep, OneUnrevokedStep
<1>3. QED
  BY <1>1, <1>2, AlwaysRoot, PTL DEF Spec

\* A login is continued by at most one token at a time, however often it is
\* refreshed and whatever refreshes of it race.
THEOREM LoginHasOneToken == Spec => []OneLivingToken
<1>1. IdInv /\ OneUnrevoked => OneLivingToken
  <2> SUFFICES ASSUME IdInv, OneUnrevoked, NEW r \in Issued
               PROVE  Cardinality(LivingTokens(r)) <= 1
    BY DEF OneLivingToken
  <2>1. \A s, t \in LivingTokens(r) : s = t
    BY DEF OneUnrevoked, LivingTokens, ChainOf
  <2>2. CASE LivingTokens(r) = {}
    BY <2>2, FS_EmptySet
  <2>3. CASE LivingTokens(r) # {}
    <3>1. PICK s \in LivingTokens(r) : TRUE
      BY <2>3
    <3>2. LivingTokens(r) = {s}
      BY <2>1, <3>1
    <3>3. Cardinality({s}) = 1
      BY FS_Singleton
    <3>4. QED
      BY <3>2, <3>3
  <2>4. QED
    BY <2>2, <2>3
<1>2. QED
  BY <1>1, AlwaysIdInv, AlwaysOneUnrevoked, PTL

\* A login that was ended is not continued by a refresh that was in progress,
\* nor by any later one.
THEOREM LoginStaysEnded == Spec => EndedLoginStaysEnded
<1>1. ASSUME IdInv, OlderFirst, RootFits, RootFits', [Next]_vars,
             NEW r \in Issued, LivingTokens(r) = {}
      PROVE  LivingTokens(r)' = {}
  <2>1. \A s \in Issued : Root[s] = r => token[s].revoked
    BY <1>1 DEF LivingTokens, ChainOf
  <2>2. /\ \A s \in Issued : Root'[s] = Root[s] /\ Root[s] \in Issued
        /\ Issued \subseteq Tokens /\ TokenEffect
    BY <1>1, TokenStep, RootKept, RootIssued DEF Issued
  <2>3. ASSUME NEW s \in Issued', Root'[s] = r PROVE token'[s].revoked
    <3>1. CASE Marks
      BY <2>1, <2>2, <2>3, <3>1 DEF Marks
    <3>2. ASSUME NEW n \in Tokens \ Issued, NEW t \in Issued \cup {0}, Extends(n, t)
          PROVE  token'[s].revoked
      <4>1. CASE s = n
        <5>1. Root'[n] = IF t = 0 THEN n ELSE Root[t]
          BY <1>1, <2>2, <3>2 DEF RootFits, Extends, Tokens
        <5>2. t \in Issued /\ Root[t] = r /\ ~token[t].revoked
          BY <1>1, <2>3, <3>2, <4>1, <5>1 DEF Extends
        <5>3. QED
          BY <2>1, <5>2
      <4>2. CASE s # n
        BY <2>1, <2>2, <2>3, <3>2, <4>2 DEF Extends
      <4>3. QED
        BY <4>1, <4>2
    <3>3. QED
      BY <2>2, <3>1, <3>2 DEF TokenEffect
  <2>4. QED
    BY <2>3 DEF LivingTokens, ChainOf
<1>2. /\ IdInv /\ OlderFirst /\ RootFits /\ RootFits' /\ [Next]_vars
      => \A r \in Issued : LivingTokens(r) = {} => LivingTokens(r)' = {}
  BY <1>1
<1>3. QED
  BY <1>2, AlwaysRoot, PTL DEF Spec, EndedLoginStaysEnded
=============================================================================
