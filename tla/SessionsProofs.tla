---------------------------- MODULE SessionsProofs ---------------------------
(***************************************************************************)
(* Sessions for every number of devices, calls, requests and tokens and    *)
(* any number of lost answers: types, one usable token in a family, that a *)
(* family which a revocation found whole stays over, and that no device is *)
(* taken for a thief while every answer arrives.                           *)
(***************************************************************************)
EXTENDS Sessions, SequenceTheorems, TLAPS

\* A request about a token is about one that was issued, and it has seen issued
\* ones only; so is every token that is kept or on its way.
OfToken == {"burn", "issue", "look", "find", "revoke"}

\* A login carries the password it has checked.
OfPassword == {"restore", "insert"}

KnownToServer ==
    \A q \in Requests :
        /\ srv[q].step \in OfToken => srv[q].token \in Issued
        /\ srv[q].step \in Answers /\ srv[q].token # 0 => srv[q].token \in Issued
        /\ srv[q].step \in OfPassword => srv[q].token \in {0, 1}
        /\ srv[q].todo \subseteq Issued

KnownToDevice ==
    \A d \in Devices :
        /\ refresh[d] # 0 => refresh[d] \in Issued
        /\ flight[d].token # 0 => flight[d].token \in Issued
        /\ sign[d].token # 0 => sign[d].token \in Issued
        /\ flight[d].step = "sent" => flight[d].at \in Requests
        /\ sign[d].step \in {"login", "logout"} => sign[d].at \in Requests

Known == KnownToServer /\ KnownToDevice

Inv == TypeOK /\ Known

LEMMA InitInv == Init => Inv
  <1>1. SUFFICES ASSUME Init PROVE Inv
    OBVIOUS
  <1>2. tokens = <<>> /\ Issued = {} /\ Len(tokens) = 0 /\ tokens \in Seq(Rows)
    BY <1>1, EmptySeq DEF Init, Issued
  <1>3. TableTypes
    <2>1. deleted \in BOOLEAN
      BY <1>1 DEF Init
    <2> QED
      BY <1>1, <1>2, <2>1, SessionsAssumption DEF Init, TableTypes
  <1>4. DeviceTypes
    <2>1. (CHOOSE d \in Devices : TRUE) \in Devices
      BY SessionsAssumption
    <2>2. NoCall \in Calls /\ NoFlight \in Flights
      BY <2>1, SessionsAssumption DEF NoCall, Calls, NoFlight, Flights
    <2>3. caller \in [Callers -> Calls] /\ flight \in [Devices -> Flights]
      BY <1>1, <2>2 DEF Init
    <2>4. sign \in [Devices -> Signs]
      BY <1>1, SessionsAssumption DEF Init, Signs
    <2> QED
      BY <1>1, <1>2, <2>3, <2>4, SessionsAssumption DEF Init, DeviceTypes
  <1>5. srv \in [Requests -> Services]
    BY <1>1, SessionsAssumption DEF Init, Services, Idle
  <1>6. LockedByBurn
    BY <1>1 DEF Init, LockedByBurn
  <1>7. Known
    BY <1>1, <1>2 DEF Init, Known, KnownToServer, KnownToDevice, Idle, NoFlight, OfToken, OfPassword, Answers
  <1> QED
    BY <1>3, <1>4, <1>5, <1>6, <1>7 DEF Inv, TypeOK

\* What the table is as a sequence.
LEMMA Table ==
    ASSUME TypeOK
    PROVE  /\ tokens \in Seq(Rows) /\ Len(tokens) \in Nat /\ Len(tokens) <= MaxTokens
           /\ Issued = 1 .. Len(tokens) /\ Issued \subseteq Tokens
           /\ \A t \in Issued : tokens[t] \in Rows
  <1>1. tokens \in Seq(Rows) /\ Len(tokens) <= MaxTokens
    BY DEF TypeOK, TableTypes
  <1> QED
    BY <1>1, LenProperties, ElementOfSeq, SessionsAssumption DEF Issued, Tokens

\* A new row and a row written to are rows.
LEMMA NewRow ==
    ASSUME NEW f \in Tokens, NEW p \in {0, 1}
    PROVE  [family |-> f, used |-> FALSE, revoked |-> FALSE, password |-> p] \in Rows
  BY DEF Rows

LEMMA WrittenRow ==
    ASSUME NEW x \in Rows
    PROVE  /\ [x EXCEPT !.used = TRUE] \in Rows
           /\ [x EXCEPT !.revoked = TRUE] \in Rows
           /\ x.family \in Tokens /\ x.password \in {0, 1}
  BY DEF Rows

\* A new token at the end of the table.
LEMMA Append1 ==
    ASSUME NEW s \in Seq(Rows), NEW x \in Rows
    PROVE  /\ Append(s, x) \in Seq(Rows) /\ Len(Append(s, x)) = Len(s) + 1
           /\ Append(s, x)[Len(s) + 1] = x
           /\ \A t \in 1 .. Len(s) : Append(s, x)[t] = s[t]
           /\ DOMAIN Append(s, x) = 1 .. Len(s) + 1
  <1>1. Append(s, x) \in Seq(Rows) /\ Len(Append(s, x)) = Len(s) + 1
    BY AppendProperties
  <1>2. \A t \in 1 .. Len(s) + 1 : Append(s, x)[t] = IF t <= Len(s) THEN s[t] ELSE x
    BY AppendProperties
  <1>3. Len(s) \in Nat
    BY LenProperties
  <1> QED
    BY <1>1, <1>2, <1>3, LenProperties

\* Burning a token, and the next of its family.
Burned(t) == [tokens EXCEPT ![t].used = TRUE]

LEMMA IssueTable ==
    ASSUME TypeOK, Known, NEW q \in Requests, Issue(q)
    PROVE  LET t == srv[q].token
               n == Len(tokens) + 1
           IN  /\ t \in Issued /\ n \in Tokens
               /\ tokens' \in Seq(Rows) /\ Len(tokens') = n /\ Issued' = 1 .. n
               /\ tokens'[t] = [tokens[t] EXCEPT !.used = TRUE]
               /\ \A s \in Issued \ {t} : tokens'[s] = tokens[s]
               /\ tokens'[n] = [family |-> tokens[t].family, used |-> FALSE, revoked |-> FALSE,
                                password |-> tokens[t].password]
  <1> DEFINE t == srv[q].token
             n == Len(tokens) + 1
             x == NewToken(tokens[t].family, tokens[t].password)
             y == [tokens[t] EXCEPT !.used = TRUE]
             b == [tokens EXCEPT ![t] = y]
  <1>1. t \in Issued /\ tokens[t] \in Rows /\ srv[q].step = "issue"
    BY Table DEF Known, KnownToServer, OfToken, Issue
  <1>2. x = [family |-> tokens[t].family, used |-> FALSE, revoked |-> FALSE,
             password |-> tokens[t].password]
    BY DEF NewToken
  <1>3. x \in Rows /\ y \in Rows
    BY <1>1, <1>2, NewRow, WrittenRow
  <1>4. b \in Seq(Rows) /\ Len(b) = Len(tokens)
        /\ \A s \in 1 .. Len(tokens) : b[s] = IF s = t THEN y ELSE tokens[s]
    BY <1>1, <1>3, Table, ExceptSeq
  <1>5. tokens' = Append(b, x) /\ Len(tokens) < MaxTokens
    BY DEF Issue
  <1>6. /\ tokens' \in Seq(Rows) /\ Len(tokens') = n /\ DOMAIN tokens' = 1 .. n
        /\ tokens'[n] = x /\ \A s \in 1 .. Len(tokens) : tokens'[s] = b[s]
    BY <1>3, <1>4, <1>5, Append1
  <1>7. n \in Tokens
    BY <1>5, Table, SessionsAssumption DEF Tokens
  <1> QED
    BY <1>1, <1>2, <1>4, <1>6, <1>7, Table DEF Issued

LEMMA InsertTable ==
    ASSUME TypeOK, NEW q \in Requests, Insert(q), srv[q].token \in {0, 1}
    PROVE  LET n == Len(tokens) + 1
           IN  /\ n \in Tokens
               /\ tokens' \in Seq(Rows) /\ Len(tokens') = n /\ Issued' = 1 .. n
               /\ \A s \in Issued : tokens'[s] = tokens[s]
               /\ tokens'[n] = [family |-> n, used |-> FALSE, revoked |-> FALSE,
                                password |-> srv[q].token]
  <1> DEFINE n == Len(tokens) + 1
             x == NewToken(n, srv[q].token)
  <1>1. n \in Tokens
    BY Table, SessionsAssumption DEF Tokens, Insert
  <1>2. x = [family |-> n, used |-> FALSE, revoked |-> FALSE, password |-> srv[q].token]
    BY DEF NewToken
  <1>3. x \in Rows
    BY <1>1, <1>2, NewRow
  <1>4. tokens' = Append(tokens, x)
    BY DEF Insert
  <1> QED
    BY <1>1, <1>2, <1>3, <1>4, Append1, Table DEF Issued

LEMMA RevokeTable ==
    ASSUME TypeOK, NEW q \in Requests, Revoke(q)
    PROVE  /\ tokens' \in Seq(Rows) /\ Len(tokens') = Len(tokens) /\ Issued' = Issued
           /\ \A t \in Issued :
                tokens'[t] = IF t \in srv[q].todo THEN [tokens[t] EXCEPT !.revoked = TRUE] ELSE tokens[t]
  <1> DEFINE n == Len(tokens)
  <1>1. tokens' = [t \in Issued |-> IF t \in srv[q].todo THEN [tokens[t] EXCEPT !.revoked = TRUE]
                                    ELSE tokens[t]]
    BY DEF Revoke
  <1>2. \A t \in Issued : tokens'[t] \in Rows
    BY <1>1, Table, WrittenRow
  <1>3. tokens' \in [1 .. n -> Rows] /\ n \in Nat
    BY <1>1, <1>2, Table
  <1>4. tokens' \in Seq(Rows)
    BY <1>3, SeqDef
  <1>5. Len(tokens') = n /\ DOMAIN tokens' = 1 .. n
    BY <1>3, <1>4, LenProperties
  <1> QED
    BY <1>1, <1>4, <1>5, Table DEF Issued

-----------------------------------------------------------------------------
(* What a step does to the requests of the server.                         *)

\* Request q, and no other, goes on to x.
Goes(q, x) == srv' = [srv EXCEPT ![q] = x]

LEMMA Going ==
    ASSUME srv \in [Requests -> Services], NEW q \in Requests, NEW x \in Services, Goes(q, x)
    PROVE  /\ srv' \in [Requests -> Services] /\ srv'[q] = x
           /\ \A p \in Requests \ {q} : srv'[p] = srv[p]
  BY DEF Goes

LEMMA Replying ==
    ASSUME srv \in [Requests -> Services], NEW q \in Requests, NEW kind \in Answers,
           NEW t \in 0 .. MaxTokens, Reply(q, kind, t)
    PROVE  /\ srv' \in [Requests -> Services]
           /\ srv'[q] = Idle \/ srv'[q] = Answer(kind, t)
           /\ \A p \in Requests \ {q} : srv'[p] = srv[p]
  <1>1. Idle \in Services /\ Answer(kind, t) \in Services
    BY SessionsAssumption DEF Services, Idle, Answer, Answers
  <1> QED
    BY <1>1 DEF Reply

LEMMA Asking ==
    ASSUME srv \in [Requests -> Services], NEW q \in Requests,
           NEW op \in {"refresh", "login", "logout"} \cup Remote, NEW t \in 0 .. MaxTokens,
           AskServer(q, op, t)
    PROVE  /\ srv' \in [Requests -> Services]
           /\ srv'[q].step \in {"burn", "verify", "find"} /\ srv'[q].token = t /\ srv'[q].todo = {}
           /\ srv'[q].op = op /\ (srv'[q].step = "verify" <=> op = "login")
           /\ \A p \in Requests \ {q} : srv'[p] = srv[p]
  <1> DEFINE step == CASE op = "refresh" -> "burn" [] op = "login" -> "verify" [] OTHER -> "find"
             x == [step |-> step, op |-> op, token |-> t, todo |-> {}]
  <1>1. step \in {"burn", "verify", "find"} /\ (step = "verify" <=> op = "login")
    OBVIOUS
  <1>2. x \in Services
    BY <1>1 DEF Services
  <1>3. Goes(q, x)
    BY DEF AskServer, Goes
  <1>4. /\ srv' \in [Requests -> Services] /\ srv'[q] = x
        /\ \A p \in Requests \ {q} : srv'[p] = srv[p]
    BY <1>2, <1>3, Going
  <1>5. x.step = step /\ x.op = op /\ x.token = t /\ x.todo = {}
    OBVIOUS
  <1> HIDE DEF step, x
  <1> QED
    BY <1>1, <1>4, <1>5

\* No answer that is awaited or dropped leaves anything but an idle slot.
LEMMA Abandoning ==
    ASSUME srv \in [Requests -> Services], NEW qs, Abandon(qs)
    PROVE  /\ srv' \in [Requests -> Services]
           /\ \A q \in Requests : srv'[q] = srv[q] \/ (srv[q].step \in Answers /\ srv'[q] = Idle)
  <1>1. Idle \in Services
    BY SessionsAssumption DEF Services, Idle
  <1> QED
    BY <1>1 DEF Abandon

-----------------------------------------------------------------------------
(* The types. First the server's steps, then the device's.                 *)

\* A step of the server that writes no token, for request q.
Turns(q) ==
    /\ UNCHANGED <<tokens, aged, device, lost>>
    /\ srv' \in [Requests -> Services]
    /\ \A p \in Requests \ {q} : srv'[p] = srv[p]
    /\ srv'[q].step \in OfToken => srv'[q].token \in Issued
    /\ srv'[q].step \in Answers => srv'[q].token = 0
    /\ srv'[q].step \in OfPassword => srv'[q].token \in {0, 1}
    /\ srv'[q].todo \subseteq Issued
    /\ TableTypes'
    /\ LockedByBurn'

LEMMA TurnInv == ASSUME Inv, NEW q \in Requests, Turns(q) PROVE Inv'
  <1>1. DeviceTypes' /\ Issued' = Issued
    BY DEF Inv, TypeOK, DeviceTypes, Turns, device, Issued
  <1>2. Known'
    BY <1>1 DEF Inv, Known, KnownToServer, KnownToDevice, Turns, device
  <1> QED
    BY <1>1, <1>2 DEF Inv, TypeOK, Turns

\* The idle slot and a refusal say nothing of tokens.
LEMMA Refusal ==
    ASSUME NEW q \in Requests, NEW kind \in Answers, srv'[q] = Idle \/ srv'[q] = Answer(kind, 0)
    PROVE  srv'[q].step \notin OfToken \cup OfPassword /\ srv'[q].token = 0 /\ srv'[q].todo = {}
  BY DEF Idle, Answer, Answers, OfToken, OfPassword

LEMMA BurnInv == ASSUME Inv, NEW q \in Requests, Burn(q), UNCHANGED <<aged, device, lost>> PROVE Inv'
  <1> USE DEF Inv, TypeOK
  <1>1. srv[q] \in Services /\ srv[q].step = "burn" /\ srv[q].token \in Issued /\ srv[q].todo \subseteq Issued
    BY DEF Burn, Known, KnownToServer, OfToken
  <1>2. PICK step \in {"issue", "look"} :
            /\ srv' = [srv EXCEPT ![q].step = step]
            /\ rowLock' = IF step = "issue" THEN [rowLock EXCEPT ![srv[q].token] = q] ELSE rowLock
    BY DEF Burn
  <1>3. /\ srv' \in [Requests -> Services]
        /\ \A p \in Requests \ {q} : srv'[p] = srv[p]
        /\ srv'[q].step = step /\ srv'[q].token = srv[q].token /\ srv'[q].todo = srv[q].todo
    BY <1>1, <1>2 DEF Services
  <1>4. TableTypes'
    BY DEF Burn, TableTypes
  <1>5. \A t \in Tokens : \/ rowLock'[t] = rowLock[t]
                          \/ rowLock'[t] = q /\ t = srv[q].token /\ step = "issue"
    BY <1>2 DEF TableTypes
  <1>6. \A t \in Tokens : rowLock[t] # Nobody => rowLock[t] \in Requests \ {q}
    BY <1>1 DEF LockedByBurn, TableTypes
  <1>7. LockedByBurn'
    BY <1>3, <1>5, <1>6 DEF LockedByBurn
  <1>8. srv'[q].step \in OfToken /\ srv'[q].step \notin Answers \cup OfPassword
    BY <1>3 DEF OfToken, OfPassword, Answers
  <1>9. UNCHANGED <<tokens, aged, device, lost>>
    BY DEF Burn
  <1>10. Turns(q)
    BY <1>1, <1>3, <1>4, <1>7, <1>8, <1>9 DEF Turns
  <1> QED
    BY <1>10, TurnInv

\* A request that holds no lock and takes none.
LEMMA Unlocking ==
    ASSUME Inv, NEW q \in Requests, srv[q].step # "issue", UNCHANGED rowLock,
           \A p \in Requests \ {q} : srv'[p] = srv[p]
    PROVE  LockedByBurn'
  BY DEF Inv, TypeOK, LockedByBurn, TableTypes

LEMMA LookInv == ASSUME Inv, NEW q \in Requests, Look(q), UNCHANGED <<aged, device, lost>> PROVE Inv'
  <1> USE DEF Inv, TypeOK
  <1>1. srv[q] \in Services /\ srv[q].step = "look" /\ srv[q].token \in Issued /\ srv[q].todo \subseteq Issued
    BY DEF Look, Known, KnownToServer, OfToken
  <1>2. CASE Reply(q, "refused", 0)
    <2>1. /\ srv' \in [Requests -> Services] /\ (srv'[q] = Idle \/ srv'[q] = Answer("refused", 0))
          /\ \A p \in Requests \ {q} : srv'[p] = srv[p]
      BY <1>2, Replying, SessionsAssumption DEF Answers
    <2>2. TableTypes' /\ LockedByBurn'
      BY <1>1, <2>1, Unlocking DEF Look, server, TableTypes
    <2>3. Turns(q)
      BY <2>1, <2>2, Refusal DEF Turns, Look, server, Answers
    <2> QED
      BY <2>3, TurnInv
  <1>3. CASE srv' = [srv EXCEPT ![q].step = "find", ![q].op = "reuse"]
    <2>1. /\ srv' \in [Requests -> Services]
          /\ \A p \in Requests \ {q} : srv'[p] = srv[p]
          /\ srv'[q].step = "find" /\ srv'[q].token = srv[q].token /\ srv'[q].todo = srv[q].todo
      BY <1>1, <1>3 DEF Services
    <2>2. TableTypes' /\ LockedByBurn'
      BY <1>1, <2>1, Unlocking DEF Look, server, TableTypes
    <2>3. Turns(q)
      BY <1>1, <2>1, <2>2 DEF Turns, Look, server, Answers, OfToken, OfPassword
    <2> QED
      BY <2>3, TurnInv
  <1> QED
    BY <1>2, <1>3 DEF Look

LEMMA FindInv == ASSUME Inv, NEW q \in Requests, Find(q), UNCHANGED <<aged, device, lost>> PROVE Inv'
  <1> USE DEF Inv, TypeOK
  <1>1. srv[q] \in Services /\ srv[q].step = "find" /\ srv[q].token \in Issued
    BY DEF Find, Known, KnownToServer, OfToken
  <1>2. CASE Reply(q, "refused", 0)
    <2>1. /\ srv' \in [Requests -> Services] /\ (srv'[q] = Idle \/ srv'[q] = Answer("refused", 0))
          /\ \A p \in Requests \ {q} : srv'[p] = srv[p]
      BY <1>2, Replying, SessionsAssumption DEF Answers
    <2>2. TableTypes' /\ LockedByBurn'
      BY <1>1, <2>1, Unlocking DEF Find, server, TableTypes
    <2>3. Turns(q)
      BY <2>1, <2>2, Refusal DEF Turns, Find, server, Answers
    <2> QED
      BY <2>3, TurnInv
  <1>3. CASE srv' = [srv EXCEPT ![q].step = "revoke", ![q].todo = Seen(q)]
    <2>1. Seen(q) \subseteq Issued /\ Seen(q) \subseteq Tokens
      BY Table DEF Seen, Family
    <2>2. /\ srv' \in [Requests -> Services]
          /\ \A p \in Requests \ {q} : srv'[p] = srv[p]
          /\ srv'[q].step = "revoke" /\ srv'[q].token = srv[q].token /\ srv'[q].todo = Seen(q)
      BY <1>1, <1>3, <2>1 DEF Services
    <2>3. TableTypes' /\ LockedByBurn'
      BY <1>1, <2>2, Unlocking DEF Find, server, TableTypes
    <2>4. Turns(q)
      BY <1>1, <2>1, <2>2, <2>3 DEF Turns, Find, server, Answers, OfToken, OfPassword
    <2> QED
      BY <2>4, TurnInv
  <1> QED
    BY <1>2, <1>3 DEF Find

\* A second reset or deletion, and what turns a request away.
LEMMA RefuseInv ==
    ASSUME Inv, NEW q \in Requests, NEW kind \in Answers, srv[q].step # "issue",
           Reply(q, kind, 0), UNCHANGED <<server, aged, device, lost>>
    PROVE  Inv'
  <1> USE DEF Inv, TypeOK
  <1>1. /\ srv' \in [Requests -> Services] /\ (srv'[q] = Idle \/ srv'[q] = Answer(kind, 0))
        /\ \A p \in Requests \ {q} : srv'[p] = srv[p]
    BY Replying, SessionsAssumption
  <1>2. TableTypes' /\ LockedByBurn'
    BY <1>1, Unlocking DEF server, TableTypes
  <1>3. Turns(q)
    BY <1>1, <1>2, Refusal DEF Turns, server
  <1> QED
    BY <1>3, TurnInv

LEMMA VerifyInv == ASSUME Inv, NEW q \in Requests, Verify(q), UNCHANGED <<aged, device, lost>> PROVE Inv'
  <1> USE DEF Inv, TypeOK
  <1>1. srv[q] \in Services /\ srv[q].step = "verify" /\ srv[q].todo \subseteq Issued
    BY DEF Verify, Known, KnownToServer
  <1>2. password \in 0 .. MaxTokens
    BY SessionsAssumption DEF TableTypes
  <1>3. PICK step \in {"restore", "insert"} :
            srv' = [srv EXCEPT ![q].step = step, ![q].token = password]
    BY DEF Verify
  <1>4. /\ srv' \in [Requests -> Services]
        /\ \A p \in Requests \ {q} : srv'[p] = srv[p]
        /\ srv'[q].step = step /\ srv'[q].token = password /\ srv'[q].todo = srv[q].todo
    BY <1>1, <1>2, <1>3 DEF Services
  <1>5. TableTypes' /\ LockedByBurn'
    BY <1>1, <1>4, Unlocking DEF Verify, server, TableTypes
  <1>6. Turns(q)
    BY <1>1, <1>4, <1>5 DEF Turns, Verify, server, Answers, OfToken, OfPassword, TableTypes
  <1> QED
    BY <1>6, TurnInv

LEMMA RestoreInv == ASSUME Inv, NEW q \in Requests, Restore(q), UNCHANGED <<aged, device, lost>> PROVE Inv'
  <1> USE DEF Inv, TypeOK
  <1>1. /\ srv[q] \in Services /\ srv[q].step = "restore" /\ srv[q].todo \subseteq Issued
        /\ srv[q].token \in {0, 1}
    BY DEF Restore, Known, KnownToServer, OfPassword
  <1>2. /\ srv' \in [Requests -> Services]
        /\ \A p \in Requests \ {q} : srv'[p] = srv[p]
        /\ srv'[q].step \notin OfToken
        /\ srv'[q].step \in Answers => srv'[q].token = 0
        /\ srv'[q].step \in OfPassword => srv'[q].token \in {0, 1}
        /\ srv'[q].todo \subseteq Issued
    <2>1. CASE Reply(q, "refused", 0)
      BY <2>1, Replying, Refusal, SessionsAssumption DEF Answers
    <2>2. CASE srv' = [srv EXCEPT ![q].step = "insert"]
      BY <1>1, <2>2 DEF Services, Answers, OfToken, OfPassword
    <2> QED
      BY <2>1, <2>2 DEF Restore
  <1>3. deleted' \in BOOLEAN
    BY DEF Restore
  <1>4. TableTypes' /\ LockedByBurn'
    BY <1>1, <1>2, <1>3, Unlocking DEF Restore, TableTypes
  <1>5. Turns(q)
    BY <1>2, <1>4 DEF Turns, Restore
  <1> QED
    BY <1>5, TurnInv

LEMMA RollbackInv == ASSUME Inv, NEW q \in Requests, Rollback(q), UNCHANGED <<aged, device, lost>> PROVE Inv'
  <1> USE DEF Inv, TypeOK
  <1>1. /\ srv' \in [Requests -> Services] /\ (srv'[q] = Idle \/ srv'[q] = Answer("busy", 0))
        /\ \A p \in Requests \ {q} : srv'[p] = srv[p]
    BY Replying, SessionsAssumption DEF Rollback, Answers
  <1>2. /\ rowLock' \in [Tokens -> Requests \cup {Nobody}]
        /\ \A t \in Tokens : rowLock'[t] # Nobody => rowLock'[t] = rowLock[t] /\ rowLock[t] \in Requests \ {q}
    BY SessionsAssumption DEF Rollback, TableTypes
  <1>3. LockedByBurn'
    BY <1>1, <1>2 DEF LockedByBurn
  <1>4. TableTypes'
    BY <1>2 DEF TableTypes, Rollback
  <1>5. Turns(q)
    BY <1>1, <1>3, <1>4, Refusal DEF Turns, Rollback, Answers
  <1> QED
    BY <1>5, TurnInv

-----------------------------------------------------------------------------
(* The steps that write tokens.                                            *)

\* The table has grown by a token at most, and q is answered with it.
LEMMA Grown ==
    ASSUME Inv, NEW q \in Requests, UNCHANGED <<aged, device, lost>>,
           srv[q].step # "issue" \/ \A t \in Tokens : rowLock'[t] # q,
           NEW kind \in Answers, NEW n \in 0 .. MaxTokens, Reply(q, kind, n),
           n = 0 \/ n \in Issued', Issued \subseteq Issued',
           Len(tokens') \in Nat, Len(tokens') >= Len(tokens), TableTypes',
           \A t \in Tokens : rowLock'[t] # Nobody => rowLock'[t] = rowLock[t]
    PROVE  Inv'
  <1> USE DEF Inv, TypeOK
  <1>1. /\ srv' \in [Requests -> Services] /\ (srv'[q] = Idle \/ srv'[q] = Answer(kind, n))
        /\ \A p \in Requests \ {q} : srv'[p] = srv[p]
    BY Replying
  <1>2. srv'[q].step \notin OfToken \cup OfPassword /\ srv'[q].token \in {0, n} /\ srv'[q].todo = {}
    BY <1>1 DEF Idle, Answer, Answers, OfToken, OfPassword
  <1>3. KnownToServer'
    BY <1>1, <1>2 DEF Known, KnownToServer
  <1>4. KnownToDevice'
    BY DEF Known, KnownToDevice, device
  <1>5. DeviceTypes'
    BY Table DEF DeviceTypes, device
  <1>6. LockedByBurn'
    BY <1>1 DEF LockedByBurn, TableTypes
  <1> QED
    BY <1>1, <1>3, <1>4, <1>5, <1>6 DEF Known

LEMMA IssueInv == ASSUME Inv, NEW q \in Requests, Issue(q), UNCHANGED <<aged, device, lost>> PROVE Inv'
  <1> USE DEF Inv
  <1> DEFINE t == srv[q].token
             n == Len(tokens) + 1
  <1>1. /\ t \in Issued /\ n \in Tokens /\ tokens' \in Seq(Rows) /\ Len(tokens') = n /\ Issued' = 1 .. n
    BY IssueTable
  <1>2. /\ rowLock' = [rowLock EXCEPT ![t] = Nobody] /\ Reply(q, "ok", n)
        /\ UNCHANGED <<deleted, password, ended, reused>>
    BY DEF Issue
  <1>3. rowLock \in [Tokens -> Requests \cup {Nobody}] /\ Len(tokens) \in Nat /\ Issued = 1 .. Len(tokens)
    BY Table DEF TypeOK, TableTypes
  <1>4. rowLock' \in [Tokens -> Requests \cup {Nobody}]
        /\ \A s \in Tokens : rowLock'[s] # Nobody => s # t /\ rowLock'[s] = rowLock[s]
    BY <1>2, <1>3
  <1>5. TableTypes'
    BY <1>1, <1>2, <1>4 DEF TypeOK, TableTypes, Tokens
  <1>6. \A s \in Tokens : rowLock'[s] # q
    BY <1>3, <1>4, SessionsAssumption DEF TypeOK, LockedByBurn
  <1>7. n \in 0 .. MaxTokens /\ n \in Issued' /\ Issued \subseteq Issued' /\ n >= Len(tokens) /\ n \in Nat
    BY <1>1, <1>3, SessionsAssumption DEF Tokens
  <1>8. "ok" \in Answers
    BY DEF Answers
  <1> HIDE DEF n, t
  <1> QED
    BY <1>1, <1>2, <1>4, <1>5, <1>6, <1>7, <1>8, Grown

LEMMA InsertInv == ASSUME Inv, NEW q \in Requests, Insert(q), UNCHANGED <<aged, device, lost>> PROVE Inv'
  <1> USE DEF Inv
  <1> DEFINE n == Len(tokens) + 1
  <1>1. srv[q].token \in {0, 1} /\ srv[q].step = "insert"
    BY DEF Insert, Known, KnownToServer, OfPassword
  <1>2. /\ n \in Tokens /\ tokens' \in Seq(Rows) /\ Len(tokens') = n /\ Issued' = 1 .. n
    BY <1>1, InsertTable
  <1>3. Reply(q, "ok", n) /\ UNCHANGED <<rowLock, deleted, password, ended, reused>>
    BY DEF Insert
  <1>4. TableTypes'
    BY <1>2, <1>3 DEF TypeOK, TableTypes, Tokens
  <1>5. n \in 0 .. MaxTokens /\ n \in Issued' /\ Issued \subseteq Issued' /\ n >= Len(tokens) /\ n \in Nat
    BY <1>2, Table, SessionsAssumption DEF Tokens
  <1>6. "ok" \in Answers
    BY DEF Answers
  <1> HIDE DEF n
  <1> QED
    BY <1>1, <1>2, <1>3, <1>4, <1>5, <1>6, Grown

LEMMA RevokeInv == ASSUME Inv, NEW q \in Requests, Revoke(q), UNCHANGED <<aged, device, lost>> PROVE Inv'
  <1> USE DEF Inv
  <1>1. srv[q].step = "revoke" /\ srv[q].token \in Issued /\ srv[q].todo \subseteq Issued
    BY DEF Revoke, Known, KnownToServer, OfToken
  <1>2. tokens' \in Seq(Rows) /\ Len(tokens') = Len(tokens) /\ Issued' = Issued
    BY RevokeTable
  <1>3. \A t \in Issued : tokens[t].family \in Tokens
    BY Table, WrittenRow
  <1>4. Whole(q) \subseteq Tokens
    BY <1>1, <1>3 DEF Whole
  <1>5. ended' \subseteq Tokens /\ reused' \subseteq Tokens
    BY <1>1, <1>3, <1>4 DEF Revoke, TypeOK, TableTypes
  <1>6. deleted' \in BOOLEAN
    BY DEF Revoke, TypeOK, TableTypes
  <1>7. password' \in {0, 1} /\ rowLock' = rowLock
    BY DEF Revoke, TypeOK, TableTypes
  <1>8. TableTypes'
    BY <1>2, <1>5, <1>6, <1>7 DEF TypeOK, TableTypes
  <1>9. PICK kind \in Answers : Reply(q, kind, 0)
    BY DEF Revoke, Answers
  <1>10. 0 \in 0 .. MaxTokens /\ Len(tokens') \in Nat /\ Len(tokens') >= Len(tokens)
    BY <1>2, Table, SessionsAssumption
  <1> QED
    BY <1>1, <1>2, <1>7, <1>8, <1>9, <1>10, Grown

-----------------------------------------------------------------------------
(* The device's steps.                                                     *)

\* What they leave of the server.
ServerKept ==
    /\ UNCHANGED tokens
    /\ TableTypes' /\ LockedByBurn' /\ srv' \in [Requests -> Services]
    /\ Issued' = Issued
    /\ KnownToServer'

LEMMA SameKept == ASSUME Inv, UNCHANGED <<server, srv>> PROVE ServerKept
  BY DEF Inv, TypeOK, Known, KnownToServer, ServerKept, server, TableTypes, LockedByBurn, Issued

LEMMA AskKept ==
    ASSUME Inv, NEW q \in Requests, Free(q),
           NEW op \in {"refresh", "login", "logout"} \cup Remote, NEW t \in 0 .. MaxTokens,
           op # "login" => t \in Issued,
           AskServer(q, op, t), UNCHANGED server
    PROVE  ServerKept
  <1> USE DEF Inv, TypeOK
  <1>1. /\ srv' \in [Requests -> Services]
        /\ srv'[q].step \in {"burn", "verify", "find"} /\ srv'[q].token = t /\ srv'[q].todo = {}
        /\ (srv'[q].step = "verify" <=> op = "login")
        /\ \A p \in Requests \ {q} : srv'[p] = srv[p]
    BY Asking
  <1>2. srv[q].step # "issue"
    BY DEF Free, Idle
  <1>3. TableTypes' /\ LockedByBurn' /\ Issued' = Issued /\ UNCHANGED tokens
    BY <1>1, <1>2, Unlocking DEF server, TableTypes, Issued
  <1>4. srv'[q].step \in OfToken => srv'[q].token \in Issued
    BY <1>1 DEF OfToken
  <1>5. srv'[q].step \notin Answers \cup OfPassword
    BY <1>1 DEF Answers, OfPassword
  <1>6. KnownToServer'
    BY <1>1, <1>3, <1>4, <1>5 DEF Known, KnownToServer
  <1> QED
    BY <1>1, <1>3, <1>6 DEF ServerKept

\* Slots of answers become idle.
Freed == \A q \in Requests : srv'[q] = srv[q] \/ (srv[q].step \in Answers /\ srv'[q] = Idle)

LEMMA FreedKept ==
    ASSUME Inv, srv' \in [Requests -> Services], Freed, UNCHANGED server
    PROVE  ServerKept
  <1> USE DEF Inv, TypeOK, Freed
  <1>1. TableTypes' /\ Issued' = Issued /\ UNCHANGED <<tokens, rowLock>>
    BY DEF server, TableTypes, Issued
  <1>2. LockedByBurn'
    BY <1>1 DEF LockedByBurn, TableTypes, Answers
  <1>3. KnownToServer'
    BY <1>1 DEF Known, KnownToServer, Idle, OfToken, OfPassword, Answers
  <1> QED
    BY <1>1, <1>2, <1>3 DEF ServerKept

LEMMA Freeing ==
    ASSUME Inv, NEW q \in Requests, srv[q].step \in Answers, srv' = [srv EXCEPT ![q] = Idle]
    PROVE  srv' \in [Requests -> Services] /\ Freed
  <1>1. Idle \in Services
    BY SessionsAssumption DEF Services, Idle
  <1> QED
    BY <1>1 DEF Inv, TypeOK, Freed

LEMMA DeviceInv == ASSUME Inv, ServerKept, DeviceTypes', KnownToDevice' PROVE Inv'
  BY DEF ServerKept, Inv, TypeOK, Known

\* What the device keeps is what it kept, what it had on the way, or nothing.
LEMMA StillKnown ==
    ASSUME KnownToDevice, Issued' = Issued,
           \A d \in Devices : refresh'[d] = refresh[d] \/ refresh'[d] \in Issued \cup {0},
           \A d \in Devices :
               /\ flight'[d].token = flight[d].token \/ flight'[d].token \in Issued \cup {0}
               /\ flight'[d].step = "sent" => flight'[d] = flight[d],
           \A d \in Devices :
               /\ sign'[d].token = sign[d].token \/ sign'[d].token \in Issued \cup {0}
               /\ sign'[d].step \in {"login", "logout"} => sign'[d].step = sign[d].step /\ sign'[d].at = sign[d].at
    PROVE  KnownToDevice'
  BY DEF KnownToDevice

\* A record of a sign-in or of a refresh.
LEMMA Records ==
    ASSUME NEW q \in Requests \cup {Nobody}, NEW t \in 0 .. MaxTokens
    PROVE  /\ \A step \in {"out", "login", "save", "save2", "in", "ended", "logout", "clear"} :
                  [step |-> step, at |-> q, token |-> t] \in Signs
           /\ \A step \in {"idle", "load", "sent", "save", "save2", "clear"} :
                  [step |-> step, at |-> q, token |-> t] \in Flights
  BY DEF Signs, Flights

LEMMA Idles == NoFlight \in Flights /\ NoCall \in Calls /\ 0 \in 0 .. MaxTokens
  <1>1. (CHOOSE d \in Devices : TRUE) \in Devices
    BY SessionsAssumption
  <1> QED
    BY <1>1, SessionsAssumption DEF NoFlight, NoCall, Calls, Flights

LEMMA Settling ==
    ASSUME Inv, NEW d \in Devices, Settle(d)
    PROVE  /\ flight' \in [Devices -> Flights] /\ caller' \in [Callers -> Calls]
           /\ flight'[d].token = 0 /\ flight'[d].step = "idle"
           /\ \A e \in Devices \ {d} : flight'[e] = flight[e]
  <1>1. NoFlight.token = 0 /\ NoFlight.step = "idle"
    BY DEF NoFlight
  <1> QED
    BY <1>1, Idles DEF Settle, Inv, TypeOK, DeviceTypes

LEMMA SigningSets ==
    ASSUME Inv, NEW d \in Devices, NEW q \in Requests \cup {Nobody}, NEW t \in 0 .. MaxTokens,
           NEW step \in {"out", "login", "save", "save2", "in", "ended", "logout", "clear"},
           Signing(d, step, q, t)
    PROVE  /\ sign' \in [Devices -> Signs]
           /\ sign'[d].token = t /\ sign'[d].step = step /\ sign'[d].at = q
           /\ \A e \in Devices \ {d} : sign'[e] = sign[e]
  <1> DEFINE x == [step |-> step, at |-> q, token |-> t]
  <1>1. x \in Signs /\ x.token = t /\ x.step = step /\ x.at = q
    BY Records
  <1>2. sign' = [sign EXCEPT ![d] = x]
    BY DEF Signing
  <1> HIDE DEF x
  <1> QED
    BY <1>1, <1>2 DEF Inv, TypeOK, DeviceTypes

LEMMA CallInv ==
    ASSUME Inv, NEW c \in Callers, (\E d \in Devices : Send(d, c)) \/ CallerStep(c)
    PROVE  Inv'
  <1> USE DEF Inv, TypeOK, DeviceTypes
  <1>1. UNCHANGED <<server, aged, srv, access, refresh, sign, lost>>
    BY DEF Send, CallerStep, Respond, Reload, Join
  <1>2. caller' \in [Callers -> Calls]
    <2>1. caller[c] \in Calls
      OBVIOUS
    <2>2. \A step \in {"idle", "sent", "unauthorised", "joining", "waiting"} :
              [caller[c] EXCEPT !.step = step] \in Calls
      BY <2>1 DEF Calls
    <2>3. CASE \E d \in Devices : Send(d, c)
      <3>1. PICK d \in Devices : Send(d, c)
        BY <2>3
      <3>2. [step |-> "sent", by |-> d, with |-> access[d]] \in Calls
        BY DEF Calls
      <3> QED
        BY <3>1, <3>2 DEF Send
    <2>4. CASE Respond(c)
      BY <2>2, <2>4, Idles DEF Respond
    <2>5. CASE Reload(c)
      BY <2>2, <2>5, Idles DEF Reload
    <2>6. CASE Join(c)
      BY <2>2, <2>6 DEF Join
    <2> QED
      BY <2>3, <2>4, <2>5, <2>6 DEF CallerStep
  <1>3. caller[c].by \in Devices
    BY DEF Calls
  <1>4. flight' \in [Devices -> Flights]
        /\ \A d \in Devices : flight'[d] = flight[d] \/ (flight'[d].token = 0 /\ flight'[d].step = "load")
    <2>1. CASE UNCHANGED flight
      BY <2>1
    <2>2. CASE Join(c)
      <3> DEFINE x == [NoFlight EXCEPT !.step = "load"]
      <3>1. x = [step |-> "load", at |-> Nobody, token |-> 0]
        BY DEF NoFlight
      <3> DEFINE b == caller[c].by
                 y == IF flight[b].step = "idle" THEN x ELSE flight[b]
      <3>2. flight' = [flight EXCEPT ![b] = y]
        BY <2>2 DEF Join
      <3> HIDE DEF x
      <3>3. x \in Flights /\ x.token = 0 /\ x.step = "load"
        <4>1. [step |-> "load", at |-> Nobody, token |-> 0] \in Flights
          BY Idles, Records
        <4> QED
          BY <3>1, <4>1
      <3> QED
        BY <1>3, <3>2, <3>3
    <2> QED
      BY <2>1, <2>2 DEF Send, CallerStep, Respond, Reload
  <1>5. KnownToDevice'
    BY <1>1, <1>4 DEF Known, KnownToDevice, server, Issued
  <1>6. DeviceTypes'
    BY <1>1, <1>2, <1>4 DEF server
  <1> QED
    BY <1>1, <1>5, <1>6, SameKept, DeviceInv

LEMMA LoadInv == ASSUME Inv, NEW d \in Devices, NEW q \in Requests, Load(d, q) PROVE Inv'
  <1> USE DEF Inv, TypeOK, DeviceTypes
  <1>1. UNCHANGED <<server, aged, access, refresh, caller, sign, lost>>
    BY DEF Load
  <1>2. CASE refresh[d] # 0 /\ Free(q) /\ AskServer(q, "refresh", refresh[d])
             /\ flight' = [flight EXCEPT ![d] = [step |-> "sent", at |-> q, token |-> refresh[d]]]
    <2>1. refresh[d] \in 0 .. MaxTokens /\ refresh[d] \in Issued
      BY <1>2 DEF Known, KnownToDevice
    <2>2. ServerKept
      BY <1>1, <1>2, <2>1, AskKept
    <2> DEFINE x == [step |-> "sent", at |-> q, token |-> refresh[d]]
    <2>3. x \in Flights /\ x.token = refresh[d] /\ x.at \in Requests
      BY <2>1, Records
    <2>4. flight' = [flight EXCEPT ![d] = x]
      BY <1>2
    <2> HIDE DEF x
    <2>5. /\ flight' \in [Devices -> Flights]
          /\ \A e \in Devices : flight'[e] = IF e = d THEN x ELSE flight[e]
      BY <2>3, <2>4
    <2>6. KnownToDevice'
      BY <1>1, <2>1, <2>2, <2>3, <2>5 DEF Known, KnownToDevice, ServerKept
    <2>7. DeviceTypes'
      BY <1>1, <2>2, <2>5 DEF ServerKept
    <2> QED
      BY <2>2, <2>6, <2>7, DeviceInv
  <1>3. CASE refresh[d] = 0 /\ flight' = [flight EXCEPT ![d].step = "clear"] /\ UNCHANGED srv
    <2>1. ServerKept
      BY <1>1, <1>3, SameKept
    <2>2. /\ flight' \in [Devices -> Flights]
          /\ \A e \in Devices : /\ flight'[e].token = flight[e].token /\ flight'[e].at = flight[e].at
                               /\ flight'[e].step \in {"clear", flight[e].step}
      BY <1>3 DEF Flights
    <2>3. KnownToDevice'
      BY <1>1, <2>1, <2>2 DEF Known, KnownToDevice, ServerKept
    <2>4. DeviceTypes'
      BY <1>1, <2>1, <2>2 DEF ServerKept
    <2> QED
      BY <2>1, <2>3, <2>4, DeviceInv
  <1> QED
    BY <1>2, <1>3 DEF Load

LEMMA RefreshedInv == ASSUME Inv, NEW d \in Devices, Refreshed(d) PROVE Inv'
  <1> USE DEF Inv, TypeOK, DeviceTypes
  <1> DEFINE q == flight[d].at
             t == srv[q].token
  <1>1. /\ UNCHANGED <<server, aged, access, refresh, sign, lost>>
        /\ srv[q].step \in Answers /\ srv' = [srv EXCEPT ![q] = Idle]
    BY DEF Refreshed
  <1>2. q \in Requests
    BY DEF Refreshed, Known, KnownToDevice
  <1>3. ServerKept
    BY <1>1, <1>2, Freeing, FreedKept
  <1>4. t \in 0 .. MaxTokens /\ (t # 0 => t \in Issued)
    BY <1>1, <1>2 DEF Known, KnownToServer, Services
  <1>5. /\ flight' \in [Devices -> Flights] /\ caller' \in [Callers -> Calls]
        /\ \A e \in Devices : /\ flight'[e].token \in {0, t, flight[e].token}
                             /\ (flight'[e].step = "sent" => flight'[e] = flight[e])
    <2>1. CASE Settle(d)
      BY <2>1, Settling
    <2>2. CASE flight' = [flight EXCEPT ![d].step = "clear"] /\ UNCHANGED caller
      BY <2>2 DEF Flights
    <2>3. CASE flight' = [flight EXCEPT ![d] = [step |-> "save", at |-> Nobody, token |-> t]]
               /\ UNCHANGED caller
      <3> DEFINE x == [step |-> "save", at |-> Nobody, token |-> t]
      <3>1. x \in Flights /\ x.token = t /\ x.step = "save"
        BY <1>4, Records
      <3>2. flight' = [flight EXCEPT ![d] = x]
        BY <2>3
      <3> HIDE DEF x, t
      <3> QED
        BY <2>3, <3>1, <3>2
    <2> QED
      BY <2>1, <2>2, <2>3 DEF Refreshed
  <1>6. KnownToDevice'
    <2>1. \A e \in Devices :
              /\ flight'[e].token = flight[e].token \/ flight'[e].token \in Issued \cup {0}
              /\ (flight'[e].step = "sent" => flight'[e] = flight[e])
      BY <1>4, <1>5
    <2>2. KnownToDevice /\ Issued' = Issued
      BY <1>3 DEF Known, ServerKept
    <2>3. \A e \in Devices : refresh'[e] = refresh[e] /\ sign'[e] = sign[e]
      BY <1>1
    <2> QED
      BY <2>1, <2>2, <2>3, StillKnown
  <1>7. DeviceTypes'
    BY <1>1, <1>3, <1>5 DEF ServerKept
  <1> QED
    BY <1>3, <1>6, <1>7, DeviceInv

LEMMA SaveInv ==
    ASSUME Inv, NEW d \in Devices, SaveAccess(d) \/ SaveRefresh(d) \/ EndSession(d) PROVE Inv'
  <1> USE DEF Inv, TypeOK, DeviceTypes
  <1>1. UNCHANGED <<server, aged, srv, lost>>
    BY DEF SaveAccess, SaveRefresh, EndSession
  <1>2. ServerKept
    BY <1>1, SameKept
  <1>3. flight[d].token \in 0 .. MaxTokens
    BY DEF Flights
  <1>4. /\ access' \in [Devices -> 0 .. MaxTokens] /\ refresh' \in [Devices -> 0 .. MaxTokens]
        /\ \A e \in Devices : refresh'[e] \in {0, flight[e].token, refresh[e]}
    BY <1>3, Idles DEF SaveAccess, SaveRefresh, EndSession
  <1>5. /\ flight' \in [Devices -> Flights] /\ caller' \in [Callers -> Calls]
        /\ \A e \in Devices : /\ flight'[e].token \in {0, flight[e].token}
                             /\ (flight'[e].step = "sent" => flight'[e] = flight[e])
    <2>1. CASE SaveAccess(d)
      BY <2>1 DEF SaveAccess, Flights
    <2>2. CASE Settle(d)
      BY <2>2, Settling
    <2> QED
      BY <2>1, <2>2 DEF SaveRefresh, EndSession
  <1>6. /\ sign' \in [Devices -> Signs]
        /\ \A e \in Devices : /\ sign'[e].token = sign[e].token /\ sign'[e].at = sign[e].at
                             /\ sign'[e].step \in {"ended", sign[e].step}
    <2>1. CASE UNCHANGED sign
      BY <2>1
    <2>2. CASE EndSession(d)
      <3>1. [sign[d] EXCEPT !.step = "ended"] \in Signs
        BY DEF Signs
      <3>2. PICK y \in {[sign[d] EXCEPT !.step = "ended"], sign[d]} : sign' = [sign EXCEPT ![d] = y]
        BY <2>2 DEF EndSession
      <3>3. sign[d] \in Signs /\ y.token = sign[d].token /\ y.at = sign[d].at
            /\ y.step \in {"ended", sign[d].step}
        BY <3>1 DEF Signs
      <3> QED
        BY <3>1, <3>2, <3>3
    <2> QED
      BY <2>1, <2>2 DEF SaveAccess, SaveRefresh
  <1>7. KnownToDevice'
    <2>1. \A e \in Devices : flight[e].token # 0 => flight[e].token \in Issued
      BY DEF Known, KnownToDevice
    <2>2. \A e \in Devices : refresh'[e] = refresh[e] \/ refresh'[e] \in Issued \cup {0}
      BY <1>4, <2>1
    <2>3. \A e \in Devices :
              /\ flight'[e].token = flight[e].token \/ flight'[e].token \in Issued \cup {0}
              /\ (flight'[e].step = "sent" => flight'[e] = flight[e])
      BY <1>5
    <2>4. \A e \in Devices :
              /\ sign'[e].token = sign[e].token \/ sign'[e].token \in Issued \cup {0}
              /\ (sign'[e].step \in {"login", "logout"} => sign'[e].step = sign[e].step /\ sign'[e].at = sign[e].at)
      BY <1>6
    <2>5. KnownToDevice /\ Issued' = Issued
      BY <1>2 DEF Known, ServerKept
    <2> QED
      BY <2>2, <2>3, <2>4, <2>5, StillKnown
  <1>8. DeviceTypes'
    BY <1>1, <1>2, <1>4, <1>5, <1>6 DEF ServerKept
  <1> QED
    BY <1>2, <1>7, <1>8, DeviceInv

LEMMA LoseInv == ASSUME Inv, NEW d \in Devices, LoseRefresh(d) PROVE Inv'
  <1> USE DEF Inv, TypeOK, DeviceTypes
  <1>1. ServerKept
    BY Abandoning, FreedKept DEF LoseRefresh, Freed
  <1>2. /\ flight' \in [Devices -> Flights] /\ caller' \in [Callers -> Calls]
        /\ \A e \in Devices : flight'[e] = flight[e] \/ (flight'[e].token = 0 /\ flight'[e].step = "idle")
    BY Settling DEF LoseRefresh
  <1>3. lost' \in 0 .. MaxLost /\ UNCHANGED <<aged, access, refresh, sign>>
    BY SessionsAssumption DEF LoseRefresh
  <1>4. KnownToDevice'
    BY <1>1, <1>2, <1>3 DEF Known, KnownToDevice, ServerKept
  <1>5. DeviceTypes'
    BY <1>1, <1>2, <1>3 DEF ServerKept
  <1> QED
    BY <1>1, <1>4, <1>5, DeviceInv
\* Where the sign-in of a device, and nothing else of the device, changes.
LEMMA SignInv ==
    ASSUME Inv, ServerKept, NEW d \in Devices, UNCHANGED <<aged, caller, flight>>, lost' \in 0 .. MaxLost,
           access' \in [Devices -> 0 .. MaxTokens], refresh' \in [Devices -> 0 .. MaxTokens],
           \A e \in Devices : refresh'[e] = refresh[e] \/ refresh'[e] \in Issued \cup {0},
           sign' \in [Devices -> Signs], \A e \in Devices \ {d} : sign'[e] = sign[e],
           sign'[d].token \in Issued \cup {0},
           sign'[d].step \in {"login", "logout"} => sign'[d].at \in Requests
    PROVE  Inv'
  <1>1. DeviceTypes'
    BY DEF Inv, TypeOK, DeviceTypes, ServerKept
  <1>2. KnownToDevice'
    BY DEF Inv, Known, KnownToDevice, ServerKept
  <1> QED
    BY <1>1, <1>2, DeviceInv

LEMMA SignInInv == ASSUME Inv, NEW d \in Devices, NEW q \in Requests, SignIn(d, q) PROVE Inv'
  <1>1. ServerKept
    BY AskKept, Idles DEF SignIn
  <1>2. /\ sign' \in [Devices -> Signs] /\ sign'[d].token = 0 /\ sign'[d].at = q
        /\ \A e \in Devices \ {d} : sign'[e] = sign[e]
    BY SigningSets, Idles DEF SignIn
  <1>3. /\ UNCHANGED <<aged, access, refresh, caller, flight, lost>>
        /\ access' \in [Devices -> 0 .. MaxTokens] /\ refresh' \in [Devices -> 0 .. MaxTokens]
        /\ lost' \in 0 .. MaxLost
    BY DEF SignIn, Inv, TypeOK, DeviceTypes
  <1> QED
    BY <1>1, <1>2, <1>3, SignInv

LEMMA SignOutInv == ASSUME Inv, NEW d \in Devices, NEW q \in Requests, SignOut(d, q) PROVE Inv'
  <1>1. ServerKept
    <2>1. CASE refresh[d] # 0
      <3>1. refresh[d] \in Issued /\ refresh[d] \in 0 .. MaxTokens
        BY <2>1 DEF Inv, Known, KnownToDevice, TypeOK, DeviceTypes
      <3> QED
        BY <2>1, <3>1, AskKept DEF SignOut
    <2>2. CASE refresh[d] = 0
      BY <2>2, SameKept DEF SignOut
    <2> QED
      BY <2>1, <2>2
  <1>2. /\ sign' \in [Devices -> Signs] /\ sign'[d].token = 0
        /\ (sign'[d].step \in {"login", "logout"} => sign'[d].at \in Requests)
        /\ \A e \in Devices \ {d} : sign'[e] = sign[e]
    BY SigningSets, Idles DEF SignOut
  <1>3. /\ UNCHANGED <<aged, access, refresh, caller, flight, lost>>
        /\ access' \in [Devices -> 0 .. MaxTokens] /\ refresh' \in [Devices -> 0 .. MaxTokens]
        /\ lost' \in 0 .. MaxLost
    BY DEF SignOut, Inv, TypeOK, DeviceTypes
  <1> QED
    BY <1>1, <1>2, <1>3, SignInv

LEMMA SignedInInv == ASSUME Inv, NEW d \in Devices, SignedIn(d) PROVE Inv'
  <1> DEFINE q == sign[d].at
             t == srv[q].token
  <1>1. /\ q \in Requests /\ srv[q].step \in Answers /\ srv' = [srv EXCEPT ![q] = Idle]
        /\ UNCHANGED server
    BY DEF SignedIn, Inv, Known, KnownToDevice
  <1>2. ServerKept
    BY <1>1, Freeing, FreedKept
  <1>3. t \in 0 .. MaxTokens /\ (t # 0 => t \in Issued)
    BY <1>1 DEF Inv, TypeOK, Known, KnownToServer, Services
  <1>4. Signing(d, "save", Nobody, t) \/ Signing(d, "out", Nobody, 0)
    BY DEF SignedIn
  <1> HIDE DEF q, t
  <1>5. /\ sign' \in [Devices -> Signs] /\ sign'[d].token \in {0, t}
        /\ sign'[d].step \notin {"login", "logout"}
        /\ \A e \in Devices \ {d} : sign'[e] = sign[e]
    BY <1>3, <1>4, SigningSets, Idles
  <1>6. sign'[d].token \in Issued \cup {0}
    BY <1>3, <1>5
  <1>7. /\ UNCHANGED <<aged, access, refresh, caller, flight, lost>>
        /\ access' \in [Devices -> 0 .. MaxTokens] /\ refresh' \in [Devices -> 0 .. MaxTokens]
        /\ lost' \in 0 .. MaxLost
    BY DEF SignedIn, Inv, TypeOK, DeviceTypes
  <1> QED
    BY <1>2, <1>5, <1>6, <1>7, SignInv

LEMMA StoreInv == ASSUME Inv, NEW d \in Devices, Store(d) \/ Clear(d) PROVE Inv'
  <1>1. ServerKept
    BY SameKept DEF Store, Clear
  <1>2. sign[d].token \in 0 .. MaxTokens /\ sign[d].token \in Issued \cup {0}
    BY DEF Inv, TypeOK, DeviceTypes, Signs, Known, KnownToDevice
  <1>3. /\ sign' \in [Devices -> Signs] /\ sign'[d].token \in {0, sign[d].token}
        /\ sign'[d].step \notin {"login", "logout"}
        /\ \A e \in Devices \ {d} : sign'[e] = sign[e]
    <2>1. \E step \in {"save2", "in", "out"} : Signing(d, step, Nobody, sign[d].token) \/ Signing(d, step, Nobody, 0)
      BY DEF Store, Clear
    <2> QED
      BY <1>2, <2>1, SigningSets, Idles
  <1>4. /\ access' \in [Devices -> 0 .. MaxTokens] /\ refresh' \in [Devices -> 0 .. MaxTokens]
        /\ \A e \in Devices : refresh'[e] \in {refresh[e], sign[d].token, 0}
    BY <1>2, Idles DEF Store, Clear, Inv, TypeOK, DeviceTypes
  <1>5. UNCHANGED <<aged, caller, flight>> /\ lost' \in 0 .. MaxLost
    BY DEF Store, Clear, Inv, TypeOK, DeviceTypes
  <1> QED
    BY <1>1, <1>2, <1>3, <1>4, <1>5, SignInv

LEMMA LoggedOutInv == ASSUME Inv, NEW d \in Devices, LoggedOut(d) PROVE Inv'
  <1> DEFINE q == sign[d].at
  <1>1. q \in Requests /\ UNCHANGED server
    BY DEF LoggedOut, Inv, Known, KnownToDevice
  <1>2. ServerKept
    <2>1. CASE srv[q].step \in Answers /\ srv' = [srv EXCEPT ![q] = Idle]
      BY <1>1, <2>1, Freeing, FreedKept
    <2>2. CASE Abandon({q})
      BY <1>1, <2>2, Abandoning, FreedKept DEF Freed, Inv, TypeOK
    <2> QED
      BY <2>1, <2>2 DEF LoggedOut
  <1>3. /\ sign' \in [Devices -> Signs] /\ sign'[d].token = 0 /\ sign'[d].step = "clear"
        /\ \A e \in Devices \ {d} : sign'[e] = sign[e]
    BY SigningSets, Idles DEF LoggedOut
  <1>4. lost' \in 0 .. MaxLost
    BY SessionsAssumption DEF LoggedOut, Inv, TypeOK, DeviceTypes
  <1>5. /\ UNCHANGED <<aged, access, refresh, caller, flight>>
        /\ access' \in [Devices -> 0 .. MaxTokens] /\ refresh' \in [Devices -> 0 .. MaxTokens]
    BY DEF LoggedOut, Inv, TypeOK, DeviceTypes
  <1> QED
    BY <1>2, <1>3, <1>4, <1>5, SignInv

LEMMA KillInv == ASSUME Inv, NEW d \in Devices, Kill(d) PROVE Inv'
  <1> USE DEF Inv, TypeOK, DeviceTypes
  <1>1. ServerKept
    BY Abandoning, FreedKept DEF Kill, Freed
  <1>2. NoFlight.token = 0 /\ NoFlight.step = "idle"
    BY DEF NoFlight
  <1>3. /\ flight' \in [Devices -> Flights]
        /\ \A e \in Devices : flight'[e] = flight[e] \/ flight'[e] = NoFlight
    BY Idles DEF Kill
  <1>4. caller' \in [Callers -> Calls]
    BY Idles DEF Kill
  <1>5. /\ sign' \in [Devices -> Signs] /\ sign'[d].token = 0 /\ sign'[d].step \notin {"login", "logout"}
        /\ \A e \in Devices \ {d} : sign'[e] = sign[e]
    BY SigningSets, Idles DEF Kill
  <1>6. lost' \in 0 .. MaxLost /\ UNCHANGED <<aged, access, refresh>>
    BY SessionsAssumption DEF Kill
  <1>7. KnownToDevice'
    BY <1>1, <1>2, <1>3, <1>5, <1>6 DEF Known, KnownToDevice, ServerKept
  <1>8. DeviceTypes'
    BY <1>1, <1>3, <1>4, <1>5, <1>6 DEF ServerKept
  <1> QED
    BY <1>1, <1>7, <1>8, DeviceInv

LEMMA ExpireInv == ASSUME Inv, NEW t \in Issued, Expire(t) PROVE Inv'
  <1>1. ServerKept
    BY SameKept DEF Expire
  <1>2. DeviceTypes'
    BY <1>1, Table DEF Expire, device, Inv, TypeOK, DeviceTypes, ServerKept
  <1>3. KnownToDevice'
    BY <1>1 DEF Expire, device, Inv, Known, KnownToDevice, ServerKept
  <1> QED
    BY <1>1, <1>2, <1>3, DeviceInv

LEMMA RemoteInv ==
    ASSUME Inv, NEW q \in Requests, NEW op \in Remote, NEW t \in Issued, AskRemotely(q, op, t)
    PROVE  Inv'
  <1>1. ServerKept
    BY AskKept, Table, SessionsAssumption DEF AskRemotely, Inv, Tokens
  <1>2. DeviceTypes' /\ KnownToDevice'
    BY <1>1 DEF AskRemotely, device, Inv, TypeOK, DeviceTypes, Known, KnownToDevice, ServerKept
  <1> QED
    BY <1>1, <1>2, DeviceInv

LEMMA ServerInv ==
    ASSUME Inv, NEW q \in Requests, ServerStep(q) \/ TurnAway(q) PROVE Inv'
  <1>1. CASE Spent(q) /\ UNCHANGED <<aged, device, lost>>
    <2>1. srv[q].step # "issue" /\ Reply(q, "refused", 0) /\ UNCHANGED server /\ "refused" \in Answers
      BY <1>1 DEF Spent, Answers
    <2> QED
      BY <1>1, <2>1, RefuseInv
  <1>2. CASE TurnAway(q)
    <2>1. /\ srv[q].step # "issue" /\ Reply(q, "busy", 0) /\ "busy" \in Answers
          /\ UNCHANGED <<server, aged, device, lost>>
      BY <1>2 DEF TurnAway, Answers
    <2> QED
      BY <2>1, RefuseInv
  <1> QED
    BY <1>1, <1>2, BurnInv, IssueInv, RollbackInv, LookInv, FindInv, RevokeInv, VerifyInv, RestoreInv,
       InsertInv DEF ServerStep

LEMMA InvStep == ASSUME Inv, [Next]_vars PROVE Inv'
  <1>1. CASE UNCHANGED vars
    <2>1. ServerKept
      BY <1>1, SameKept DEF vars
    <2>2. DeviceTypes' /\ KnownToDevice'
      BY <1>1 DEF vars, server, device, Inv, TypeOK, DeviceTypes, Known, KnownToDevice, Issued
    <2> QED
      BY <2>1, <2>2, DeviceInv
  <1>2. ASSUME NEW d \in Devices, Refresh(d) PROVE Inv'
    BY <1>2, LoadInv, RefreshedInv, SaveInv DEF Refresh
  <1>3. ASSUME NEW d \in Devices, SignStep(d) PROVE Inv'
    BY <1>3, SignedInInv, StoreInv, LoggedOutInv DEF SignStep
  <1> QED
    BY <1>1, <1>2, <1>3, ServerInv, RemoteInv, ExpireInv, CallInv, LoseInv, KillInv, SignInInv, SignOutInv
       DEF Next

LEMMA InvAlways == Spec => []Inv
  BY InitInv, InvStep, PTL DEF Spec

\* Every variable has its type, and a locked token is being replaced by the
\* request that holds its row.
THEOREM TypeCorrect == Spec => []TypeOK
  BY InvAlways, PTL DEF Inv

-----------------------------------------------------------------------------
(* One usable token in a family, and families that are over.               *)

\* A request that replaces a token holds its row, and the token is still good:
\* what the UPDATE found, nobody can change before the COMMIT.
Burning ==
    \A q \in Requests : srv[q].step = "issue" => rowLock[srv[q].token] = q /\ Live(srv[q].token)

\* A family is named after its first token.
Families == ended \subseteq Issued /\ \A t \in Issued : tokens[t].family \in Issued

Single == Burning /\ Families /\ OneLive /\ EndedForGood

\* Nobody begins to replace a token.
NoneBegins == \A q \in Requests : srv'[q].step = "issue" => srv'[q] = srv[q]

LEMMA QuietSingle ==
    ASSUME Inv, Single, UNCHANGED <<tokens, rowLock, ended>>, NoneBegins
    PROVE  Single'
  BY DEF Single, Burning, Families, OneLive, EndedForGood, Live, Issued, NoneBegins

LEMMA AskBegins ==
    ASSUME Inv, NEW q \in Requests, NEW op, NEW t, AskServer(q, op, t)
    PROVE  NoneBegins
  <1> DEFINE step == CASE op = "refresh" -> "burn" [] op = "login" -> "verify" [] OTHER -> "find"
             x == [step |-> step, op |-> op, token |-> t, todo |-> {}]
  <1>1. step # "issue" /\ x.step = step
    OBVIOUS
  <1>2. srv' = [srv EXCEPT ![q] = x]
    BY DEF AskServer
  <1> HIDE DEF step, x
  <1> QED
    BY <1>1, <1>2 DEF NoneBegins, Inv, TypeOK

LEMMA FreeBegins ==
    ASSUME Inv, NEW q \in Requests,
           srv' = [srv EXCEPT ![q] = Idle] \/ \E kind \in Answers, t \in 0 .. MaxTokens : Reply(q, kind, t)
    PROVE  NoneBegins
  <1>1. Idle.step # "issue" /\ \A kind \in Answers : \A t : Answer(kind, t).step # "issue"
    BY DEF Idle, Answer, Answers
  <1> QED
    BY <1>1 DEF Reply, NoneBegins, Inv, TypeOK

LEMMA AbandonBegins == ASSUME Inv, NEW qs, Abandon(qs) PROVE NoneBegins
  <1>1. Idle.step # "issue"
    BY DEF Idle
  <1> QED
    BY <1>1 DEF Abandon, NoneBegins, Inv, TypeOK

LEMMA SameBegins == ASSUME UNCHANGED srv PROVE NoneBegins
  BY DEF NoneBegins

-----------------------------------------------------------------------------
(* The steps that write tokens or lock rows.                               *)

LEMMA RowFields ==
    ASSUME NEW x \in Rows
    PROVE  /\ [x EXCEPT !.used = TRUE].family = x.family /\ [x EXCEPT !.used = TRUE].used = TRUE
           /\ [x EXCEPT !.revoked = TRUE].family = x.family /\ [x EXCEPT !.revoked = TRUE].revoked = TRUE
  BY DEF Rows

LEMMA BurnSingle == ASSUME Inv, Single, NEW q \in Requests, Burn(q) PROVE Single'
  <1> USE DEF Inv, TypeOK
  <1> DEFINE t == srv[q].token
  <1>1. srv[q] \in Services /\ t \in Issued /\ t \in Tokens /\ rowLock[t] = Nobody /\ UNCHANGED <<tokens, ended>>
    BY Table DEF Burn, Known, KnownToServer, OfToken
  <1>2. Families' /\ OneLive' /\ EndedForGood' /\ Issued' = Issued /\ (\A s : Live(s)' <=> Live(s))
    BY <1>1 DEF Single, Families, OneLive, EndedForGood, Live, Issued
  <1>3. CASE Live(t) /\ ~deleted
    <2>1. /\ rowLock' = [rowLock EXCEPT ![t] = q]
          /\ srv' = [srv EXCEPT ![q].step = "issue"]
      BY <1>3 DEF Burn
    <2>2. srv'[q].token = t /\ \A p \in Requests \ {q} : srv'[p] = srv[p]
      BY <1>1, <2>1 DEF Services
    <2>3. rowLock'[t] = q /\ \A s \in Tokens \ {t} : rowLock'[s] = rowLock[s]
      BY <1>1, <2>1 DEF TableTypes
    <2>4. ASSUME NEW p \in Requests, srv'[p].step = "issue"
          PROVE  rowLock'[srv'[p].token] = p /\ Live(srv'[p].token)
      <3>1. CASE p = q
        BY <1>3, <2>2, <2>3, <3>1
      <3>2. CASE p # q
        <4>1. srv'[p] = srv[p] /\ rowLock[srv[p].token] = p /\ Live(srv[p].token)
          BY <2>2, <2>4, <3>2 DEF Single, Burning
        <4>2. srv[p].token \in Tokens
          BY <2>4, <4>1, Table DEF Known, KnownToServer, OfToken
        <4>3. srv[p].token # t
          BY <1>1, <4>1, SessionsAssumption
        <4> QED
          BY <2>3, <4>1, <4>2, <4>3
      <3> QED
        BY <3>1, <3>2
    <2>5. Burning'
      BY <1>2, <2>4 DEF Burning
    <2> QED
      BY <1>2, <2>5 DEF Single
  <1>4. CASE ~(Live(t) /\ ~deleted)
    <2>1. srv' = [srv EXCEPT ![q].step = "look"] /\ UNCHANGED rowLock
      BY <1>4 DEF Burn
    <2>2. NoneBegins
      BY <1>1, <2>1 DEF NoneBegins, Services
    <2> QED
      BY <1>1, <2>1, <2>2, QuietSingle
  <1> QED
    BY <1>3, <1>4

LEMMA RollbackSingle == ASSUME Inv, Single, NEW q \in Requests, Rollback(q) PROVE Single'
  <1> USE DEF Inv, TypeOK
  <1>1. /\ \A p \in Requests \ {q} : srv'[p] = srv[p]
        /\ srv'[q] = Idle \/ srv'[q] = Answer("busy", 0)
    BY Replying, SessionsAssumption DEF Rollback, Answers
  <1>2. srv'[q].step # "issue"
    BY <1>1 DEF Idle, Answer
  <1>3. UNCHANGED <<tokens, ended>>
        /\ rowLock' = [t \in Tokens |-> IF rowLock[t] = q THEN Nobody ELSE rowLock[t]]
    BY DEF Rollback
  <1>4. ASSUME NEW p \in Requests, srv'[p].step = "issue"
        PROVE  rowLock'[srv'[p].token] = p /\ Live(srv'[p].token)
    <2>1. p # q /\ srv'[p] = srv[p] /\ rowLock[srv[p].token] = p /\ Live(srv[p].token)
      BY <1>1, <1>2, <1>4 DEF Single, Burning
    <2>2. srv[p].token \in Tokens
      BY <1>4, <2>1, Table DEF Known, KnownToServer, OfToken
    <2> QED
      BY <1>3, <2>1, <2>2
  <1>5. Families' /\ OneLive' /\ EndedForGood' /\ (\A s : Live(s)' <=> Live(s))
    BY <1>3 DEF Single, Families, OneLive, EndedForGood, Live, Issued
  <1> QED
    BY <1>4, <1>5 DEF Single, Burning

LEMMA IssueSingle == ASSUME Inv, Single, NEW q \in Requests, Issue(q) PROVE Single'
  <1> USE DEF Inv, TypeOK
  <1>0. PICK t, n : t = srv[q].token /\ n = Len(tokens) + 1
    OBVIOUS
  <1>1. /\ t \in Issued /\ Issued' = 1 .. n /\ Issued = 1 .. Len(tokens) /\ Len(tokens) \in Nat
        /\ n \in 0 .. MaxTokens
        /\ tokens[t] \in Rows
    <2>1. /\ srv[q].token \in Issued /\ Len(tokens) + 1 \in Tokens
          /\ Issued' = 1 .. Len(tokens) + 1
      BY IssueTable
    <2> QED
      BY <1>0, <2>1, Table, SessionsAssumption DEF Tokens
  <1>2. /\ tokens'[t] = [tokens[t] EXCEPT !.used = TRUE]
        /\ \A s \in Issued \ {t} : tokens'[s] = tokens[s]
        /\ tokens'[n] = [family |-> tokens[t].family, used |-> FALSE, revoked |-> FALSE,
                         password |-> tokens[t].password]
    BY <1>0, IssueTable
  <1>3. rowLock[t] = q /\ Live(t)
    BY <1>0 DEF Single, Burning, Issue
  <1>4. Issued' = Issued \cup {n} /\ n \notin Issued
    BY <1>0, <1>1
  <1>5. /\ tokens'[t].family = tokens[t].family /\ ~Live(t)'
        /\ tokens'[n].family = tokens[t].family
        /\ \A s \in Issued \ {t} : tokens'[s].family = tokens[s].family /\ (Live(s)' <=> Live(s))
    <2>1. tokens'[t].family = tokens[t].family /\ tokens'[t].used = TRUE
      BY <1>1, <1>2, RowFields
    <2>2. ~Live(t)'
      BY <2>1 DEF Live
    <2>3. tokens'[n].family = tokens[t].family
      BY <1>2
    <2>4. ASSUME NEW s \in Issued \ {t}
          PROVE  tokens'[s].family = tokens[s].family /\ (Live(s)' <=> Live(s))
      BY <1>2, <2>4 DEF Live
    <2> QED
      BY <2>1, <2>2, <2>3, <2>4
  <1>6. OneLive'
    <2> SUFFICES ASSUME NEW r \in Issued', NEW s \in Issued', Live(r)', Live(s)',
                        tokens'[r].family = tokens'[s].family
                 PROVE  r = s
      BY DEF OneLive
    <2>1. r # t /\ s # t
      BY <1>5
    <2>2. CASE r = n /\ s # n
      BY <1>1, <1>3, <1>4, <1>5, <2>1, <2>2 DEF Single, OneLive
    <2>3. CASE r # n /\ s = n
      BY <1>1, <1>3, <1>4, <1>5, <2>1, <2>3 DEF Single, OneLive
    <2>4. CASE r # n /\ s # n
      BY <1>4, <1>5, <2>1, <2>4 DEF Single, OneLive
    <2> QED
      BY <2>2, <2>3, <2>4
  <1>7. UNCHANGED ended /\ rowLock' = [rowLock EXCEPT ![t] = Nobody] /\ Reply(q, "ok", n)
    BY <1>0 DEF Issue
  <1>8. EndedForGood'
    <2>1. tokens[t].family \notin ended
      BY <1>1, <1>3 DEF Single, EndedForGood
    <2> QED
      BY <1>4, <1>5, <1>7, <2>1 DEF Single, EndedForGood
  <1>9. Families'
    BY <1>1, <1>4, <1>5, <1>7 DEF Single, Families
  <1>10. Burning'
    <2> SUFFICES ASSUME NEW p \in Requests, srv'[p].step = "issue"
                 PROVE  (rowLock[srv[p].token] = p /\ Live(srv[p].token))'
      BY DEF Burning
    <2>1. "ok" \in Answers
      BY DEF Answers
    <2>2. NoneBegins
      BY <1>1, <1>7, <2>1, FreeBegins
    <2>3. srv'[p] = srv[p] /\ rowLock[srv[p].token] = p /\ Live(srv[p].token) /\ srv[p].token \in Issued
      BY <2>2 DEF NoneBegins, Single, Burning, Known, KnownToServer, OfToken
    <2>4. p # q
      <3>1. srv'[q] = Idle \/ srv'[q] = Answer("ok", n)
        BY <1>1, <1>7, <2>1, Replying
      <3> QED
        BY <3>1 DEF Idle, Answer
    <2>5. srv[p].token # t /\ srv[p].token \in Tokens
      BY <1>3, <2>3, <2>4, Table
    <2>6. rowLock'[srv[p].token] = p
      BY <1>7, <2>3, <2>5 DEF TableTypes
    <2>7. Live(srv[p].token)'
      BY <1>5, <2>3, <2>5
    <2> QED
      BY <2>3, <2>6, <2>7
  <1> QED
    BY <1>6, <1>8, <1>9, <1>10 DEF Single

LEMMA InsertSingle == ASSUME Inv, Single, NEW q \in Requests, Insert(q) PROVE Single'
  <1> USE DEF Inv, TypeOK
  <1> DEFINE n == Len(tokens) + 1
  <1>1. srv[q].token \in {0, 1}
    BY DEF Insert, Known, KnownToServer, OfPassword
  <1>2. /\ Issued' = 1 .. n /\ Issued = 1 .. Len(tokens) /\ Len(tokens) \in Nat /\ n \in Tokens
        /\ \A s \in Issued : tokens'[s] = tokens[s]
        /\ tokens'[n] = [family |-> n, used |-> FALSE, revoked |-> FALSE, password |-> srv[q].token]
    BY <1>1, InsertTable, Table
  <1>3. Issued' = Issued \cup {n} /\ n \notin Issued /\ n \in 0 .. MaxTokens
    BY <1>2, SessionsAssumption DEF Tokens
  <1>4. tokens'[n].family = n /\ \A s \in Issued : Live(s)' <=> Live(s)
    BY <1>2 DEF Live
  <1>5. UNCHANGED <<rowLock, ended>> /\ Reply(q, "ok", n)
    BY DEF Insert
  <1>6. NoneBegins
    BY <1>3, <1>5, FreeBegins DEF Answers
  <1> HIDE DEF n
  <1>7. Burning'
    BY <1>4, <1>5, <1>6 DEF Burning, Single, NoneBegins, Known, KnownToServer, OfToken
  <1>8. Families'
    BY <1>2, <1>3, <1>4, <1>5 DEF Single, Families
  <1>9. OneLive'
    BY <1>2, <1>3, <1>4 DEF Single, Families, OneLive
  <1>10. EndedForGood'
    BY <1>2, <1>3, <1>4, <1>5 DEF Single, Families, EndedForGood
  <1> QED
    BY <1>7, <1>8, <1>9, <1>10 DEF Single

LEMMA RevokeSingle == ASSUME Inv, Single, NEW q \in Requests, Revoke(q) PROVE Single'
  <1> USE DEF Inv, TypeOK
  <1>1. /\ Issued' = Issued /\ UNCHANGED rowLock /\ srv[q].todo \subseteq Issued
        /\ \A t \in Issued :
             tokens'[t] = IF t \in srv[q].todo THEN [tokens[t] EXCEPT !.revoked = TRUE] ELSE tokens[t]
    BY RevokeTable DEF Revoke, Known, KnownToServer
  <1>2. \A t \in Issued : /\ tokens'[t].family = tokens[t].family
                          /\ (Live(t)' => Live(t))
                          /\ (t \in srv[q].todo => ~Live(t)')
                          /\ (t \notin srv[q].todo => (Live(t)' <=> Live(t)))
    <2> TAKE t \in Issued
    <2>1. tokens[t] \in Rows
      BY Table
    <2>2. CASE t \in srv[q].todo
      <3>1. tokens'[t] = [tokens[t] EXCEPT !.revoked = TRUE]
        BY <1>1, <2>2
      <3>2. tokens'[t].revoked = TRUE /\ tokens'[t].family = tokens[t].family
        BY <2>1, <3>1, RowFields
      <3> QED
        BY <2>2, <3>2 DEF Live
    <2>3. CASE t \notin srv[q].todo
      BY <1>1, <2>3 DEF Live
    <2> QED
      BY <2>2, <2>3
  <1>3. ended' = ended \cup Whole(q)
    BY DEF Revoke
  <1>4. Whole(q) \subseteq Issued
    BY <1>1 DEF Whole, Single, Families
  <1>5. Families'
    BY <1>1, <1>2, <1>3, <1>4 DEF Single, Families
  <1>6. OneLive'
    BY <1>1, <1>2 DEF Single, OneLive
  <1>7. EndedForGood'
    <2>1. ASSUME NEW t \in Issued, tokens[t].family \in Whole(q) PROVE t \in srv[q].todo
      BY <2>1 DEF Whole, Family
    <2> QED
      BY <1>1, <1>2, <1>3, <2>1 DEF Single, EndedForGood
  <1>8. Burning'
    <2> SUFFICES ASSUME NEW p \in Requests, srv'[p].step = "issue"
                 PROVE  (rowLock[srv[p].token] = p /\ Live(srv[p].token))'
      BY DEF Burning
    <2>1. NoneBegins
      BY FreeBegins, SessionsAssumption DEF Revoke, Answers
    <2>2. srv'[p] = srv[p] /\ rowLock[srv[p].token] = p /\ Live(srv[p].token) /\ srv[p].token \in Issued
      BY <2>1 DEF NoneBegins, Single, Burning, Known, KnownToServer, OfToken
    <2>3. srv[p].token \notin srv[q].todo
      BY <2>2, SessionsAssumption DEF Revoke
    <2> QED
      BY <1>1, <1>2, <2>2, <2>3
  <1> QED
    BY <1>5, <1>6, <1>7, <1>8 DEF Single

-----------------------------------------------------------------------------
(* Every other step.                                                       *)

LEMMA ServerSingle ==
    ASSUME Inv, Single, NEW q \in Requests, ServerStep(q) \/ TurnAway(q) PROVE Single'
  <1>1. srv[q] \in Services /\ 0 \in 0 .. MaxTokens /\ {"refused", "busy"} \subseteq Answers
    BY SessionsAssumption DEF Inv, TypeOK, Answers
  <1>2. CASE Look(q)
    <2>1. NoneBegins
      <3>1. CASE Reply(q, "refused", 0)
        BY <1>1, <3>1, FreeBegins
      <3>2. CASE srv' = [srv EXCEPT ![q].step = "find", ![q].op = "reuse"]
        BY <1>1, <3>2 DEF NoneBegins, Services, Inv, TypeOK
      <3> QED
        BY <1>2, <3>1, <3>2 DEF Look
    <2> QED
      BY <1>2, <2>1, QuietSingle DEF Look, server
  <1>3. CASE Find(q)
    <2>1. NoneBegins
      <3>1. CASE Reply(q, "refused", 0)
        BY <1>1, <3>1, FreeBegins
      <3>2. CASE srv' = [srv EXCEPT ![q].step = "revoke", ![q].todo = Seen(q)]
        BY <1>1, <3>2 DEF NoneBegins, Services, Inv, TypeOK
      <3> QED
        BY <1>3, <3>1, <3>2 DEF Find
    <2> QED
      BY <1>3, <2>1, QuietSingle DEF Find, server
  <1>4. CASE Spent(q) \/ TurnAway(q)
    <2>1. NoneBegins
      BY <1>1, <1>4, FreeBegins DEF Spent, TurnAway
    <2> QED
      BY <1>4, <2>1, QuietSingle DEF Spent, TurnAway, server
  <1>5. CASE Verify(q)
    <2>1. PICK step \in {"restore", "insert"} :
              srv' = [srv EXCEPT ![q].step = step, ![q].token = password]
      BY <1>5 DEF Verify
    <2>2. NoneBegins
      BY <1>1, <2>1 DEF NoneBegins, Services, Inv, TypeOK
    <2> QED
      BY <1>5, <2>2, QuietSingle DEF Verify, server
  <1>6. CASE Restore(q)
    <2>1. NoneBegins
      <3>1. CASE Reply(q, "refused", 0)
        BY <1>1, <3>1, FreeBegins
      <3>2. CASE srv' = [srv EXCEPT ![q].step = "insert"]
        BY <1>1, <3>2 DEF NoneBegins, Services, Inv, TypeOK
      <3> QED
        BY <1>6, <3>1, <3>2 DEF Restore
    <2> QED
      BY <1>6, <2>1, QuietSingle DEF Restore
  <1> QED
    BY <1>2, <1>3, <1>4, <1>5, <1>6, BurnSingle, RollbackSingle, IssueSingle, InsertSingle, RevokeSingle
       DEF ServerStep

LEMMA RefreshSingle ==
    ASSUME Inv, Single, NEW d \in Devices, Refresh(d) \/ LoseRefresh(d) PROVE Single'
  <1>1. UNCHANGED <<tokens, rowLock, ended>>
    BY DEF Refresh, Load, Refreshed, SaveAccess, SaveRefresh, EndSession, LoseRefresh, server
  <1>2. ASSUME NEW q \in Requests, Load(d, q) PROVE NoneBegins
    BY <1>2, AskBegins, SameBegins DEF Load
  <1>3. ASSUME Refreshed(d) PROVE NoneBegins
    BY <1>3, FreeBegins DEF Refreshed, Inv, Known, KnownToDevice
  <1>4. ASSUME SaveAccess(d) \/ SaveRefresh(d) \/ EndSession(d) PROVE NoneBegins
    BY <1>4, SameBegins DEF SaveAccess, SaveRefresh, EndSession
  <1>5. ASSUME LoseRefresh(d) PROVE NoneBegins
    BY <1>5, AbandonBegins DEF LoseRefresh
  <1> QED
    BY <1>1, <1>2, <1>3, <1>4, <1>5, QuietSingle DEF Refresh

LEMMA SignSingle ==
    ASSUME Inv, Single, NEW d \in Devices,
           SignStep(d) \/ Kill(d) \/ \E q \in Requests : SignIn(d, q) \/ SignOut(d, q)
    PROVE  Single'
  <1>1. UNCHANGED <<tokens, rowLock, ended>>
    BY DEF SignStep, SignedIn, Store, LoggedOut, Clear, Kill, SignIn, SignOut, server
  <1>2. ASSUME NEW q \in Requests, SignIn(d, q) \/ SignOut(d, q) PROVE NoneBegins
    BY <1>2, AskBegins, SameBegins DEF SignIn, SignOut
  <1>3. ASSUME SignedIn(d) PROVE NoneBegins
    BY <1>3, FreeBegins DEF SignedIn, Inv, Known, KnownToDevice
  <1>4. ASSUME Store(d) \/ Clear(d) PROVE NoneBegins
    BY <1>4, SameBegins DEF Store, Clear
  <1>5. ASSUME LoggedOut(d) PROVE NoneBegins
    BY <1>5, FreeBegins, AbandonBegins DEF LoggedOut, Inv, Known, KnownToDevice
  <1>6. ASSUME Kill(d) PROVE NoneBegins
    BY <1>6, AbandonBegins DEF Kill
  <1> QED
    BY <1>1, <1>2, <1>3, <1>4, <1>5, <1>6, QuietSingle DEF SignStep

LEMMA SingleStep == ASSUME Inv, Single, [Next]_vars PROVE Single'
  <1>1. CASE UNCHANGED vars
    BY <1>1, SameBegins, QuietSingle DEF vars, server
  <1>2. ASSUME NEW q \in Requests, NEW op \in Remote, NEW t \in Issued, AskRemotely(q, op, t) PROVE Single'
    BY <1>2, AskBegins, QuietSingle DEF AskRemotely, server
  <1>3. ASSUME NEW t \in Issued, Expire(t) PROVE Single'
    BY <1>3, SameBegins, QuietSingle DEF Expire, server
  <1>4. ASSUME NEW c \in Callers, CallerStep(c) \/ \E d \in Devices : Send(d, c) PROVE Single'
    BY <1>4, SameBegins, QuietSingle DEF CallerStep, Respond, Reload, Join, Send, server
  <1> QED
    BY <1>1, <1>2, <1>3, <1>4, ServerSingle, RefreshSingle, SignSingle DEF Next

LEMMA InitSingle == Init => Single
  BY DEF Init, Single, Burning, Families, OneLive, EndedForGood, Issued, Idle

LEMMA SingleAlways == Spec => []Single
  BY InitSingle, SingleStep, InvAlways, PTL DEF Spec

\* Two tokens of a family are never both good: a refresh burns the old token in
\* the transaction that inserts the new one, and holds the row to the end.
THEOREM OneLiveToken == Spec => []OneLive
  BY SingleAlways, PTL DEF Single

\* A family that a revocation has found whole never has a good token again: the
\* refresh that waited for the row finds it revoked, and one that holds the row
\* keeps the revocation waiting and its new token out of what that has seen.
THEOREM OverIsOver == Spec => []EndedForGood
  BY SingleAlways, PTL DEF Single

-----------------------------------------------------------------------------
(* No false alarm. While no answer is lost a token is held by one device,  *)
(* in one place, and one that is burned is about to be replaced there.     *)

Refreshing(d) == flight[d].step = "sent"
At(d) == srv[flight[d].at]
Awaiting(d) == sign[d].step \in {"login", "logout"}
AtSign(d) == srv[sign[d].at]

\* The requests whose answer the device waits for.
Slots(d) ==
    (IF Refreshing(d) THEN {flight[d].at} ELSE {}) \cup (IF Awaiting(d) THEN {sign[d].at} ELSE {})

\* The steps of a refresh, of a login, and of what revokes.
Burns == {"burn", "issue", "look"}
Logins == {"verify", "restore", "insert"}
Revokes == {"find", "revoke"}

\* The token a refresh was asked with; the one it brings; the one of a login.
Paid(d) == IF Refreshing(d) THEN flight[d].token ELSE 0
Brought(d) ==
    IF Refreshing(d) THEN (IF At(d).step = "ok" THEN At(d).token ELSE 0)
    ELSE IF flight[d].step \in {"save", "save2"} THEN flight[d].token ELSE 0
Signed(d) ==
    IF sign[d].step = "login" THEN (IF AtSign(d).step = "ok" THEN AtSign(d).token ELSE 0)
    ELSE IF sign[d].step \in {"save", "save2"} THEN sign[d].token ELSE 0

Owned(d) == {refresh[d], Paid(d), Brought(d), Signed(d)} \ {0}

\* What the device waits for is at work or answered.
Answered(d) ==
    /\ Refreshing(d) => flight[d].token # 0 /\ At(d).step \in Burns \cup Answers
    /\ Refreshing(d) /\ At(d).step \in Burns => flight[d].token = At(d).token
    /\ sign[d].step = "login" => AtSign(d).step \in Logins \cup Answers
    /\ sign[d].step = "logout" => AtSign(d).step \in Revokes \cup Answers
    /\ Refreshing(d) /\ Awaiting(d) => flight[d].at # sign[d].at

\* New tokens are new, and a refresh that is not settled has burned nothing.
Unspent(d) ==
    /\ Brought(d) # 0 => ~tokens[Brought(d)].used /\ Brought(d) \notin {refresh[d], Paid(d), Signed(d)}
    /\ Signed(d) # 0 => ~tokens[Signed(d)].used /\ Signed(d) \notin {refresh[d], Paid(d)}
    /\ Refreshing(d) /\ At(d).step \in Burns \cup {"busy"} => ~tokens[flight[d].token].used

\* A burned token that is still kept is replaced or cleared next.
Replacing(d) ==
    \/ flight[d].step \in {"save", "save2", "clear"}
    \/ Refreshing(d) /\ At(d).step \in {"ok", "refused"}

Sound(d) == Answered(d) /\ Unspent(d) /\ (refresh[d] # 0 /\ tokens[refresh[d]].used => Replacing(d))

Apart ==
    \A d, e \in Devices : Owned(d) \cap Owned(e) # {} \/ Slots(d) \cap Slots(e) # {} => d = e

\* A refresh at work is awaited, and no reuse was seen.
Served ==
    /\ \A q \in Requests : srv[q].step \in Burns => \E d \in Devices : Refreshing(d) /\ flight[d].at = q
    /\ \A q \in Requests : srv[q].op # "reuse"

Careful == Apart /\ Served /\ reused = {} /\ \A d \in Devices : Sound(d)

Alarmless == lost = 0 => Careful

\* A device that a step leaves alone.
SameHand(e) ==
    /\ flight'[e] = flight[e] /\ sign'[e] = sign[e] /\ refresh'[e] = refresh[e]
    /\ \A p \in Slots(e) : srv'[p] = srv[p]
    /\ \A t \in Owned(e) : tokens'[t].used = tokens[t].used

LEMMA HandKept ==
    ASSUME NEW e \in Devices, Sound(e), SameHand(e)
    PROVE  Sound(e)' /\ Owned(e)' = Owned(e) /\ Slots(e)' = Slots(e)
  <1>1. /\ Refreshing(e)' <=> Refreshing(e)
        /\ Awaiting(e)' <=> Awaiting(e)
        /\ flight'[e] = flight[e] /\ sign'[e] = sign[e] /\ refresh'[e] = refresh[e]
    BY DEF SameHand, Refreshing, Awaiting
  <1>2. Refreshing(e) => At(e)' = At(e)
    BY <1>1 DEF SameHand, Slots, At
  <1>3. Awaiting(e) => AtSign(e)' = AtSign(e)
    BY <1>1 DEF SameHand, Slots, AtSign
  <1>4. Slots(e)' = Slots(e)
    BY <1>1 DEF Slots
  <1>5. Paid(e)' = Paid(e) /\ Brought(e)' = Brought(e)
    BY <1>1, <1>2 DEF Paid, Brought
  <1>6. Signed(e)' = Signed(e)
    BY <1>1, <1>3 DEF Signed, Awaiting
  <1>7. Owned(e)' = Owned(e)
    BY <1>1, <1>5, <1>6 DEF Owned
  <1>8. Answered(e)'
    BY <1>1, <1>2, <1>3 DEF Sound, Answered, Awaiting
  <1>9. \A t \in Owned(e) : tokens'[t].used = tokens[t].used
    BY DEF SameHand
  <1>10. Refreshing(e) => flight[e].token \in Owned(e)
    BY DEF Sound, Answered, Owned, Paid
  <1>11. /\ refresh[e] # 0 => refresh[e] \in Owned(e)
         /\ Brought(e) # 0 => Brought(e) \in Owned(e)
         /\ Signed(e) # 0 => Signed(e) \in Owned(e)
    BY DEF Owned
  <1>12. Unspent(e)'
    BY <1>1, <1>2, <1>5, <1>6, <1>9, <1>10, <1>11 DEF Sound, Unspent
  <1>13. Replacing(e) => Replacing(e)'
    BY <1>1, <1>2 DEF Replacing
  <1>14. refresh'[e] # 0 /\ tokens'[refresh'[e]].used => Replacing(e)'
    BY <1>1, <1>9, <1>11, <1>13 DEF Sound
  <1> QED
    BY <1>4, <1>7, <1>8, <1>12, <1>14 DEF Sound

\* What a device owns was issued.
LEMMA OwnedIssued ==
    ASSUME Inv, NEW e \in Devices, Sound(e)
    PROVE  Owned(e) \subseteq Issued /\ Slots(e) \subseteq Requests
  <1>1. Slots(e) \subseteq Requests
    BY DEF Inv, Known, KnownToDevice, Slots, Refreshing, Awaiting
  <1>2. Paid(e) # 0 => Paid(e) \in Issued
    BY DEF Inv, Known, KnownToDevice, Paid
  <1>3. Brought(e) # 0 => Brought(e) \in Issued
    BY <1>1 DEF Inv, Known, KnownToDevice, KnownToServer, Brought, At, Slots, Refreshing, Answers
  <1>4. Signed(e) # 0 => Signed(e) \in Issued
    BY <1>1 DEF Inv, Known, KnownToDevice, KnownToServer, Signed, AtSign, Slots, Awaiting, Answers
  <1>5. refresh[e] # 0 => refresh[e] \in Issued
    BY DEF Inv, Known, KnownToDevice
  <1> QED
    BY <1>1, <1>2, <1>3, <1>4, <1>5 DEF Owned

\* A device that takes nothing another has, and a request that was free.
LEMMA StillApart ==
    ASSUME Inv, Careful, NEW d \in Devices, NEW new, NEW q,
           new \cap Issued = {}, \A e \in Devices \ {d} : q \notin Slots(e),
           \A e \in Devices \ {d} : Owned(e)' = Owned(e) /\ Slots(e)' = Slots(e),
           Owned(d)' \subseteq Owned(d) \cup new, Slots(d)' \subseteq Slots(d) \cup {q}
    PROVE  Apart'
  <1>1. \A e \in Devices : Owned(e) \subseteq Issued
    BY OwnedIssued DEF Careful
  <1>2. ASSUME NEW e \in Devices \ {d}
        PROVE  Owned(d)' \cap Owned(e)' = {} /\ Slots(d)' \cap Slots(e)' = {}
    <2>1. Owned(d) \cap Owned(e) = {} /\ Slots(d) \cap Slots(e) = {}
      BY <1>2 DEF Careful, Apart
    <2> QED
      BY <1>1, <1>2, <2>1
  <1>3. ASSUME NEW e \in Devices \ {d}, NEW f \in Devices \ {d}, e # f
        PROVE  Owned(e)' \cap Owned(f)' = {} /\ Slots(e)' \cap Slots(f)' = {}
    BY <1>3 DEF Careful, Apart
  <1> QED
    BY <1>2, <1>3 DEF Apart

LEMMA AllAlone ==
    ASSUME Careful, \A e \in Devices : SameHand(e), Served', reused' = {}
    PROVE  Careful'
  <1>1. \A e \in Devices : Sound(e)' /\ Owned(e)' = Owned(e) /\ Slots(e)' = Slots(e)
    BY HandKept DEF Careful
  <1>2. Apart'
    BY <1>1 DEF Careful, Apart
  <1> QED
    BY <1>1, <1>2 DEF Careful

\* Whoever waits for q is the only one.
LEMMA OneWaits ==
    ASSUME Careful, NEW q, NEW d \in Devices, q \in Slots(d)
    PROVE  \A e \in Devices \ {d} : q \notin Slots(e)
  BY DEF Careful, Apart

-----------------------------------------------------------------------------
(* The server's steps.                                                     *)

\* Nobody waits, or one device, for one thing.
LEMMA Waiting ==
    ASSUME Inv, Careful, NEW q \in Requests, srv[q].step \notin Answers
    PROVE  /\ srv[q].step = "idle" => \A e \in Devices : q \notin Slots(e)
           /\ \A d \in Devices : q \in Slots(d) =>
                \/ /\ Refreshing(d) /\ flight[d].at = q /\ srv[q].step \in Burns
                   /\ ~(Awaiting(d) /\ sign[d].at = q)
                \/ /\ sign[d].step = "login" /\ sign[d].at = q /\ srv[q].step \in Logins
                   /\ ~(Refreshing(d) /\ flight[d].at = q)
                \/ /\ sign[d].step = "logout" /\ sign[d].at = q /\ srv[q].step \in Revokes
                   /\ ~(Refreshing(d) /\ flight[d].at = q)
           /\ \A d \in Devices : q \in Slots(d) => d \in AwaitedBy(q)
  <1>1. ASSUME NEW d \in Devices, q \in Slots(d)
        PROVE  \/ /\ Refreshing(d) /\ flight[d].at = q /\ srv[q].step \in Burns
                  /\ ~(Awaiting(d) /\ sign[d].at = q)
               \/ /\ sign[d].step = "login" /\ sign[d].at = q /\ srv[q].step \in Logins
                  /\ ~(Refreshing(d) /\ flight[d].at = q)
               \/ /\ sign[d].step = "logout" /\ sign[d].at = q /\ srv[q].step \in Revokes
                  /\ ~(Refreshing(d) /\ flight[d].at = q)
    <2>1. Answered(d)
      BY DEF Careful, Sound
    <2>2. CASE Refreshing(d) /\ flight[d].at = q
      BY <2>1, <2>2 DEF Answered, At
    <2>3. CASE Awaiting(d) /\ sign[d].at = q
      BY <2>1, <2>3 DEF Answered, AtSign, Awaiting
    <2> QED
      BY <1>1, <2>2, <2>3 DEF Slots
  <1>2. ASSUME NEW d \in Devices, q \in Slots(d) PROVE d \in AwaitedBy(q)
    BY <1>2 DEF Slots, Refreshing, Awaiting, AwaitedBy
  <1>3. srv[q].step = "idle" => \A e \in Devices : q \notin Slots(e)
    BY <1>1 DEF Burns, Logins, Revokes
  <1> QED
    BY <1>1, <1>2, <1>3

\* A step of the server at work for q that burns nothing and issues nothing.
Works(q) ==
    /\ UNCHANGED <<device, reused>>
    /\ \A p \in Requests \ {q} : srv'[p] = srv[p]
    /\ \A t \in Issued : tokens'[t].used = tokens[t].used
    /\ srv[q].step \notin Answers
    /\ srv'[q].op # "reuse"
    /\ srv'[q].step \in Burns => srv[q].step \in Burns /\ srv'[q].token = srv[q].token
    /\ AwaitedBy(q) # {} =>
        /\ srv[q].step \in Burns => srv'[q].step \in Burns \cup {"busy", "refused"}
        /\ srv[q].step \in Logins => srv'[q].step \in Logins \cup {"busy", "refused"}
        /\ srv[q].step \in Revokes => srv'[q].step \in Revokes \cup Answers

LEMMA WorksCareful == ASSUME Inv, Careful, NEW q \in Requests, Works(q) PROVE Careful'
  <1>1. UNCHANGED <<flight, sign, refresh>> /\ UNCHANGED reused
    BY DEF Works, device
  <1>2. \A e \in Devices : Owned(e) \subseteq Issued /\ Slots(e) \subseteq Requests
    BY OwnedIssued DEF Careful
  <1>3. \A e \in Devices : q \notin Slots(e) => SameHand(e)
    BY <1>1, <1>2 DEF Works, SameHand
  <1>4. Served'
    <2>1. ASSUME NEW p \in Requests, srv'[p].step \in Burns
          PROVE  \E d \in Devices : (Refreshing(d) /\ flight[d].at = p)'
      <3>1. srv[p].step \in Burns
        BY <2>1 DEF Works
      <3> QED
        BY <1>1, <3>1 DEF Careful, Served, Refreshing
    <2>2. \A p \in Requests : srv'[p].op # "reuse"
      BY DEF Works, Careful, Served
    <2> QED
      BY <2>1, <2>2 DEF Served
  <1>5. CASE \A e \in Devices : q \notin Slots(e)
    BY <1>1, <1>3, <1>4, <1>5, AllAlone DEF Careful
  <1>6. ASSUME NEW d \in Devices, q \in Slots(d) PROVE Careful'
    <2>1. \A e \in Devices \ {d} : SameHand(e)
      BY <1>3, <1>6, OneWaits
    <2>2. \A e \in Devices \ {d} : Sound(e)' /\ Owned(e)' = Owned(e) /\ Slots(e)' = Slots(e)
      BY <2>1, HandKept DEF Careful
    <2>3. /\ Refreshing(d)' <=> Refreshing(d)
          /\ Awaiting(d)' <=> Awaiting(d)
          /\ Slots(d)' = Slots(d) /\ Paid(d)' = Paid(d)
      BY <1>1 DEF Refreshing, Awaiting, Slots, Paid
    <2>4. \A t \in Owned(d) : tokens'[t].used = tokens[t].used
      BY <1>2 DEF Works
    <2>5. Sound(d) /\ AwaitedBy(q) # {} /\ srv[q].step \notin Answers
      BY <1>6, Waiting DEF Careful, Works
    <2>6. /\ refresh[d] # 0 => refresh[d] \in Owned(d)
          /\ Brought(d) # 0 => Brought(d) \in Owned(d)
          /\ Signed(d) # 0 => Signed(d) \in Owned(d)
          /\ Refreshing(d) => flight[d].token \in Owned(d)
      BY <2>5 DEF Owned, Paid, Sound, Answered
    <2>7. CASE Refreshing(d) /\ flight[d].at = q /\ srv[q].step \in Burns /\ ~(Awaiting(d) /\ sign[d].at = q)
      <3>1. At(d) = srv[q] /\ At(d)' = srv'[q]
        BY <1>1, <2>7 DEF At
      <3>2. Awaiting(d) => AtSign(d)' = AtSign(d)
        BY <1>1, <1>2, <2>7 DEF Works, AtSign, Slots
      <3>3. srv'[q].step \in Burns \cup {"busy", "refused"}
        BY <2>5, <2>7 DEF Works
      <3>4. Signed(d)' = Signed(d)
        BY <1>1, <3>2 DEF Signed, Awaiting
      <3>5. Brought(d)' = 0 /\ Brought(d) = 0
        BY <2>3, <2>7, <3>1, <3>3 DEF Brought, Burns
      <3>6. Owned(d)' = Owned(d)
        BY <1>1, <2>3, <3>4, <3>5 DEF Owned
      <3>7. Answered(d)'
        BY <1>1, <2>3, <2>5, <2>7, <3>1, <3>2, <3>3 DEF Sound, Answered, Works, Awaiting, Answers
      <3>8. Unspent(d)'
        BY <1>1, <2>3, <2>4, <2>5, <2>6, <2>7, <3>1, <3>4, <3>5 DEF Sound, Unspent
      <3>9. ~Replacing(d)
        BY <2>7, <3>1 DEF Replacing, Refreshing, Burns
      <3>10. Sound(d)'
        BY <1>1, <2>4, <2>5, <2>6, <3>7, <3>8, <3>9 DEF Sound
      <3>11. Apart'
        BY <2>2, <2>3, <3>6 DEF Careful, Apart
      <3> QED
        BY <1>1, <1>4, <2>2, <3>10, <3>11 DEF Careful
    <2>8. CASE /\ Awaiting(d) /\ sign[d].at = q /\ ~(Refreshing(d) /\ flight[d].at = q)
               /\ (sign[d].step = "login" => srv[q].step \in Logins)
               /\ (sign[d].step = "logout" => srv[q].step \in Revokes)
      <3>1. AtSign(d) = srv[q] /\ AtSign(d)' = srv'[q]
        BY <1>1, <2>8 DEF AtSign
      <3>2. Refreshing(d) => At(d)' = At(d)
        BY <1>1, <1>2, <2>8 DEF Works, At, Slots
      <3>3. /\ sign[d].step = "login" => srv'[q].step \in Logins \cup {"busy", "refused"}
            /\ sign[d].step = "logout" => srv'[q].step \in Revokes \cup Answers
        BY <2>5, <2>8 DEF Works
      <3>4. Signed(d)' = 0 /\ Signed(d) = 0
        BY <1>1, <2>8, <3>1, <3>3 DEF Signed, Awaiting, Logins
      <3>5. Brought(d)' = Brought(d)
        BY <1>1, <2>3, <3>2 DEF Brought
      <3>6. Owned(d)' = Owned(d)
        BY <1>1, <2>3, <3>4, <3>5 DEF Owned
      <3>7. Answered(d)'
        BY <1>1, <2>3, <2>5, <2>8, <3>1, <3>2, <3>3 DEF Sound, Answered, Awaiting, Answers
      <3>8. Unspent(d)'
        BY <1>1, <2>3, <2>4, <2>5, <2>6, <3>2, <3>4, <3>5 DEF Sound, Unspent
      <3>9. Replacing(d) => Replacing(d)'
        BY <1>1, <2>3, <3>2 DEF Replacing
      <3>10. Sound(d)'
        BY <1>1, <2>4, <2>5, <2>6, <3>7, <3>8, <3>9 DEF Sound
      <3>11. Apart'
        BY <2>2, <2>3, <3>6 DEF Careful, Apart
      <3> QED
        BY <1>1, <1>4, <2>2, <3>10, <3>11 DEF Careful
    <2> QED
      BY <1>6, <2>5, <2>7, <2>8, Waiting DEF Awaiting
  <1> QED
    BY <1>5, <1>6

LEMMA ReplyWorks ==
    ASSUME Inv, Careful, NEW q \in Requests, NEW kind \in Answers, Reply(q, kind, 0),
           UNCHANGED <<device, reused>>, \A t \in Issued : tokens'[t].used = tokens[t].used,
           srv[q].step \notin Answers, kind = "ok" => srv[q].step \in Revokes
    PROVE  Works(q)
  <1>1. /\ \A p \in Requests \ {q} : srv'[p] = srv[p]
        /\ srv'[q] = IF AwaitedBy(q) = {} THEN Idle ELSE Answer(kind, 0)
    BY DEF Reply, Inv, TypeOK
  <1>2. Idle.step = "idle" /\ Idle.op = "none" /\ Answer(kind, 0).step = kind /\ Answer(kind, 0).op = "none"
    BY DEF Idle, Answer
  <1>3. srv'[q].op # "reuse" /\ srv'[q].step \notin Burns
    BY <1>1, <1>2 DEF Burns, Answers
  <1>4. AwaitedBy(q) # {} => srv'[q].step = kind
    BY <1>1, <1>2
  <1>5. kind \in {"busy", "refused"} \/ srv[q].step \in Revokes
    BY DEF Answers
  <1> QED
    BY <1>1, <1>3, <1>4, <1>5 DEF Works, Burns, Logins, Revokes

\* A step that goes on.
LEMMA GoesWorks ==
    ASSUME Inv, Careful, NEW q \in Requests, NEW x \in Services, srv' = [srv EXCEPT ![q] = x],
           UNCHANGED <<device, reused>>, UNCHANGED tokens,
           x.op # "reuse",
           \/ srv[q].step \in Burns /\ x.step \in Burns /\ x.token = srv[q].token
           \/ srv[q].step \in Logins /\ x.step \in Logins
           \/ srv[q].step \in Revokes /\ x.step \in Revokes
    PROVE  Works(q)
  <1>1. srv'[q] = x /\ \A p \in Requests \ {q} : srv'[p] = srv[p]
    BY DEF Inv, TypeOK
  <1> QED
    BY <1>1 DEF Works, Burns, Logins, Revokes, Answers

\* A token that is being looked at or burned was never used.
LEMMA Unused ==
    ASSUME Inv, Careful, NEW q \in Requests, srv[q].step \in Burns
    PROVE  \E d \in Devices :
               /\ Refreshing(d) /\ flight[d].at = q /\ At(d) = srv[q] /\ q \in Slots(d)
               /\ flight[d].token = srv[q].token /\ srv[q].token # 0 /\ ~tokens[srv[q].token].used
  <1>1. PICK d \in Devices : Refreshing(d) /\ flight[d].at = q
    BY DEF Careful, Served
  <1>2. At(d) = srv[q] /\ q \in Slots(d) /\ Answered(d) /\ Unspent(d)
    BY <1>1 DEF At, Slots, Careful, Sound
  <1> QED
    BY <1>1, <1>2 DEF Answered, Unspent

LEMMA TableWorks ==
    ASSUME Inv, Careful, NEW q \in Requests, UNCHANGED device,
           Burn(q) \/ Rollback(q) \/ Look(q) \/ Find(q) \/ Revoke(q) \/ Spent(q) \/ Verify(q) \/ Restore(q)
             \/ TurnAway(q)
    PROVE  Works(q)
  <1>1. srv[q] \in Services /\ srv[q].op # "reuse" /\ {"busy", "refused", "ok"} \subseteq Answers
    BY DEF Inv, TypeOK, Answers, Careful, Served
  <1>2. CASE Burn(q)
    <2>1. PICK step \in {"issue", "look"} : srv' = [srv EXCEPT ![q].step = step]
      BY <1>2 DEF Burn
    <2> DEFINE x == [srv[q] EXCEPT !.step = step]
    <2>2. x \in Services /\ x.op = srv[q].op /\ x.step = step /\ x.token = srv[q].token /\ srv' = [srv EXCEPT ![q] = x]
      BY <1>1, <2>1 DEF Services
    <2>3. srv[q].step \in Burns /\ step \in Burns /\ UNCHANGED <<tokens, reused>>
      BY <1>2 DEF Burn, Burns
    <2> HIDE DEF x
    <2> QED
      BY <1>1, <2>2, <2>3, GoesWorks
  <1>3. CASE Rollback(q)
    BY <1>1, <1>3, ReplyWorks DEF Rollback, Answers
  <1>4. CASE Look(q)
    <2>1. srv[q].step = "look" /\ UNCHANGED <<tokens, reused>>
      BY <1>4 DEF Look, server
    <2>2. ~tokens[srv[q].token].used
      BY <2>1, Unused DEF Burns
    <2>3. Reply(q, "refused", 0)
      BY <1>4, <2>2 DEF Look
    <2> QED
      BY <1>1, <2>1, <2>3, ReplyWorks DEF Answers
  <1>5. CASE Find(q)
    <2>1. srv[q].step = "find" /\ UNCHANGED <<tokens, reused>>
      BY <1>5 DEF Find, server
    <2>2. CASE Reply(q, "refused", 0)
      BY <1>1, <2>1, <2>2, ReplyWorks DEF Answers
    <2>3. CASE srv' = [srv EXCEPT ![q].step = "revoke", ![q].todo = Seen(q)]
      <3>1. Seen(q) \subseteq Tokens
        BY Table DEF Seen, Family, Inv
      <3> DEFINE x == [srv[q] EXCEPT !.step = "revoke", !.todo = Seen(q)]
      <3>2. x \in Services /\ x.op = srv[q].op /\ x.step = "revoke"
        BY <1>1, <3>1 DEF Services
      <3>3. srv' = [srv EXCEPT ![q] = x]
        BY <1>1, <2>3 DEF Inv, TypeOK
      <3> HIDE DEF x
      <3> QED
        BY <1>1, <2>1, <3>2, <3>3, GoesWorks DEF Revokes
    <2> QED
      BY <1>5, <2>2, <2>3 DEF Find
  <1>6. CASE Revoke(q)
    <2>1. srv[q].step = "revoke" /\ UNCHANGED reused /\ Reply(q, "ok", 0)
      BY <1>1, <1>6 DEF Revoke
    <2>2. \A t \in Issued : tokens'[t].used = tokens[t].used
      <3> TAKE t \in Issued
      <3>1. tokens[t] \in Rows
        BY Table DEF Inv
      <3>2. tokens'[t] = tokens[t] \/ tokens'[t] = [tokens[t] EXCEPT !.revoked = TRUE]
        BY <1>6 DEF Revoke
      <3>3. [tokens[t] EXCEPT !.revoked = TRUE].used = tokens[t].used
        BY <3>1 DEF Rows
      <3> QED
        BY <3>2, <3>3
    <2> QED
      BY <1>1, <2>1, <2>2, ReplyWorks DEF Revokes, Answers
  <1>7. CASE Spent(q)
    BY <1>1, <1>7, ReplyWorks DEF Spent, server, Answers
  <1>8. CASE TurnAway(q)
    BY <1>1, <1>8, ReplyWorks DEF TurnAway, server, Answers
  <1>9. CASE Verify(q)
    <2>1. PICK step \in {"restore", "insert"} : srv' = [srv EXCEPT ![q].step = step, ![q].token = password]
      BY <1>9 DEF Verify
    <2> DEFINE x == [srv[q] EXCEPT !.step = step, !.token = password]
    <2>2. x \in Services /\ x.op = srv[q].op /\ x.step = step
      <3>1. password \in 0 .. MaxTokens
        BY SessionsAssumption DEF Inv, TypeOK, TableTypes
      <3> QED
        BY <1>1, <3>1 DEF Services
    <2>3. srv' = [srv EXCEPT ![q] = x]
      BY <1>1, <2>1 DEF Inv, TypeOK
    <2>4. srv[q].step \in Logins /\ step \in Logins /\ UNCHANGED <<tokens, reused>>
      BY <1>9 DEF Verify, Logins, server
    <2> HIDE DEF x
    <2> QED
      BY <1>1, <2>2, <2>3, <2>4, GoesWorks
  <1>10. CASE Restore(q)
    <2>1. srv[q].step = "restore" /\ UNCHANGED <<tokens, reused>>
      BY <1>10 DEF Restore
    <2>2. CASE Reply(q, "refused", 0)
      BY <1>1, <2>1, <2>2, ReplyWorks DEF Answers
    <2>3. CASE srv' = [srv EXCEPT ![q].step = "insert"]
      <3> DEFINE x == [srv[q] EXCEPT !.step = "insert"]
      <3>1. x \in Services /\ x.op = srv[q].op /\ x.step = "insert" /\ srv' = [srv EXCEPT ![q] = x]
        BY <1>1, <2>3 DEF Services
      <3> HIDE DEF x
      <3> QED
        BY <1>1, <2>1, <3>1, GoesWorks DEF Logins
    <2> QED
      BY <1>10, <2>2, <2>3 DEF Restore
  <1> QED
    BY <1>2, <1>3, <1>4, <1>5, <1>6, <1>7, <1>8, <1>9, <1>10

\* A refresh that succeeds burns the device's own token and brings a new one.
LEMMA IssueCareful == ASSUME Inv, Careful, NEW q \in Requests, Issue(q), UNCHANGED device PROVE Careful'
  <1>1. UNCHANGED <<flight, sign, refresh, reused>>
    BY DEF Issue, device
  <1>2. PICK n : n = Len(tokens) + 1
    OBVIOUS
  <1>3. srv[q].step = "issue" /\ Reply(q, "ok", n)
    BY <1>2 DEF Issue
  <1>4. PICK d \in Devices :
            /\ Refreshing(d) /\ flight[d].at = q /\ At(d) = srv[q] /\ q \in Slots(d)
            /\ flight[d].token = srv[q].token /\ srv[q].token # 0
    BY <1>3, Unused DEF Burns
  <1>5. PICK t : t = srv[q].token
    OBVIOUS
  <1>6. /\ t \in Issued /\ n \notin Issued /\ n # 0
        /\ \A s \in Issued \ {t} : tokens'[s].used = tokens[s].used
        /\ tokens'[n].used = FALSE
    <2>1. /\ t \in Issued
          /\ \A s \in Issued \ {t} : tokens'[s] = tokens[s]
          /\ tokens'[n] = [family |-> tokens[t].family, used |-> FALSE, revoked |-> FALSE,
                           password |-> tokens[t].password]
      BY <1>2, <1>5, IssueTable DEF Inv
    <2>2. Issued = 1 .. Len(tokens) /\ Len(tokens) \in Nat
      BY Table DEF Inv
    <2>3. n \notin Issued /\ n # 0
      BY <1>2, <2>2
    <2> QED
      BY <2>1, <2>3
  <1>7. Sound(d) /\ d \in AwaitedBy(q)
    BY <1>3, <1>4, Waiting DEF Careful, Answers
  <1>8. /\ \A p \in Requests \ {q} : srv'[p] = srv[p]
        /\ srv'[q].step = "ok" /\ srv'[q].op = "none" /\ srv'[q].token = n
    <2>1. srv'[q] = Answer("ok", n) /\ \A p \in Requests \ {q} : srv'[p] = srv[p]
      BY <1>3, <1>7 DEF Reply, Inv, TypeOK
    <2> QED
      BY <2>1 DEF Answer
  <1>9. \A e \in Devices : Owned(e) \subseteq Issued /\ Slots(e) \subseteq Requests
    BY OwnedIssued DEF Careful
  <1>10. Paid(d) = t /\ t \in Owned(d) /\ Brought(d) = 0
    BY <1>3, <1>4, <1>5 DEF Paid, Owned, Brought
  <1>11. ASSUME NEW e \in Devices \ {d} PROVE SameHand(e)
    <2>1. q \notin Slots(e)
      BY <1>4, <1>11, OneWaits
    <2>2. t \notin Owned(e)
      BY <1>10, <1>11 DEF Careful, Apart
    <2> QED
      BY <1>1, <1>6, <1>8, <1>9, <2>1, <2>2 DEF SameHand
  <1>12. \A e \in Devices \ {d} : Sound(e)' /\ Owned(e)' = Owned(e) /\ Slots(e)' = Slots(e)
    BY <1>11, HandKept DEF Careful
  <1>13. /\ Refreshing(d)' <=> Refreshing(d)
         /\ Awaiting(d)' <=> Awaiting(d)
         /\ Slots(d)' = Slots(d) /\ Paid(d)' = t
    BY <1>1, <1>10 DEF Refreshing, Awaiting, Slots, Paid
  <1>14. At(d)' = srv'[q]
    BY <1>1, <1>4 DEF At
  <1>15. Awaiting(d) => AtSign(d)' = AtSign(d)
    BY <1>1, <1>4, <1>7, <1>8, <1>9 DEF AtSign, Slots, Sound, Answered
  <1>16. Signed(d)' = Signed(d) /\ Brought(d)' = n
    BY <1>1, <1>4, <1>8, <1>13, <1>14, <1>15 DEF Signed, Awaiting, Brought
  <1>17. Owned(d)' \subseteq Owned(d) \cup {n}
    BY <1>1, <1>10, <1>13, <1>16 DEF Owned
  <1>18. Answered(d)'
    BY <1>1, <1>4, <1>7, <1>8, <1>13, <1>14, <1>15 DEF Sound, Answered, Awaiting, Answers, Burns
  <1>19. Signed(d) # 0 => Signed(d) \in Issued /\ Signed(d) # t
    BY <1>7, <1>9, <1>10 DEF Owned, Sound, Unspent
  <1>20. refresh[d] # 0 => refresh[d] \in Issued
    BY <1>9 DEF Owned
  <1>21. Unspent(d)'
    <2>1. ~tokens'[n].used /\ n \notin {refresh[d], t, Signed(d)}
      BY <1>6, <1>19, <1>20
    <2>2. Signed(d) # 0 => ~tokens'[Signed(d)].used /\ Signed(d) \notin {refresh[d], t}
      BY <1>6, <1>7, <1>19 DEF Sound, Unspent
    <2> QED
      BY <1>1, <1>8, <1>13, <1>14, <1>16, <2>1, <2>2 DEF Unspent, Burns
  <1>22. Replacing(d)'
    BY <1>4, <1>8, <1>13, <1>14 DEF Replacing
  <1>23. Sound(d)'
    BY <1>18, <1>21, <1>22 DEF Sound
  <1>24. Apart'
    <2>1. {n} \cap Issued = {} /\ \A e \in Devices \ {d} : q \notin Slots(e)
      BY <1>4, <1>6, OneWaits
    <2>2. \A e \in Devices \ {d} : Owned(e)' = Owned(e) /\ Slots(e)' = Slots(e)
      BY <1>12
    <2>3. Slots(d)' \subseteq Slots(d) \cup {q}
      BY <1>13
    <2> QED
      BY <1>17, <2>1, <2>2, <2>3, StillApart, Zenon
  <1>25. Served'
    <2>1. ASSUME NEW p \in Requests, srv'[p].step \in Burns
          PROVE  \E e \in Devices : (Refreshing(e) /\ flight[e].at = p)'
      <3>1. srv[p].step \in Burns
        BY <1>8, <2>1 DEF Burns
      <3> QED
        BY <1>1, <3>1 DEF Careful, Served, Refreshing
    <2>2. \A p \in Requests : srv'[p].op # "reuse"
      BY <1>8 DEF Careful, Served
    <2> QED
      BY <2>1, <2>2 DEF Served
  <1> QED
    BY <1>1, <1>12, <1>23, <1>24, <1>25 DEF Careful

LEMMA InsertCareful == ASSUME Inv, Careful, NEW q \in Requests, Insert(q), UNCHANGED device PROVE Careful'
  <1>1. UNCHANGED <<flight, sign, refresh, reused>>
    BY DEF Insert, device
  <1>2. PICK n : n = Len(tokens) + 1
    OBVIOUS
  <1>3. srv[q].step = "insert" /\ Reply(q, "ok", n)
    BY <1>2 DEF Insert
  <1>4. /\ n \notin Issued /\ n # 0
        /\ \A s \in Issued : tokens'[s].used = tokens[s].used
        /\ tokens'[n].used = FALSE
    <2>1. srv[q].token \in {0, 1}
      BY <1>3 DEF Inv, Known, KnownToServer, OfPassword
    <2>2. /\ \A s \in Issued : tokens'[s] = tokens[s]
          /\ tokens'[n] = [family |-> n, used |-> FALSE, revoked |-> FALSE, password |-> srv[q].token]
      BY <1>2, <2>1, InsertTable, Table DEF Inv
    <2>3. Issued = 1 .. Len(tokens) /\ Len(tokens) \in Nat
      BY Table DEF Inv
    <2>4. n \notin Issued /\ n # 0
      BY <1>2, <2>3
    <2> QED
      BY <2>2, <2>4
  <1>5. /\ \A p \in Requests \ {q} : srv'[p] = srv[p]
        /\ srv'[q] = IF AwaitedBy(q) = {} THEN Idle ELSE Answer("ok", n)
    BY <1>3 DEF Reply, Inv, TypeOK
  <1>6. /\ srv'[q].op = "none" /\ srv'[q].step \in {"idle", "ok"}
        /\ AwaitedBy(q) # {} => srv'[q].step = "ok" /\ srv'[q].token = n
    BY <1>5 DEF Idle, Answer
  <1>7. \A e \in Devices : Owned(e) \subseteq Issued /\ Slots(e) \subseteq Requests
    BY OwnedIssued DEF Careful
  <1>8. \A e \in Devices : q \notin Slots(e) => SameHand(e)
    BY <1>1, <1>4, <1>5, <1>7 DEF SameHand
  <1>9. Served'
    <2>1. ASSUME NEW p \in Requests, srv'[p].step \in Burns
          PROVE  \E e \in Devices : (Refreshing(e) /\ flight[e].at = p)'
      <3>1. srv[p].step \in Burns
        BY <1>5, <1>6, <2>1 DEF Burns
      <3> QED
        BY <1>1, <3>1 DEF Careful, Served, Refreshing
    <2>2. \A p \in Requests : srv'[p].op # "reuse"
      BY <1>5, <1>6 DEF Careful, Served
    <2> QED
      BY <2>1, <2>2 DEF Served
  <1>10. CASE \A e \in Devices : q \notin Slots(e)
    BY <1>1, <1>8, <1>9, <1>10, AllAlone DEF Careful
  <1>11. ASSUME NEW d \in Devices, q \in Slots(d) PROVE Careful'
    <2>1. /\ sign[d].step = "login" /\ sign[d].at = q /\ ~(Refreshing(d) /\ flight[d].at = q)
          /\ Sound(d) /\ d \in AwaitedBy(q)
      BY <1>3, <1>11, Waiting DEF Careful, Answers, Burns, Revokes
    <2>2. \A e \in Devices \ {d} : Sound(e)' /\ Owned(e)' = Owned(e) /\ Slots(e)' = Slots(e)
      BY <1>8, <1>11, OneWaits, HandKept DEF Careful
    <2>3. /\ Refreshing(d)' <=> Refreshing(d)
          /\ Awaiting(d)' <=> Awaiting(d)
          /\ Slots(d)' = Slots(d) /\ Paid(d)' = Paid(d)
      BY <1>1 DEF Refreshing, Awaiting, Slots, Paid
    <2>4. AtSign(d)' = srv'[q] /\ AtSign(d) = srv[q]
      BY <1>1, <2>1 DEF AtSign
    <2>5. Refreshing(d) => At(d)' = At(d)
      BY <1>1, <1>5, <1>7, <2>1 DEF At, Slots
    <2>6. Signed(d)' = n /\ Signed(d) = 0 /\ Brought(d)' = Brought(d)
      BY <1>1, <1>3, <1>6, <2>1, <2>3, <2>4, <2>5 DEF Signed, Brought
    <2>7. Owned(d)' \subseteq Owned(d) \cup {n}
      BY <1>1, <2>3, <2>6 DEF Owned
    <2>8. Answered(d)'
      BY <1>1, <1>6, <2>1, <2>3, <2>4, <2>5 DEF Sound, Answered, Awaiting, Answers
    <2>9. /\ refresh[d] # 0 => refresh[d] \in Issued
          /\ Brought(d) # 0 => Brought(d) \in Issued
          /\ Refreshing(d) => flight[d].token \in Issued
          /\ Paid(d) # n
      BY <1>4, <1>7, <2>1 DEF Owned, Paid, Sound, Answered
    <2>10. Unspent(d)'
      <3>1. Brought(d) # 0 => ~tokens'[Brought(d)].used /\ Brought(d) \notin {refresh[d], Paid(d), n}
        BY <1>4, <2>1, <2>9 DEF Sound, Unspent
      <3>2. ~tokens'[n].used /\ n \notin {refresh[d], Paid(d)}
        BY <1>4, <2>9
      <3>3. Refreshing(d) /\ At(d).step \in Burns \cup {"busy"} => ~tokens'[flight[d].token].used
        BY <1>4, <2>1, <2>9 DEF Sound, Unspent
      <3> QED
        BY <1>1, <2>3, <2>5, <2>6, <3>1, <3>2, <3>3 DEF Unspent
    <2>11. Replacing(d) => Replacing(d)'
      BY <1>1, <2>3, <2>5 DEF Replacing
    <2>12. Sound(d)'
      BY <1>1, <1>4, <2>1, <2>8, <2>9, <2>10, <2>11 DEF Sound
    <2>13. Apart'
      <3>1. {n} \cap Issued = {} /\ \A e \in Devices \ {d} : q \notin Slots(e)
        BY <1>4, <1>11, OneWaits
      <3>2. \A e \in Devices \ {d} : Owned(e)' = Owned(e) /\ Slots(e)' = Slots(e)
        BY <2>2
      <3>3. Slots(d)' \subseteq Slots(d) \cup {q}
        BY <2>3
      <3> QED
        BY <2>7, <3>1, <3>2, <3>3, StillApart, Zenon
    <2> QED
      BY <1>1, <1>9, <2>2, <2>12, <2>13 DEF Careful
  <1> QED
    BY <1>10, <1>11

LEMMA RemoteCareful ==
    ASSUME Inv, Careful, NEW q \in Requests, NEW op \in Remote, NEW t \in Issued, AskRemotely(q, op, t)
    PROVE  Careful'
  <1>1. UNCHANGED <<flight, sign, refresh, tokens, reused>> /\ srv[q] = Idle /\ AskServer(q, op, t)
    BY DEF AskRemotely, device, server, Free
  <1>2. t \in 0 .. MaxTokens /\ op \in {"revoke", "all", "reset", "delete"}
    BY Table, SessionsAssumption DEF Inv, Tokens
  <1>3. \A p \in Requests \ {q} : srv'[p] = srv[p]
    BY <1>2, Asking, <1>1 DEF Inv, TypeOK
  <1>4. srv'[q].op = op /\ srv'[q].step = "find"
    BY <1>1, <1>2 DEF AskServer, Inv, TypeOK
  <1>5. srv[q].step = "idle"
    BY <1>1 DEF Idle
  <1>6. \A e \in Devices : q \notin Slots(e) /\ Slots(e) \subseteq Requests
    BY <1>5, Waiting, OwnedIssued DEF Answers, Careful
  <1>7. \A e \in Devices : SameHand(e)
    BY <1>1, <1>3, <1>6 DEF SameHand
  <1>8. Served'
    <2>1. ASSUME NEW p \in Requests, srv'[p].step \in Burns
          PROVE  \E e \in Devices : (Refreshing(e) /\ flight[e].at = p)'
      <3>1. srv[p].step \in Burns
        BY <1>3, <1>4, <2>1 DEF Burns
      <3> QED
        BY <1>1, <3>1 DEF Careful, Served, Refreshing
    <2>2. \A p \in Requests : srv'[p].op # "reuse"
      BY <1>2, <1>3, <1>4 DEF Careful, Served
    <2> QED
      BY <2>1, <2>2 DEF Served
  <1> QED
    BY <1>1, <1>7, <1>8, AllAlone DEF Careful

-----------------------------------------------------------------------------
(* The device's steps.                                                     *)

\* A step of one device, which asks or hears of one request at most.
LEMMA HandStep ==
    ASSUME Inv, Careful, NEW d \in Devices, NEW q,
           UNCHANGED <<tokens, reused>>,
           \A e \in Devices \ {d} : flight'[e] = flight[e] /\ sign'[e] = sign[e] /\ refresh'[e] = refresh[e],
           \A p \in Requests \ {q} : srv'[p] = srv[p],
           \A e \in Devices \ {d} : q \notin Slots(e),
           Owned(d)' \subseteq Owned(d), Slots(d)' \subseteq Slots(d) \cup {q},
           Sound(d)', Served'
    PROVE  Careful'
  <1>1. \A e \in Devices : Slots(e) \subseteq Requests
    BY OwnedIssued DEF Careful
  <1>2. \A e \in Devices \ {d} : SameHand(e)
    BY <1>1 DEF SameHand
  <1>3. \A e \in Devices \ {d} : Sound(e)' /\ Owned(e)' = Owned(e) /\ Slots(e)' = Slots(e)
    BY <1>2, HandKept DEF Careful
  <1>4. Apart'
    <2>1. {} \cap Issued = {} /\ Owned(d)' \subseteq Owned(d) \cup {}
      OBVIOUS
    <2>2. \A e \in Devices \ {d} : Owned(e)' = Owned(e) /\ Slots(e)' = Slots(e)
      BY <1>3
    <2> QED
      BY <2>1, <2>2, StillApart, Zenon
  <1> QED
    BY <1>3, <1>4 DEF Careful

\* Of a device that asks nothing of the server: no slot is freed or taken.
LEMMA AloneStep ==
    ASSUME Inv, Careful, NEW d \in Devices,
           UNCHANGED <<tokens, reused, srv>>,
           \A e \in Devices \ {d} : flight'[e] = flight[e] /\ sign'[e] = sign[e] /\ refresh'[e] = refresh[e],
           Refreshing(d)' <=> Refreshing(d), Refreshing(d) => flight'[d] = flight[d],
           Owned(d)' \subseteq Owned(d), Slots(d)' \subseteq Slots(d),
           Sound(d)'
    PROVE  Careful'
  <1>1. Served'
    <2>1. ASSUME NEW p \in Requests, srv'[p].step \in Burns
          PROVE  \E e \in Devices : (Refreshing(e) /\ flight[e].at = p)'
      <3>1. PICK e \in Devices : Refreshing(e) /\ flight[e].at = p
        BY <2>1 DEF Careful, Served
      <3>2. Refreshing(e)' /\ flight'[e] = flight[e]
        BY <3>1 DEF Refreshing
      <3> QED
        BY <3>1, <3>2
    <2> QED
      BY <2>1 DEF Careful, Served
  <1>2. Nobody \notin Requests /\ \A e \in Devices \ {d} : Nobody \notin Slots(e)
    BY SessionsAssumption, OwnedIssued DEF Careful
  <1>3. \A p \in Requests \ {Nobody} : srv'[p] = srv[p]
    OBVIOUS
  <1>4. Slots(d)' \subseteq Slots(d) \cup {Nobody}
    OBVIOUS
  <1> QED
    BY <1>1, <1>2, <1>3, <1>4, HandStep

\* No device's tokens change.
LEMMA StillCareful ==
    ASSUME Careful, UNCHANGED <<tokens, reused, srv, flight, sign, refresh>>
    PROVE  Careful'
  <1>1. \A e \in Devices : SameHand(e)
    BY DEF SameHand
  <1>2. Served'
    BY DEF Careful, Served, Refreshing
  <1> QED
    BY <1>1, <1>2, AllAlone DEF Careful

\* A call that has a refresh started for it.
LEMMA JoinCareful == ASSUME Inv, Careful, NEW c \in Callers, Join(c) PROVE Careful'
  <1>1. PICK d \in Devices : d = caller[c].by
    BY DEF Inv, TypeOK, DeviceTypes, Calls
  <1>2. UNCHANGED <<tokens, reused, srv, sign, refresh>>
        /\ flight' = [flight EXCEPT ![d] = IF @.step = "idle" THEN [NoFlight EXCEPT !.step = "load"] ELSE @]
    BY <1>1 DEF Join, server
  <1>3. flight \in [Devices -> Flights] /\ [NoFlight EXCEPT !.step = "load"].step = "load"
    BY DEF Inv, TypeOK, DeviceTypes, NoFlight
  <1>4. /\ \A e \in Devices \ {d} : flight'[e] = flight[e]
        /\ flight'[d] = flight[d] \/ (flight[d].step = "idle" /\ flight'[d].step = "load")
    BY <1>2, <1>3
  <1>5. CASE flight'[d] = flight[d]
    <2>1. \A e \in Devices : SameHand(e)
      BY <1>2, <1>4, <1>5 DEF SameHand
    <2>2. Served'
      BY <1>2, <1>4, <1>5 DEF Careful, Served, Refreshing
    <2> QED
      BY <1>2, <2>1, <2>2, AllAlone DEF Careful
  <1>6. CASE flight[d].step = "idle" /\ flight'[d].step = "load"
    <2>1. /\ ~Refreshing(d) /\ ~Refreshing(d)'
          /\ Awaiting(d)' <=> Awaiting(d)
          /\ Paid(d)' = 0 /\ Paid(d) = 0 /\ Brought(d)' = 0 /\ Brought(d) = 0
      BY <1>2, <1>6 DEF Refreshing, Awaiting, Paid, Brought
    <2>2. Signed(d)' = Signed(d) /\ AtSign(d)' = AtSign(d)
      BY <1>2 DEF Signed, AtSign
    <2>3. Owned(d)' = Owned(d) /\ Slots(d)' = Slots(d)
      BY <1>2, <2>1, <2>2 DEF Owned, Slots
    <2>4. Sound(d)
      BY DEF Careful
    <2>5. ~Replacing(d)
      BY <1>6, <2>1 DEF Replacing
    <2>6. Sound(d)'
      BY <1>2, <2>1, <2>2, <2>4, <2>5 DEF Sound, Answered, Unspent
    <2> QED
      BY <1>2, <1>4, <2>1, <2>3, <2>6, AloneStep
  <1> QED
    BY <1>4, <1>5, <1>6

\* A refresh is asked for with the token that is kept.
LEMMA LoadCareful == ASSUME Inv, Careful, NEW d \in Devices, NEW q \in Requests, Load(d, q) PROVE Careful'
  <1> USE DEF Inv, TypeOK, DeviceTypes
  <1>1. /\ UNCHANGED <<tokens, reused, sign, refresh>>
        /\ flight[d].step = "load"
    BY DEF Load, server
  <1>2. Sound(d) /\ flight \in [Devices -> Flights]
    BY DEF Careful
  <1>3. ~Refreshing(d) /\ ~Replacing(d) /\ Paid(d) = 0 /\ Brought(d) = 0
    BY <1>1 DEF Refreshing, Replacing, Paid, Brought
  <1>4. Awaiting(d)' <=> Awaiting(d)
    BY <1>1 DEF Awaiting
  <1>5. CASE refresh[d] # 0 /\ Free(q)
    <2>1. /\ AskServer(q, "refresh", refresh[d])
          /\ flight' = [flight EXCEPT ![d] = [step |-> "sent", at |-> q, token |-> refresh[d]]]
      BY <1>5 DEF Load, Free
    <2>2. /\ flight'[d].step = "sent" /\ flight'[d].at = q /\ flight'[d].token = refresh[d]
          /\ \A e \in Devices \ {d} : flight'[e] = flight[e]
      BY <1>2, <2>1
    <2>3. srv[q].step = "idle"
      BY <1>5 DEF Free, Idle
    <2>4. \A e \in Devices : q \notin Slots(e)
      BY <2>3, Waiting DEF Answers
    <2>5. srv'[q].step = "burn" /\ srv'[q].op = "refresh" /\ srv'[q].token = refresh[d]
      BY <2>1 DEF AskServer
    <2>6. \A p \in Requests \ {q} : srv'[p] = srv[p]
      BY <2>1 DEF AskServer
    <2>7. Refreshing(d)' /\ At(d)' = srv'[q] /\ Paid(d)' = refresh[d] /\ Brought(d)' = 0
      BY <2>2, <2>5 DEF Refreshing, At, Paid, Brought
    <2>8. Awaiting(d) => AtSign(d)' = AtSign(d) /\ sign[d].at # q
      BY <1>1, <2>4, <2>6, OwnedIssued, <1>2 DEF AtSign, Slots
    <2>9. Signed(d)' = Signed(d)
      BY <1>1, <2>8 DEF Signed, Awaiting
    <2>10. Owned(d)' \subseteq Owned(d) /\ Slots(d)' \subseteq Slots(d) \cup {q}
      BY <1>1, <1>4, <2>2, <2>7, <2>9 DEF Owned, Slots
    <2>11. Sound(d)'
      <3>1. Answered(d)'
        BY <1>1, <1>2, <1>4, <1>5, <2>2, <2>5, <2>7, <2>8 DEF Sound, Answered, Awaiting, Burns
      <3>2. ~tokens[refresh[d]].used
        BY <1>2, <1>3, <1>5 DEF Sound
      <3>3. Unspent(d)'
        BY <1>1, <1>2, <2>2, <2>7, <2>9, <3>2 DEF Sound, Unspent
      <3> QED
        BY <1>1, <3>1, <3>2, <3>3 DEF Sound
    <2>12. Served'
      <3>1. ASSUME NEW p \in Requests, srv'[p].step \in Burns
            PROVE  \E e \in Devices : (Refreshing(e) /\ flight[e].at = p)'
        <4>1. CASE p = q
          BY <2>2, <2>7, <4>1
        <4>2. CASE p # q
          <5>1. srv[p].step \in Burns
            BY <2>6, <3>1, <4>2
          <5>2. PICK e \in Devices : Refreshing(e) /\ flight[e].at = p
            BY <5>1 DEF Careful, Served
          <5>3. e # d
            BY <1>3, <5>2
          <5>4. Refreshing(e)' /\ flight'[e].at = p
            BY <2>2, <5>2, <5>3 DEF Refreshing
          <5> QED
            BY <5>4
        <4> QED
          BY <4>1, <4>2
      <3>2. \A p \in Requests : srv'[p].op # "reuse"
        BY <2>5, <2>6 DEF Careful, Served
      <3> QED
        BY <3>1, <3>2 DEF Served
    <2> QED
      BY <1>1, <2>2, <2>4, <2>6, <2>10, <2>11, <2>12, HandStep
  <1>6. CASE refresh[d] = 0
    <2>1. flight' = [flight EXCEPT ![d].step = "clear"] /\ UNCHANGED srv
      BY <1>6 DEF Load
    <2>2. /\ flight'[d].step = "clear"
          /\ \A e \in Devices \ {d} : flight'[e] = flight[e]
      BY <1>2, <2>1 DEF Flights
    <2>3. ~Refreshing(d)' /\ Paid(d)' = 0 /\ Brought(d)' = 0
      BY <2>2 DEF Refreshing, Paid, Brought
    <2>4. Signed(d)' = Signed(d) /\ AtSign(d)' = AtSign(d)
      BY <1>1, <2>1 DEF Signed, AtSign
    <2>5. Owned(d)' = Owned(d) /\ Slots(d)' = Slots(d)
      BY <1>1, <1>3, <1>4, <2>3, <2>4 DEF Owned, Slots
    <2>6. Sound(d)'
      BY <1>1, <1>2, <1>3, <1>4, <1>6, <2>3, <2>4 DEF Sound, Answered, Unspent
    <2> QED
      BY <1>1, <1>3, <2>1, <2>2, <2>3, <2>5, <2>6, AloneStep
  <1> QED
    BY <1>5, <1>6 DEF Load

\* The answer to a refresh: the slot is free again.
LEMMA RefreshedCareful == ASSUME Inv, Careful, NEW d \in Devices, Refreshed(d) PROVE Careful'
  <1> USE DEF Inv, TypeOK, DeviceTypes
  <1>1. UNCHANGED <<tokens, reused, sign, refresh>> /\ Refreshing(d)
    BY DEF Refreshed, server, Refreshing
  <1>2. PICK q : q = flight[d].at
    OBVIOUS
  <1>3. /\ q \in Requests /\ q \in Slots(d) /\ At(d) = srv[q] /\ Sound(d)
        /\ srv[q].step \in Answers
        /\ srv' = [srv EXCEPT ![q] = Idle]
    BY <1>1, <1>2, OwnedIssued DEF Slots, At, Refreshed, Careful
  <1>4. srv'[q] = Idle /\ \A p \in Requests \ {q} : srv'[p] = srv[p]
    BY <1>3
  <1>5. \A e \in Devices \ {d} : q \notin Slots(e)
    BY <1>3, OneWaits
  <1>6. flight \in [Devices -> Flights] /\ \A e \in Devices \ {d} : flight'[e] = flight[e]
    BY DEF Refreshed, Settle
  <1>7. /\ Awaiting(d)' <=> Awaiting(d)
        /\ Awaiting(d) => AtSign(d)' = AtSign(d)
    <2>1. Awaiting(d) => sign[d].at \in Requests /\ sign[d].at # q
      BY <1>1, <1>2, <1>3, OwnedIssued DEF Sound, Answered, Slots
    <2> QED
      BY <1>1, <1>4, <2>1 DEF Awaiting, AtSign
  <1>8. Signed(d)' = Signed(d)
    BY <1>1, <1>7 DEF Signed, Awaiting
  <1>9. /\ flight'[d].step \in {"idle", "save", "clear"}
        /\ flight'[d].step = "save" => srv[q].step = "ok" /\ flight'[d].token = srv[q].token
        /\ flight'[d].step = "idle" => srv[q].step = "busy"
    <2>1. CASE srv[q].step = "busy"
      <3>1. flight'[d].step = "idle"
        BY <1>2, <2>1, Settling DEF Refreshed
      <3> QED
        BY <2>1, <3>1
    <2>2. CASE srv[q].step = "refused"
      BY <1>2, <1>6, <2>2 DEF Refreshed, Flights
    <2>3. CASE srv[q].step = "ok"
      BY <1>2, <1>6, <2>3 DEF Refreshed
    <2> QED
      BY <1>3, <2>1, <2>2, <2>3 DEF Answers
  <1>10. ~Refreshing(d)' /\ Paid(d)' = 0
    BY <1>9 DEF Refreshing, Paid
  <1>11. Brought(d)' = 0 \/ Brought(d)' = Brought(d)
    BY <1>1, <1>3, <1>9, <1>10 DEF Brought
  <1>12. Owned(d)' \subseteq Owned(d) /\ Slots(d)' \subseteq Slots(d) \cup {q}
    BY <1>1, <1>7, <1>8, <1>10, <1>11 DEF Owned, Slots
  <1>13. Answered(d)'
    BY <1>1, <1>3, <1>7, <1>10 DEF Sound, Answered, Awaiting
  <1>14. Unspent(d)'
    <2>1. Brought(d)' # 0 => ~tokens[Brought(d)'].used /\ Brought(d)' \notin {refresh[d], 0, Signed(d)}
      BY <1>3, <1>11 DEF Sound, Unspent
    <2>2. Signed(d) # 0 => ~tokens[Signed(d)].used /\ Signed(d) \notin {refresh[d], 0}
      BY <1>3 DEF Sound, Unspent
    <2> QED
      BY <1>1, <1>8, <1>10, <2>1, <2>2 DEF Unspent
  <1>15. Sound(d)'
    <2>1. CASE flight'[d].step \in {"save", "clear"}
      BY <1>13, <1>14, <2>1 DEF Sound, Replacing
    <2>2. CASE flight'[d].step = "idle"
      <3>1. ~Replacing(d)
        BY <1>1, <1>3, <1>9, <2>2 DEF Replacing, Refreshing
      <3> QED
        BY <1>1, <1>3, <1>13, <1>14, <3>1 DEF Sound
    <2> QED
      BY <1>9, <2>1, <2>2
  <1>16. Served'
    <2>1. Idle.step = "idle" /\ Idle.op = "none"
      BY DEF Idle
    <2>2. ASSUME NEW p \in Requests, srv'[p].step \in Burns
          PROVE  \E e \in Devices : (Refreshing(e) /\ flight[e].at = p)'
      <3>1. p # q /\ srv[p].step \in Burns
        BY <1>4, <2>1, <2>2 DEF Burns
      <3>2. PICK e \in Devices : Refreshing(e) /\ flight[e].at = p
        BY <3>1 DEF Careful, Served
      <3>3. e # d
        BY <1>2, <3>1, <3>2
      <3>4. Refreshing(e)' /\ flight'[e].at = p
        BY <1>6, <3>2, <3>3 DEF Refreshing
      <3> QED
        BY <3>4
    <2>3. \A p \in Requests : srv'[p].op # "reuse"
      BY <1>4, <2>1 DEF Careful, Served
    <2> QED
      BY <2>2, <2>3 DEF Served
  <1> QED
    BY <1>1, <1>4, <1>5, <1>6, <1>12, <1>15, <1>16, HandStep

\* What a refresh brought is kept, or what was kept is cleared.
LEMMA SaveCareful ==
    ASSUME Inv, Careful, NEW d \in Devices, SaveAccess(d) \/ SaveRefresh(d) \/ EndSession(d) PROVE Careful'
  <1> USE DEF Inv, TypeOK, DeviceTypes
  <1>1. UNCHANGED <<tokens, reused, srv>> /\ Sound(d) /\ ~Refreshing(d)
    BY DEF SaveAccess, SaveRefresh, EndSession, server, Refreshing, Careful
  <1>2. flight \in [Devices -> Flights] /\ sign \in [Devices -> Signs]
    OBVIOUS
  <1>3. CASE SaveAccess(d)
    <2>1. /\ flight'[d].step = "save2" /\ flight'[d].token = flight[d].token
          /\ flight[d].step = "save"
          /\ \A e \in Devices \ {d} : flight'[e] = flight[e]
          /\ UNCHANGED <<sign, refresh>>
      BY <1>2, <1>3 DEF SaveAccess, Flights
    <2>2. /\ ~Refreshing(d)' /\ (Awaiting(d)' <=> Awaiting(d))
          /\ Paid(d)' = 0 /\ Paid(d) = 0 /\ Brought(d)' = Brought(d)
      BY <1>1, <2>1 DEF Refreshing, Awaiting, Paid, Brought
    <2>3. Signed(d)' = Signed(d) /\ AtSign(d)' = AtSign(d)
      BY <1>1, <2>1 DEF Signed, AtSign
    <2>4. Owned(d)' = Owned(d) /\ Slots(d)' = Slots(d)
      BY <2>1, <2>2, <2>3, <1>1 DEF Owned, Slots
    <2>5. Sound(d)'
      BY <1>1, <2>1, <2>2, <2>3 DEF Sound, Answered, Unspent, Replacing
    <2> QED
      BY <1>1, <2>1, <2>2, <2>4, <2>5, AloneStep
  <1>4. CASE SaveRefresh(d)
    <2>1. /\ flight'[d].step = "idle" /\ flight[d].step = "save2"
          /\ \A e \in Devices \ {d} : flight'[e] = flight[e]
      BY <1>4, Settling DEF SaveRefresh
    <2>2. /\ refresh'[d] = flight[d].token
          /\ \A e \in Devices \ {d} : refresh'[e] = refresh[e]
          /\ UNCHANGED sign
      BY <1>4 DEF SaveRefresh
    <2>3. /\ ~Refreshing(d)' /\ (Awaiting(d)' <=> Awaiting(d))
          /\ Paid(d)' = 0 /\ Brought(d)' = 0 /\ Brought(d) = refresh'[d]
      BY <1>1, <2>1, <2>2 DEF Refreshing, Awaiting, Paid, Brought
    <2>4. Signed(d)' = Signed(d) /\ AtSign(d)' = AtSign(d)
      BY <1>1, <2>2 DEF Signed, AtSign
    <2>5. Owned(d)' \subseteq Owned(d) /\ Slots(d)' = Slots(d)
      BY <1>1, <2>3, <2>4, <2>2 DEF Owned, Slots
    <2>6. Answered(d)'
      BY <1>1, <2>2, <2>3, <2>4 DEF Sound, Answered
    <2>7. Signed(d) # 0 => Signed(d) \notin {refresh'[d], 0}
      BY <1>1, <2>3 DEF Sound, Unspent
    <2>8. Unspent(d)'
      BY <1>1, <2>3, <2>4, <2>7 DEF Sound, Unspent
    <2>9. refresh'[d] # 0 => ~tokens[refresh'[d]].used
      BY <1>1, <2>3 DEF Sound, Unspent
    <2>10. Sound(d)'
      BY <1>1, <2>6, <2>8, <2>9 DEF Sound
    <2> QED
      BY <1>1, <2>1, <2>2, <2>3, <2>5, <2>10, AloneStep
  <1>5. CASE EndSession(d)
    <2>1. /\ flight'[d].step = "idle" /\ flight[d].step = "clear"
          /\ \A e \in Devices \ {d} : flight'[e] = flight[e]
      BY <1>5, Settling DEF EndSession
    <2>2. /\ refresh'[d] = 0
          /\ \A e \in Devices \ {d} : refresh'[e] = refresh[e] /\ sign'[e] = sign[e]
      BY <1>5 DEF EndSession
    <2>3. sign'[d] = sign[d] \/ (sign[d].step = "in" /\ sign'[d].step = "ended")
      BY <1>2, <1>5 DEF EndSession, Signs
    <2>4. /\ ~Refreshing(d)' /\ (Awaiting(d)' <=> Awaiting(d))
          /\ Paid(d)' = 0 /\ Brought(d)' = 0
      BY <1>1, <2>1, <2>3 DEF Refreshing, Awaiting, Paid, Brought
    <2>5. Signed(d)' = Signed(d) /\ (Awaiting(d) => AtSign(d)' = AtSign(d) /\ sign'[d] = sign[d])
      BY <1>1, <2>3 DEF Signed, AtSign, Awaiting
    <2>6. Owned(d)' \subseteq Owned(d) /\ Slots(d)' = Slots(d)
      BY <1>1, <2>2, <2>4, <2>5 DEF Owned, Slots
    <2>7. Answered(d)'
      BY <1>1, <2>4, <2>5 DEF Sound, Answered, Awaiting
    <2>8. Sound(d)'
      BY <1>1, <2>2, <2>4, <2>5, <2>7 DEF Sound, Unspent
    <2> QED
      BY <1>1, <2>1, <2>2, <2>4, <2>6, <2>8, AloneStep
  <1> QED
    BY <1>3, <1>4, <1>5

\* A sign-in or -out that goes on without the server.
LEMMA SignAlone ==
    ASSUME Inv, Careful, NEW d \in Devices,
           UNCHANGED <<tokens, reused, srv, flight>>,
           \A e \in Devices \ {d} : sign'[e] = sign[e] /\ refresh'[e] = refresh[e],
           ~Awaiting(d), ~Awaiting(d)',
           Signed(d)' # 0 => Signed(d)' = Signed(d) /\ refresh'[d] = refresh[d],
           refresh'[d] \in {refresh[d], 0, Signed(d)}
    PROVE  Careful'
  <1>1. Sound(d)
    BY DEF Careful
  <1>2. /\ Refreshing(d)' <=> Refreshing(d)
        /\ At(d)' = At(d) /\ Paid(d)' = Paid(d) /\ Brought(d)' = Brought(d)
        /\ Replacing(d)' <=> Replacing(d)
    BY DEF Refreshing, At, Paid, Brought, Replacing
  <1>3. Slots(d)' = Slots(d)
    BY <1>2 DEF Slots
  <1>4. Owned(d)' \subseteq Owned(d)
    BY <1>2 DEF Owned
  <1>5. Answered(d)'
    BY <1>1, <1>2 DEF Sound, Answered, Awaiting
  <1>6. Brought(d) # 0 => Brought(d) \notin {refresh'[d], Paid(d), Signed(d)'}
    BY <1>1 DEF Sound, Unspent
  <1>7. Unspent(d)'
    BY <1>1, <1>2, <1>6 DEF Sound, Unspent
  <1>8. refresh'[d] # 0 /\ tokens[refresh'[d]].used => Replacing(d)
    BY <1>1 DEF Sound, Unspent
  <1>9. Sound(d)'
    BY <1>2, <1>5, <1>7, <1>8 DEF Sound
  <1> QED
    BY <1>2, <1>3, <1>4, <1>9, AloneStep

\* A sign-in or -out that asks the server.
LEMMA SignAsks ==
    ASSUME Inv, Careful, NEW d \in Devices, NEW q \in Requests, Free(q),
           NEW op \in {"login", "logout"}, NEW t, AskServer(q, op, t),
           UNCHANGED <<tokens, reused, refresh, flight>>,
           ~Awaiting(d), Signed(d) = 0, Signing(d, op, q, 0)
    PROVE  Careful'
  <1> USE DEF Inv, TypeOK, DeviceTypes
  <1>1. /\ sign'[d].step = op /\ sign'[d].at = q
        /\ \A e \in Devices \ {d} : sign'[e] = sign[e]
    BY DEF Signing
  <1>2. /\ srv'[q].step = IF op = "login" THEN "verify" ELSE "find"
        /\ srv'[q].op = op
        /\ \A p \in Requests \ {q} : srv'[p] = srv[p]
    BY DEF AskServer
  <1>3. srv[q].step = "idle"
    BY DEF Free, Idle
  <1>4. \A e \in Devices : q \notin Slots(e)
    BY <1>3, Waiting DEF Answers
  <1>5. Sound(d) /\ Slots(d) \subseteq Requests
    BY OwnedIssued DEF Careful
  <1>6. /\ Refreshing(d)' <=> Refreshing(d)
        /\ Refreshing(d) => At(d)' = At(d) /\ flight[d].at # q
    BY <1>2, <1>4, <1>5 DEF Refreshing, At, Slots
  <1>7. /\ Paid(d)' = Paid(d) /\ Brought(d)' = Brought(d)
        /\ Replacing(d)' <=> Replacing(d)
    BY <1>6 DEF Paid, Brought, Replacing
  <1>8. AtSign(d)' = srv'[q]
    BY <1>1 DEF AtSign
  <1>9. Signed(d)' = 0
    BY <1>1, <1>2, <1>8 DEF Signed
  <1>10. Owned(d)' \subseteq Owned(d) /\ Slots(d)' \subseteq Slots(d) \cup {q}
    BY <1>1, <1>6, <1>7, <1>9 DEF Owned, Slots
  <1>11. Answered(d)'
    BY <1>1, <1>2, <1>5, <1>6, <1>8 DEF Sound, Answered, Logins, Revokes
  <1>12. Unspent(d)'
    BY <1>5, <1>6, <1>7, <1>9 DEF Sound, Unspent
  <1>13. Sound(d)'
    BY <1>5, <1>7, <1>11, <1>12 DEF Sound
  <1>14. Served'
    <2>1. ASSUME NEW p \in Requests, srv'[p].step \in Burns
          PROVE  \E e \in Devices : (Refreshing(e) /\ flight[e].at = p)'
      <3>1. srv[p].step \in Burns
        BY <1>2, <2>1 DEF Burns
      <3> QED
        BY <3>1 DEF Careful, Served, Refreshing
    <2>2. \A p \in Requests : srv'[p].op # "reuse"
      BY <1>2 DEF Careful, Served
    <2> QED
      BY <2>1, <2>2 DEF Served
  <1> QED
    BY <1>1, <1>2, <1>4, <1>10, <1>13, <1>14, HandStep

\* And one that hears of it.
LEMMA SignHears ==
    ASSUME Inv, Careful, NEW d \in Devices, Awaiting(d), AtSign(d).step \in Answers,
           srv' = [srv EXCEPT ![sign[d].at] = Idle],
           UNCHANGED <<tokens, reused, refresh, flight>>,
           \A e \in Devices \ {d} : sign'[e] = sign[e],
           sign'[d].step \in {"save", "out", "clear"},
           sign'[d].step = "save" => sign[d].step = "login" /\ AtSign(d).step = "ok" /\ sign'[d].token = AtSign(d).token
    PROVE  Careful'
  <1> USE DEF Inv, TypeOK, DeviceTypes
  <1>1. PICK q : q = sign[d].at
    OBVIOUS
  <1>2. q \in Requests /\ q \in Slots(d) /\ Sound(d)
    BY <1>1, OwnedIssued DEF Slots, Careful
  <1>3. srv'[q] = Idle /\ srv[q].step \in Answers /\ \A p \in Requests \ {q} : srv'[p] = srv[p]
    BY <1>1, <1>2 DEF AtSign
  <1>4. \A e \in Devices \ {d} : q \notin Slots(e)
    BY <1>2, OneWaits
  <1>5. /\ Refreshing(d)' <=> Refreshing(d)
        /\ Refreshing(d) => At(d)' = At(d)
    <2>1. Refreshing(d) => flight[d].at \in Requests /\ flight[d].at # q
      BY <1>1, <1>2, OwnedIssued DEF Sound, Answered, Slots
    <2> QED
      BY <1>3, <2>1 DEF Refreshing, At
  <1>6. /\ Paid(d)' = Paid(d) /\ Brought(d)' = Brought(d)
        /\ Replacing(d)' <=> Replacing(d)
    BY <1>5 DEF Paid, Brought, Replacing
  <1>7. ~Awaiting(d)' /\ (Signed(d)' = 0 \/ Signed(d)' = Signed(d))
    BY DEF Awaiting, Signed
  <1>8. Owned(d)' \subseteq Owned(d) /\ Slots(d)' \subseteq Slots(d) \cup {q}
    BY <1>5, <1>6, <1>7 DEF Owned, Slots
  <1>9. Answered(d)'
    BY <1>2, <1>5, <1>7 DEF Sound, Answered, Awaiting
  <1>10. Unspent(d)'
    BY <1>2, <1>5, <1>6, <1>7 DEF Sound, Unspent
  <1>11. Sound(d)'
    BY <1>2, <1>6, <1>9, <1>10 DEF Sound
  <1>12. Served'
    <2>1. Idle.step = "idle" /\ Idle.op = "none"
      BY DEF Idle
    <2>2. ASSUME NEW p \in Requests, srv'[p].step \in Burns
          PROVE  \E e \in Devices : (Refreshing(e) /\ flight[e].at = p)'
      <3>1. srv[p].step \in Burns
        BY <1>3, <2>1, <2>2 DEF Burns
      <3> QED
        BY <3>1 DEF Careful, Served, Refreshing
    <2>3. \A p \in Requests : srv'[p].op # "reuse"
      BY <1>3, <2>1 DEF Careful, Served
    <2> QED
      BY <2>2, <2>3 DEF Served
  <1> QED
    BY <1>3, <1>4, <1>8, <1>11, <1>12, HandStep

LEMMA SignCareful ==
    ASSUME Inv, Careful, NEW d \in Devices,
           SignedIn(d) \/ Store(d) \/ Clear(d) \/ (LoggedOut(d) /\ lost' = lost)
             \/ \E q \in Requests : SignIn(d, q) \/ SignOut(d, q)
    PROVE  Careful'
  <1> USE DEF Inv, TypeOK, DeviceTypes
  <1>1. \A step, q, t : Signing(d, step, q, t) =>
            /\ sign'[d].step = step /\ sign'[d].token = t
            /\ \A e \in Devices \ {d} : sign'[e] = sign[e]
    BY DEF Signing
  <1>2. UNCHANGED <<tokens, reused, flight>>
    BY DEF SignedIn, Store, Clear, LoggedOut, SignIn, SignOut, server
  <1>3. CASE SignedIn(d)
    <2>1. /\ sign[d].step = "login" /\ AtSign(d).step \in Answers
          /\ srv' = [srv EXCEPT ![sign[d].at] = Idle] /\ UNCHANGED refresh
          /\ IF AtSign(d).step = "ok" THEN Signing(d, "save", Nobody, AtSign(d).token)
                                      ELSE Signing(d, "out", Nobody, 0)
      BY <1>3 DEF SignedIn, AtSign
    <2>2. Awaiting(d)
      BY <2>1 DEF Awaiting
    <2>3. /\ sign'[d].step \in {"save", "out"} /\ \A e \in Devices \ {d} : sign'[e] = sign[e]
          /\ sign'[d].step = "save" => AtSign(d).step = "ok" /\ sign'[d].token = AtSign(d).token
      BY <1>1, <2>1
    <2> QED
      BY <1>2, <2>1, <2>2, <2>3, SignHears
  <1>4. CASE LoggedOut(d) /\ lost' = lost
    <2>1. lost # lost + 1
      BY SessionsAssumption
    <2>2. /\ sign[d].step = "logout" /\ AtSign(d).step \in Answers
          /\ srv' = [srv EXCEPT ![sign[d].at] = Idle] /\ UNCHANGED refresh
          /\ Signing(d, "clear", Nobody, 0)
      BY <1>4, <2>1 DEF LoggedOut, AtSign
    <2>3. Awaiting(d)
      BY <2>2 DEF Awaiting
    <2>4. sign'[d].step = "clear" /\ \A e \in Devices \ {d} : sign'[e] = sign[e]
      BY <1>1, <2>2
    <2> QED
      BY <1>2, <2>2, <2>3, <2>4, SignHears
  <1>5. CASE Store(d)
    <2>1. CASE /\ sign[d].step = "save" /\ Signing(d, "save2", Nobody, sign[d].token)
               /\ UNCHANGED <<srv, refresh>>
      <3>1. /\ sign'[d].step = "save2" /\ sign'[d].token = sign[d].token
            /\ \A e \in Devices \ {d} : sign'[e] = sign[e]
        BY <1>1, <2>1
      <3>2. ~Awaiting(d) /\ ~Awaiting(d)' /\ Signed(d)' = Signed(d)
        BY <2>1, <3>1 DEF Awaiting, Signed
      <3> QED
        BY <1>2, <2>1, <3>1, <3>2, SignAlone
    <2>2. CASE /\ sign[d].step = "save2" /\ refresh' = [refresh EXCEPT ![d] = sign[d].token]
               /\ Signing(d, "in", Nobody, 0) /\ UNCHANGED srv
      <3>1. sign'[d].step = "in" /\ \A e \in Devices \ {d} : sign'[e] = sign[e] /\ refresh'[e] = refresh[e]
        BY <1>1, <2>2
      <3>2. refresh'[d] = sign[d].token
        BY <2>2
      <3>3. ~Awaiting(d) /\ ~Awaiting(d)' /\ Signed(d)' = 0 /\ refresh'[d] = Signed(d)
        BY <2>2, <3>1, <3>2 DEF Awaiting, Signed
      <3> QED
        BY <1>2, <2>2, <3>1, <3>3, SignAlone
    <2> QED
      BY <1>5, <2>1, <2>2 DEF Store
  <1>6. CASE Clear(d)
    <2>1. /\ sign[d].step = "clear" /\ refresh'[d] = 0 /\ UNCHANGED srv
          /\ sign'[d].step = "out"
          /\ \A e \in Devices \ {d} : sign'[e] = sign[e] /\ refresh'[e] = refresh[e]
      BY <1>1, <1>6 DEF Clear
    <2>2. ~Awaiting(d) /\ ~Awaiting(d)' /\ Signed(d)' = 0
      BY <2>1 DEF Awaiting, Signed
    <2> QED
      BY <1>2, <2>1, <2>2, SignAlone
  <1>7. ASSUME NEW q \in Requests, SignIn(d, q) PROVE Careful'
    <2>1. /\ Free(q) /\ AskServer(q, "login", 0) /\ Signing(d, "login", q, 0) /\ UNCHANGED refresh
          /\ ~Awaiting(d) /\ Signed(d) = 0
      BY <1>7 DEF SignIn, Awaiting, Signed
    <2> QED
      BY <1>2, <2>1, SignAsks
  <1>8. ASSUME NEW q \in Requests, SignOut(d, q) PROVE Careful'
    <2>1. Free(q) /\ UNCHANGED refresh /\ ~Awaiting(d) /\ Signed(d) = 0
      BY <1>8 DEF SignOut, Awaiting, Signed
    <2>2. CASE AskServer(q, "logout", refresh[d]) /\ Signing(d, "logout", q, 0)
      BY <1>2, <2>1, <2>2, SignAsks
    <2>3. CASE Signing(d, "clear", Nobody, 0) /\ UNCHANGED srv
      <3>1. sign'[d].step = "clear" /\ \A e \in Devices \ {d} : sign'[e] = sign[e]
        BY <1>1, <2>3
      <3>2. ~Awaiting(d)' /\ Signed(d)' = 0
        BY <3>1 DEF Awaiting, Signed
      <3> QED
        BY <1>2, <2>1, <2>3, <3>1, <3>2, SignAlone
    <2> QED
      BY <1>8, <2>2, <2>3 DEF SignOut
  <1> QED
    BY <1>3, <1>4, <1>5, <1>6, <1>7, <1>8

\* No answer is ever found again.
LEMMA AlarmlessStep == ASSUME Inv, Alarmless, [Next]_vars PROVE Alarmless'
  <1> SUFFICES ASSUME lost' = 0 PROVE Careful'
    BY DEF Alarmless
  <1>1. lost \in Nat /\ (lost' = lost \/ lost' = lost + 1)
    <2>1. lost \in Nat
      BY SessionsAssumption DEF Inv, TypeOK, DeviceTypes
    <2>2. CASE UNCHANGED vars
      BY <2>1, <2>2 DEF vars
    <2>3. ASSUME NEW q \in Requests, ServerStep(q) \/ TurnAway(q) PROVE lost' = lost
      BY <2>3 DEF ServerStep, TurnAway
    <2>4. ASSUME NEW q \in Requests, NEW op, NEW t, AskRemotely(q, op, t) PROVE lost' = lost
      BY <2>4 DEF AskRemotely
    <2>5. ASSUME NEW c \in Callers, CallerStep(c) \/ \E d \in Devices : Send(d, c) PROVE lost' = lost
      BY <2>5 DEF CallerStep, Respond, Reload, Join, Send
    <2>6. ASSUME NEW d \in Devices, Refresh(d) \/ SignedIn(d) \/ Store(d) \/ Clear(d) PROVE lost' = lost
      BY <2>6 DEF Refresh, Load, Refreshed, SaveAccess, SaveRefresh, EndSession, SignedIn, Store, Clear
    <2>7. ASSUME NEW d \in Devices, LoggedOut(d) \/ LoseRefresh(d) \/ Kill(d)
          PROVE  lost' = lost \/ lost' = lost + 1
      BY <2>7 DEF LoggedOut, LoseRefresh, Kill
    <2>8. ASSUME NEW d \in Devices, NEW q \in Requests, SignIn(d, q) \/ SignOut(d, q) PROVE lost' = lost
      BY <2>8 DEF SignIn, SignOut
    <2>9. ASSUME NEW t, Expire(t) PROVE lost' = lost
      BY <2>9 DEF Expire
    <2> QED
      BY <2>1, <2>2, <2>3, <2>4, <2>5, <2>6, <2>7, <2>8, <2>9 DEF Next, SignStep
  <1>2. lost' = lost /\ Careful
    BY <1>1 DEF Alarmless
  <1>3. CASE UNCHANGED vars
    BY <1>2, <1>3, StillCareful DEF vars, server, device
  <1>4. ASSUME NEW q \in Requests, ServerStep(q) \/ TurnAway(q) PROVE Careful'
    <2>1. UNCHANGED device
      BY <1>4 DEF ServerStep, TurnAway
    <2> QED
      BY <1>2, <1>4, <2>1, TableWorks, WorksCareful, IssueCareful, InsertCareful DEF ServerStep
  <1>5. ASSUME NEW t \in Issued, Expire(t) PROVE Careful'
    BY <1>2, <1>5, StillCareful DEF Expire, server, device
  <1>6. ASSUME NEW c \in Callers, CallerStep(c) \/ \E d \in Devices : Send(d, c) PROVE Careful'
    <2>1. CASE Join(c)
      BY <1>2, <2>1, JoinCareful
    <2>2. CASE Respond(c) \/ Reload(c) \/ \E d \in Devices : Send(d, c)
      BY <1>2, <2>2, StillCareful DEF Respond, Reload, Send, server
    <2> QED
      BY <1>6, <2>1, <2>2 DEF CallerStep
  <1>7. ASSUME NEW d \in Devices, Refresh(d) PROVE Careful'
    BY <1>2, <1>7, LoadCareful, RefreshedCareful, SaveCareful DEF Refresh
  <1>8. ASSUME NEW d \in Devices, SignStep(d) \/ \E q \in Requests : SignIn(d, q) \/ SignOut(d, q) PROVE Careful'
    BY <1>2, <1>8, SignCareful DEF SignStep
  <1>9. ASSUME NEW d \in Devices PROVE ~LoseRefresh(d) /\ ~Kill(d)
    BY <1>1, <1>2 DEF LoseRefresh, Kill
  <1> QED
    BY <1>2, <1>3, <1>4, <1>5, <1>6, <1>7, <1>8, <1>9, RemoteCareful DEF Next

LEMMA InitAlarmless == Init => Alarmless
  <1> SUFFICES ASSUME Init PROVE Careful
    BY DEF Alarmless
  <1>1. /\ Idle.step = "idle" /\ Idle.op = "none" /\ NoFlight.step = "idle"
    BY DEF Idle, NoFlight
  <1>2. \A d \in Devices : /\ ~Refreshing(d) /\ ~Awaiting(d) /\ refresh[d] = 0
                           /\ flight[d].step = "idle" /\ sign[d].step = "out"
    BY <1>1 DEF Init, Refreshing, Awaiting
  <1>3. \A d \in Devices : Paid(d) = 0 /\ Brought(d) = 0 /\ Signed(d) = 0 /\ Slots(d) = {}
    BY <1>2 DEF Paid, Brought, Signed, Slots
  <1>4. \A d \in Devices : Sound(d) /\ Owned(d) = {}
    BY <1>2, <1>3 DEF Sound, Answered, Unspent, Owned
  <1>5. Apart
    BY <1>3, <1>4 DEF Apart
  <1>6. Served /\ reused = {}
    BY <1>1 DEF Init, Served, Burns
  <1> QED
    BY <1>4, <1>5, <1>6 DEF Careful

(* The devices are never taken for a thief while every answer arrives: no   *)
(* device presents a token twice, though calls meet a 401 at once and the   *)
(* user signs out and in while a refresh is under way (authFetch.ts,        *)
(* api.ts), and no two devices come to hold the same token.                 *)
THEOREM NoAlarm == Spec => []NoFalseAlarm
  <1>1. Alarmless => NoFalseAlarm
    BY DEF Alarmless, Careful, NoFalseAlarm
  <1> QED
    BY InitAlarmless, AlarmlessStep, InvAlways, <1>1, PTL DEF Spec
=============================================================================
