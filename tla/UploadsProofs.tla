---------------------------- MODULE UploadsProofs ----------------------------
(***************************************************************************)
(* Uploads for every number of uploads and requests, every batch size and  *)
(* any number of failed cleanup runs: types, no orphan behind an expired   *)
(* row, and an avatar that is always served, however requests overlap.     *)
(***************************************************************************)
EXTENDS Uploads, TLAPS

\* What a request carries where its place uses it.
OfUpload == {"complete", "head", "scan", "reject", "accept", "set", "take"}

Carried == \A r \in Requests :
    /\ pc[r] \in OfUpload => call[r].upload \in Uploads
    /\ pc[r] = "clear" => seen[r] \in Uploads \cup {NoUpload}

\* What the cleanup works on, or has marked, has expired, and nothing is stored
\* for the upload whose row it is about to update.
Cleaning ==
    /\ \A u \in cleaner.todo : age[u] = 2
    /\ cleaner.at \in Uploads => age[cleaner.at] = 2 /\ objects[cleaner.at] = "none"
    /\ \A u \in Uploads : status[u] = "expired" => age[u] = 2

Inv == TypeOK /\ Carried /\ Cleaning /\ ExpiredGone

LEMMA InitInv == Init => Inv
  BY UploadsAssumption, CrashesAssumption
     DEF Init, Inv, TypeOK, Carried, Cleaning, ExpiredGone, Statuses, Idle, NoCall, OfUpload

\* Every step keeps the types and what the requests carry.
LEMMA TypeStep == ASSUME TypeOK, Carried, [Next]_vars PROVE TypeOK' /\ Carried'
  <1> USE UploadsAssumption DEF TypeOK, Carried, OfUpload, GoTo, GoOn, NoCall, Drop, Statuses, Contents, history
  <1>1. ASSUME NEW u \in Uploads, Create(u) PROVE TypeOK' /\ Carried'
    BY <1>1 DEF Create
  <1>2. ASSUME NEW u \in Uploads, Send(u) PROVE TypeOK' /\ Carried'
    BY <1>2 DEF Send
  <1>3. ASSUME NEW u \in Uploads, Tick(u) PROVE TypeOK' /\ Carried'
    BY <1>3 DEF Tick
  <1>4. ASSUME NEW r \in Requests, Arrive(r) PROVE TypeOK' /\ Carried'
    <2>1. PICK c \in Calls : call' = [call EXCEPT ![r] = c] /\ pc' = [pc EXCEPT ![r] = c.kind]
      BY <1>4 DEF Arrive
    <2>2. c \in [kind : {"complete", "set"}, upload : Uploads]
              \cup [kind : {"remove", "none"}, upload : {NoUpload}]
      BY DEF Calls
    <2>3. c.kind \in {"complete", "set", "remove"} /\ (c.kind # "remove" => c.upload \in Uploads)
      BY DEF Calls
    <2>4. call' \in [Requests -> [kind : {"complete", "set"}, upload : Uploads]
                                    \cup [kind : {"remove", "none"}, upload : {NoUpload}]]
      BY <2>1, <2>2
    <2>5. pc' \in [Requests -> {"idle", "complete", "head", "scan", "reject", "accept",
                                "set", "take", "remove", "clear", "drop", "done"}]
      BY <2>1, <2>3
    <2>6. UNCHANGED <<status, age, objects, avatar, seen, cleaner, crashes, history>>
      BY <1>4 DEF Arrive
    <2>7. Carried'
      BY <2>1, <2>3, <2>6
    <2> QED
      BY <2>1, <2>3, <2>4, <2>5, <2>6, <2>7
  <1>5. ASSUME NEW r \in Requests, CompleteLook(r) \/ CompleteHead(r) \/ CompleteScan(r)
        PROVE  TypeOK' /\ Carried'
    BY <1>5 DEF CompleteLook, CompleteHead, CompleteScan
  <1>6. ASSUME NEW r \in Requests, CompleteReject(r) PROVE TypeOK' /\ Carried'
    BY <1>6 DEF CompleteReject
  <1>7. ASSUME NEW r \in Requests, CompleteAccept(r) PROVE TypeOK' /\ Carried'
    BY <1>7 DEF CompleteAccept
  <1>8. ASSUME NEW r \in Requests, SetLook(r) PROVE TypeOK' /\ Carried'
    BY <1>8 DEF SetLook
  <1>9. ASSUME NEW r \in Requests, SetTake(r) PROVE TypeOK' /\ Carried'
    BY <1>9 DEF SetTake
  <1>10. ASSUME NEW r \in Requests, RemoveLook(r) \/ RemoveClear(r) PROVE TypeOK' /\ Carried'
    BY <1>10 DEF RemoveLook, RemoveClear
  <1>11. ASSUME NEW r \in Requests, DropPrevious(r) PROVE TypeOK' /\ Carried'
    BY <1>11 DEF DropPrevious
  <1>12. ASSUME CleanSelect PROVE TypeOK' /\ Carried'
    BY <1>12 DEF CleanSelect, Stale, Unconsumed
  <1>13. ASSUME NEW u \in Uploads, CleanDelete(u) PROVE TypeOK' /\ Carried'
    BY <1>13 DEF CleanDelete
  <1>14. ASSUME NEW u \in Uploads, CleanMark(u) PROVE TypeOK' /\ Carried'
    BY <1>14 DEF CleanMark
  <1>15. ASSUME CleanCrash PROVE TypeOK' /\ Carried'
    BY <1>15, CrashesAssumption DEF CleanCrash, Idle
  <1>16. ASSUME UNCHANGED vars PROVE TypeOK' /\ Carried'
    BY <1>16 DEF vars
  <1> QED
    BY <1>1, <1>2, <1>3, <1>4, <1>5, <1>6, <1>7, <1>8, <1>9, <1>10, <1>11, <1>12, <1>13,
       <1>14, <1>15, <1>16 DEF Next, Serve, Clean

\* The cleanup holds expired uploads only, and the URL of one accepts nothing.
LEMMA CleaningStep == ASSUME Inv, [Next]_vars PROVE Cleaning' /\ ExpiredGone'
  <1> USE UploadsAssumption DEF Inv, TypeOK, Cleaning, ExpiredGone, GoTo, GoOn, NoCall, Drop, Statuses, Contents, history
  <1>1. ASSUME NEW u \in Uploads, Create(u) PROVE Cleaning' /\ ExpiredGone'
    BY <1>1 DEF Create
  <1>2. ASSUME NEW u \in Uploads, Send(u) PROVE Cleaning' /\ ExpiredGone'
    BY <1>2 DEF Send
  <1>3. ASSUME NEW u \in Uploads, Tick(u) PROVE Cleaning' /\ ExpiredGone'
    BY <1>3 DEF Tick
  <1>4. ASSUME NEW r \in Requests,
               Arrive(r) \/ CompleteLook(r) \/ CompleteHead(r) \/ CompleteScan(r)
                 \/ SetLook(r) \/ RemoveLook(r) \/ RemoveClear(r)
        PROVE  Cleaning' /\ ExpiredGone'
    BY <1>4 DEF Arrive, CompleteLook, CompleteHead, CompleteScan, SetLook, RemoveLook, RemoveClear
  <1>5. ASSUME NEW r \in Requests, CompleteReject(r) \/ DropPrevious(r)
        PROVE  Cleaning' /\ ExpiredGone'
    BY <1>5 DEF CompleteReject, DropPrevious
  <1>6. ASSUME NEW r \in Requests, CompleteAccept(r) PROVE Cleaning' /\ ExpiredGone'
    BY <1>6 DEF CompleteAccept, Carried, OfUpload
  <1>7. ASSUME NEW r \in Requests, SetTake(r) PROVE Cleaning' /\ ExpiredGone'
    BY <1>7 DEF SetTake
  <1>8. ASSUME CleanSelect PROVE Cleaning' /\ ExpiredGone'
    BY <1>8 DEF CleanSelect, Stale
  <1>9. ASSUME NEW u \in Uploads, CleanDelete(u) PROVE Cleaning' /\ ExpiredGone'
    BY <1>9 DEF CleanDelete
  <1>10. ASSUME NEW u \in Uploads, CleanMark(u) PROVE Cleaning' /\ ExpiredGone'
    BY <1>10 DEF CleanMark
  <1>11. ASSUME CleanCrash \/ UNCHANGED vars PROVE Cleaning' /\ ExpiredGone'
    BY <1>11 DEF CleanCrash, Idle, vars
  <1> QED
    BY <1>1, <1>2, <1>3, <1>4, <1>5, <1>6, <1>7, <1>8, <1>9, <1>10, <1>11 DEF Next, Serve, Clean

LEMMA InvAlways == Spec => []Inv
  <1>1. Inv /\ [Next]_vars => Inv'
    BY TypeStep, CleaningStep DEF Inv
  <1> QED
    BY InitInv, <1>1, PTL DEF Spec

\* Every variable has its type, and a request that deletes the avatar it
\* replaced carries an upload.
THEOREM TypeCorrect == Spec => []TypeOK
  BY InvAlways, PTL DEF Inv

\* No row is expired while an object is stored for it, wherever a cleanup run
\* stopped and whatever else runs (cleanupStorage).
THEOREM NoOrphans == Spec => []ExpiredGone
  BY InvAlways, PTL DEF Inv

-----------------------------------------------------------------------------
(* The avatar. What a complete has decided of a file stays true of it      *)
(* unless another file is sent, and the cleanup takes an upload from a     *)
(* consumer only when it finds the row locked.                             *)

\* What a complete is about to write is true of the file, and a file that was
\* accepted is not about to be refused.
Checked ==
    /\ \A r \in Requests : pc[r] \in OfUpload => status[call[r].upload] # "absent"
    /\ \A r \in Requests :
         LET u == call[r].upload IN
         u \notin resent =>
           /\ pc[r] = "reject" => objects[u] # "good"
           /\ pc[r] = "accept" /\ status[u] = "pending" /\ age[u] < 2 => objects[u] = "good"

\* The upload a consumer is taking.
Taking(r) == pc[r] = "take" /\ seen[r] # "consumed"

\* A consumer holds the row of its upload, which is as it found it. The cleanup
\* has it only if it was taken from the consumer.
Taken ==
    /\ \A r, s \in Requests :
         pc[r] = "take" /\ pc[s] = "take" /\ call[r].upload = call[s].upload => r = s
    /\ \A r \in Requests : Taking(r) =>
         LET u == call[r].upload IN
         /\ status[u] = "uploaded"
         /\ u \notin overdue => u \notin cleaner.todo
         /\ u \notin resent \cup overdue => objects[u] = "good"

\* A key read from the profile names a consumed upload, and the one about to be
\* deleted is the avatar no more.
Replaced ==
    /\ \A r \in Requests : pc[r] = "clear" /\ seen[r] # NoUpload => status[seen[r]] = "consumed"
    /\ \A r \in Requests : pc[r] = "drop" => status[seen[r]] = "consumed" /\ avatar # seen[r]

\* The avatar's upload is consumed, and the cleanup has a consumed one only if it
\* was taken from its consumer.
Kept ==
    /\ avatar # NoUpload => status[avatar] = "consumed"
    /\ \A u \in cleaner.todo : status[u] = "consumed" => u \in overdue

Served == Checked /\ Taken /\ Replaced /\ Kept /\ AvatarServed /\ AcceptedStored

LEMMA InitServed == Init => Served
  BY UploadsAssumption
     DEF Init, Served, Checked, Taken, Taking, Replaced, Kept, AvatarServed, AcceptedStored, Idle,
         OfUpload

LEMMA ServedStep ==
    ASSUME Inv, Served, [Next]_vars
    PROVE  Served'
  <1> USE UploadsAssumption DEF Inv, TypeOK, Carried, Cleaning, Served, Checked, Taken, Taking,
          Replaced, Kept, AvatarServed, AcceptedStored, OfUpload, Statuses, Contents,
          GoTo, GoOn, NoCall, Drop, history
  <1>1. ASSUME NEW u \in Uploads, Create(u) PROVE Served'
    BY <1>1 DEF Create
  <1>2. ASSUME NEW u \in Uploads, Send(u) PROVE Served'
    BY <1>2 DEF Send, Decided
  <1>3. ASSUME NEW u \in Uploads, Tick(u) PROVE Served'
    BY <1>3 DEF Tick, RowLocked
  <1>4. ASSUME NEW r \in Requests, Arrive(r) PROVE Served'
    BY <1>4 DEF Arrive, Calls
  <1>5. ASSUME NEW r \in Requests, CompleteLook(r) PROVE Served'
    BY <1>5 DEF CompleteLook
  <1>6. ASSUME NEW r \in Requests, CompleteHead(r) \/ CompleteScan(r) PROVE Served'
    BY <1>6 DEF CompleteHead, CompleteScan
  <1>7. ASSUME NEW r \in Requests, CompleteReject(r) PROVE Served'
    BY <1>7 DEF CompleteReject
  <1>8. ASSUME NEW r \in Requests, CompleteAccept(r) PROVE Served'
    BY <1>8 DEF CompleteAccept
  <1>9. ASSUME NEW r \in Requests, SetLook(r) PROVE Served'
    BY <1>9 DEF SetLook, Takeable, RowLocked
  <1>10. ASSUME NEW r \in Requests, SetTake(r) PROVE Served'
    <2>1. CASE seen[r] = "consumed"
      BY <1>10, <2>1 DEF SetTake
    <2>2. CASE seen[r] # "consumed"
      <3>1. PICK u \in Uploads : u = call[r].upload /\ status[u] = "uploaded"
        BY <1>10, <2>2 DEF SetTake
      <3>2. /\ avatar' = u /\ status' = [status EXCEPT ![u] = "consumed"]
            /\ UNCHANGED <<age, objects, cleaner, crashes, history>>
            /\ GoOn(r, IF avatar \in Uploads \ {u} THEN "drop" ELSE "done", avatar)
        BY <1>10, <2>2, <3>1 DEF SetTake
      <3>3. Checked' /\ AvatarServed' /\ AcceptedStored'
        BY <1>10, <2>2, <3>1, <3>2 DEF SetTake
      <3>4. Taken'
        <4>1. \A s \in Requests : pc'[s] = "take" => s # r /\ pc[s] = "take" /\ call'[s] = call[s]
                                                    /\ seen'[s] = seen[s] /\ call[s].upload # u
          BY <1>10, <3>1, <3>2 DEF SetTake
        <4> QED
          BY <3>2, <4>1
      <3>5. Replaced' /\ Kept'
        BY <1>10, <2>2, <3>1, <3>2 DEF SetTake
      <3> QED
        BY <3>3, <3>4, <3>5
    <2> QED
      BY <2>1, <2>2
  <1>11. ASSUME NEW r \in Requests, RemoveLook(r) \/ RemoveClear(r) PROVE Served'
    BY <1>11 DEF RemoveLook, RemoveClear
  <1>12. ASSUME NEW r \in Requests, DropPrevious(r) PROVE Served'
    BY <1>12 DEF DropPrevious
  <1>13. ASSUME CleanSelect PROVE Served'
    BY <1>13 DEF CleanSelect, Stale, Unconsumed, RowLocked
  <1>14. ASSUME NEW u \in Uploads, CleanDelete(u) PROVE Served'
    BY <1>14 DEF CleanDelete
  <1>15. ASSUME NEW u \in Uploads, CleanMark(u) PROVE Served'
    BY <1>15 DEF CleanMark, RowLocked, Unconsumed
  <1>16. ASSUME CleanCrash \/ UNCHANGED vars PROVE Served'
    BY <1>16 DEF CleanCrash, Idle, vars
  <1> QED
    BY <1>1, <1>2, <1>3, <1>4, <1>5, <1>6, <1>7, <1>8, <1>9, <1>10, <1>11, <1>12, <1>13,
       <1>14, <1>15, <1>16 DEF Next, Serve, Clean

LEMMA ServedAlways == Spec => []Served
  <1>1. Inv /\ Served /\ [Next]_vars => Served'
    BY ServedStep
  <1> QED
    BY InvAlways, InitServed, <1>1, PTL DEF Spec

\* "Never a broken avatar" (AvatarService): the object of the avatar is stored and
\* is the file complete() checked, unless another was sent after complete() had
\* decided, or the daily job took the upload out of its consumer's hands.
THEOREM AvatarCorrect == Spec => []AvatarServed
  BY ServedAlways, PTL DEF Served

\* The file of an upload complete() accepted is stored until the upload expires,
\* unless another was sent after a complete() had decided.
THEOREM AcceptedCorrect == Spec => []AcceptedStored
  BY ServedAlways, PTL DEF Served
=============================================================================
