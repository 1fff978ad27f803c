--------------------------- MODULE ExamMailProofs ---------------------------
(***************************************************************************)
(* What the status says about mail: MailInv of ExamInvariant is inductive, *)
(* and MailLedger of ExamController follows from it.  Neither needs the    *)
(* webhook.                                                                *)
(***************************************************************************)
EXTENDS ExamSafetyProofs

-----------------------------------------------------------------------------
(***************************************************************************)
(* Copies and deliveries.                                                  *)
(***************************************************************************)

\* Deliveries are not taken back.
Grow(b, c) == \A m \in Mails : b[m] > 0 => c[m] > 0

LEMMA KnownMails ==
  /\ \A i \in Students : <<"url", i>> \in Mails
  /\ <<"spares", 0>> \in Mails /\ <<"unlock", 0>> \in Mails /\ <<"lock", 0>> \in Mails
  BY DEF Mails

LEMMA CopyGrows ==
  ASSUME NEW e, NEW b, NEW c, CopyMail(e, b), Grow(b, c)
  PROVE  CopyMail(e, c)
  BY KnownMails DEF CopyMail, Grow

\* Sending a mail only adds deliveries, and one reported as sent is there.
LEMMA SendGrows ==
  ASSUME TypeOK, NEW m \in Mails, NEW sent, sendEmail(m, sent)
  PROVE  Grow(mailbox, mailbox') /\ (sent => mailbox'[m] > 0)
<1> SUFFICES ASSUME Send(m, sent)
             PROVE  Grow(mailbox, mailbox') /\ (sent => mailbox'[m] > 0)
  BY DEF sendEmail, Grow
<1>1. \A x \in Mails : mailbox[x] \in Nat
  BY ControllerAssumption DEF TypeOK
<1>2. PICK n \in Cost(sent)..(maxRetries + 1) : Deliver(m, n)
  BY DEF Send
<1>3. n \in Nat /\ (sent => n > 0)
  BY DEF Cost, maxRetries
<1>4. \A x \in Mails : x # m => mailbox'[x] = mailbox[x]
  BY <1>2 DEF Deliver, TypeOK
<1>5. mailbox'[m] = mailbox[m] + n \/ mailbox'[m] = MailCap
  BY <1>2 DEF Deliver, TypeOK
<1>6. (mailbox[m] > 0 => mailbox'[m] > 0) /\ (sent => mailbox'[m] > 0)
  BY <1>1, <1>3, <1>5, ControllerAssumption
<1>7. QED
  BY <1>4, <1>6 DEF Grow

LEMMA StayGrows == ASSUME UNCHANGED mailbox PROVE Grow(mailbox, mailbox')
  BY DEF Grow

\* Only mail, conditions and phase of a copy matter.
LEMMA SameMail ==
  ASSUME NEW e, NEW f, NEW b, CopyMail(e, b),
         f.mail = e.mail, f.conds = e.conds, f.phase = e.phase
  PROVE  CopyMail(f, b)
  BY DEF CopyMail

\* A new Exam claims nothing.
LEMMA NewMail == ASSUME NEW s, NEW b PROVE CopyMail(NewExam(s), b)
<1>1. /\ NewExam(s).mail = [i \in Students |-> "none"] /\ NewExam(s).conds = {}
      /\ NewExam(s).phase = "Unset"
  BY DEF NewExam
<1>2. ~Past(NewExam(s).phase, 3)
  BY <1>1, RankValues DEF Past
<1>3. QED
  BY <1>1, <1>2 DEF CopyMail

LEMMA IdleMail == ASSUME NEW b PROVE CopyMail(IdleCopy, b)
  BY NewMail DEF IdleCopy

\* The dispatch moves the phase of a copy, but not across Ready.
LEMMA DecideMail ==
  ASSUME NEW e \in ExamObjects, NEW b, CopyMail(e, b), NEW t \in Int, NEW f,
         f.mail = e.mail, f.conds = e.conds,
         f.phase = determineDesiredPhase(e.phase, e.spec, t)
  PROVE  CopyMail(f, b)
<1>1. e.phase \in ExamPhases /\ e.spec \in Specs
  BY DEF ExamObjects
<1>2. f.phase \in ExamPhases
  BY <1>1, DesiredPhaseType
<1>3. PhaseRank[e.phase] \in 0..6 /\ PhaseRank[f.phase] \in 0..6
  BY <1>1, <1>2, RankType
<1>4. Past(f.phase, 3) => Past(e.phase, 3)
  BY <1>1, DesiredOrigin
<1>5. PhaseRank[e.phase] <= PhaseRank[f.phase]
  BY <1>1, <1>2, DesiredFollows, FollowRank
<1>6. Past(e.phase, 3) => Past(f.phase, 3)
  BY <1>3, <1>5 DEF Past
<1>7. QED
  BY <1>4, <1>6 DEF CopyMail

-----------------------------------------------------------------------------
(***************************************************************************)
(* MailInv is inductive.                                                   *)
(***************************************************************************)

LEMMA MailInit == Init => MailInv
<1> SUFFICES ASSUME Init PROVE MailInv
  OBVIOUS
<1>1. CopyMail(exam, mailbox)
  BY NewMail DEF Init
<1>2. ASSUME NEW w \in Workers
      PROVE  /\ CopyMail(cache[w], mailbox) /\ CopyMail(loc[w], mailbox)
             /\ LoopMail(w) /\ HandlerPhaseOK(w)
  BY <1>1, IdleMail DEF Init, LoopMail, HandlerPhaseOK
<1>3. QED
  BY <1>1, <1>2 DEF MailInv, HandlerPhaseInv

\* A step of w has to be shown to keep the stored Exam and w's copy right.
LEMMA MailKeeps ==
  ASSUME MailInv, HandlerPhaseInv', Grow(mailbox, mailbox'), NEW w \in Workers,
         CopyMail(exam', mailbox'),
         \A v \in Workers : cache'[v] = cache[v] \/ cache'[v] = exam,
         \A v \in Workers \ {w} : pc'[v] = pc[v] /\ loc'[v] = loc[v] /\ todo'[v] = todo[v],
         pc'[w] # "removeFinalizer" => CopyMail(loc'[w], mailbox'),
         LoopMail(w)'
  PROVE  MailInv'
<1>1. ASSUME NEW v \in Workers PROVE CopyMail(cache'[v], mailbox')
  BY <1>1, CopyGrows DEF MailInv
<1>2. ASSUME NEW v \in Workers, v # w
      PROVE  (pc'[v] # "removeFinalizer" => CopyMail(loc'[v], mailbox')) /\ LoopMail(v)'
  <2>1. pc[v] # "removeFinalizer" => CopyMail(loc[v], mailbox)
    BY DEF MailInv
  <2>2. LoopMail(v)'
    BY <1>2 DEF MailInv, LoopMail
  <2>3. QED
    BY <1>2, <2>1, <2>2, CopyGrows
<1>3. QED
  BY <1>1, <1>2 DEF MailInv

\* The dispatch on a copy e.
LEMMA MailDecide ==
  ASSUME TypeOK, MailInv, HandlerPhaseInv', NEW w \in Workers,
         NEW e \in ExamObjects, CopyMail(e, mailbox), DecideOn(w, e),
         UNCHANGED <<clock, exam, cache, mailbox>>
  PROVE  MailInv'
<1> DEFINE d == determineDesiredPhase(e.phase, e.spec, clock)
<1>1. /\ loc'[w].mail = e.mail /\ loc'[w].conds = e.conds /\ loc'[w].phase = d
      /\ pc'[w] = HandlerLabel(e, d)
      /\ todo'[w] = CASE d = "Provisioning" -> Instances
                      [] d \in {"Unlocked", "Locked"} -> collectSlugs(e)
                      [] OTHER -> {}
      /\ \A v \in Workers \ {w} : pc'[v] = pc[v] /\ loc'[v] = loc[v] /\ todo'[v] = todo[v]
  BY DEF DecideOn, Goto, TypeOK, ExamObjects
<1>2. d \in ExamPhases
  BY DesiredPhaseType DEF ExamObjects
<1>3. CopyMail(loc'[w], mailbox')
  <2>1. clock \in Int
    BY Numbers
  <2>2. QED
    BY <1>1, <2>1, DecideMail
<1>4. LoopMail(w)'
  <2>1. pc'[w] # "provision" /\ (pc'[w] = "namespace" => d = "Provisioning")
    BY <1>1, <1>2, HandlerEntry
  <2>2. QED
    BY <1>1, <2>1 DEF LoopMail
<1>5. QED
  BY <1>1, <1>3, <1>4, StayGrows, MailKeeps DEF MailInv

\* A reconcile that returns.
LEMMA MailReturn ==
  ASSUME TypeOK, MailInv, HandlerPhaseInv', NEW w \in Workers, Return(w),
         CopyMail(exam', mailbox), UNCHANGED mailbox,
         \A v \in Workers : cache'[v] = cache[v] \/ cache'[v] = exam
  PROVE  MailInv'
<1>1. /\ pc'[w] = "idle" /\ loc'[w] = IdleCopy
      /\ \A v \in Workers \ {w} : pc'[v] = pc[v] /\ loc'[v] = loc[v] /\ todo'[v] = todo[v]
  BY DEF Return, TypeOK
<1>2. CopyMail(loc'[w], mailbox') /\ LoopMail(w)'
  BY <1>1, IdleMail DEF LoopMail
<1>3. QED
  BY <1>1, <1>2, StayGrows, MailKeeps

\* Beginning and end of a reconcile, the teardown, and the environment.
LEMMA MailFrame ==
  ASSUME TypeOK, MailInv, HandlerPhaseInv', NEW w \in Workers,
         \/ Get(w) \/ AddFinalizer(w) \/ Decide(w) \/ StatusUpdate(w)
         \/ FinalizeDelete(w) \/ RemoveFinalizer(w)
  PROVE  MailInv'
<1>0. /\ cache[w] \in ExamObjects /\ loc[w] \in ExamObjects
      /\ CopyMail(exam, mailbox) /\ CopyMail(cache[w], mailbox)
      /\ pc[w] # "removeFinalizer" => CopyMail(loc[w], mailbox)
      /\ UNCHANGED <<mailbox, cache>>
  BY DEF TypeOK, MailInv, Get, AddFinalizer, Decide, StatusUpdate, FinalizeDelete,
     RemoveFinalizer
<1>1. CASE ReturnNoWrite(w)
  BY <1>0, <1>1, MailReturn DEF ReturnNoWrite
<1>2. CASE ~ReturnNoWrite(w) /\ Get(w)
  <2>1. CASE DecideOn(w, cache[w])
    BY <1>0, <1>2, <2>1, MailDecide DEF Get
  <2>2. CASE ~DecideOn(w, cache[w])
    <3>1. /\ loc' = [loc EXCEPT ![w] = cache[w]]
          /\ Goto(w, IF cache[w].deleting THEN "finalizeDelete" ELSE "addFinalizer")
          /\ UNCHANGED <<todo, exam>>
      BY <1>2, <2>2 DEF Get
    <3>2. /\ loc'[w] = cache[w] /\ pc'[w] \in {"finalizeDelete", "addFinalizer"}
          /\ \A v \in Workers \ {w} : pc'[v] = pc[v] /\ loc'[v] = loc[v]
      BY <3>1 DEF Goto, TypeOK
    <3>3. CopyMail(exam', mailbox') /\ CopyMail(loc'[w], mailbox')
      BY <1>0, <3>1, <3>2
    <3>4. LoopMail(w)'
      BY <3>2 DEF LoopMail
    <3>5. QED
      BY <1>0, <3>1, <3>2, <3>3, <3>4, StayGrows, MailKeeps
  <2>3. QED
    BY <2>1, <2>2
<1>3. CASE ~ReturnNoWrite(w) /\ AddFinalizer(w)
  <2>1. /\ pc[w] = "addFinalizer"
        /\ exam' = [exam EXCEPT !.finalizer = TRUE]
        /\ loc' = [loc EXCEPT ![w].finalizer = TRUE]
        /\ Goto(w, "decide")
        /\ UNCHANGED todo
    BY <1>3 DEF AddFinalizer, Store
  <2>2. /\ loc'[w].mail = loc[w].mail /\ loc'[w].conds = loc[w].conds
        /\ loc'[w].phase = loc[w].phase /\ pc'[w] = "decide"
        /\ \A v \in Workers \ {w} : pc'[v] = pc[v] /\ loc'[v] = loc[v]
    BY <1>0, <2>1 DEF Goto, TypeOK, ExamObjects
  <2>3. exam'.mail = exam.mail /\ exam'.conds = exam.conds /\ exam'.phase = exam.phase
    BY <2>1 DEF TypeOK, ExamObjects
  <2>4. CopyMail(exam', mailbox')
    BY <1>0, <2>3, SameMail
  <2>5. CopyMail(loc'[w], mailbox')
    BY <1>0, <2>1, <2>2, SameMail
  <2>6. LoopMail(w)'
    BY <2>2 DEF LoopMail
  <2>7. QED
    BY <1>0, <2>1, <2>2, <2>4, <2>5, <2>6, StayGrows, MailKeeps
<1>4. CASE ~ReturnNoWrite(w) /\ Decide(w)
  BY <1>0, <1>4, MailDecide DEF Decide
<1>5. CASE ~ReturnNoWrite(w) /\ StatusUpdate(w)
  <2>1. /\ pc[w] = "status" /\ Return(w)
        /\ exam' = [exam EXCEPT !.phase = loc[w].phase, !.inst = loc[w].inst,
                                !.mail = loc[w].mail, !.conds = loc[w].conds]
    BY <1>5 DEF StatusUpdate, Store
  <2>2. /\ exam'.mail = loc[w].mail /\ exam'.conds = loc[w].conds
        /\ exam'.phase = loc[w].phase
    BY <2>1 DEF TypeOK, ExamObjects
  <2>3. CopyMail(exam', mailbox)
    BY <1>0, <2>1, <2>2, SameMail
  <2>4. QED
    BY <1>0, <2>1, <2>3, MailReturn
<1>6. CASE ~ReturnNoWrite(w) /\ FinalizeDelete(w)
  <2>1. /\ loc' = [loc EXCEPT ![w].phase = "TearingDown"] /\ Goto(w, "removeFinalizer")
        /\ UNCHANGED <<exam, todo>>
    BY <1>6 DEF FinalizeDelete
  <2>2. /\ pc'[w] = "removeFinalizer"
        /\ \A v \in Workers \ {w} : pc'[v] = pc[v] /\ loc'[v] = loc[v]
    BY <2>1 DEF Goto, TypeOK
  <2>3. LoopMail(w)'
    BY <2>2 DEF LoopMail
  <2>4. QED
    BY <1>0, <2>1, <2>2, <2>3, StayGrows, MailKeeps
<1>7. CASE ~ReturnNoWrite(w) /\ RemoveFinalizer(w)
  <2>1. Return(w) /\ exam' = [exam EXCEPT !.present = FALSE, !.finalizer = FALSE]
    BY <1>7 DEF RemoveFinalizer, Store
  <2>2. exam'.mail = exam.mail /\ exam'.conds = exam.conds /\ exam'.phase = exam.phase
    BY <2>1 DEF TypeOK, ExamObjects
  <2>3. CopyMail(exam', mailbox)
    BY <1>0, <2>2, SameMail
  <2>4. QED
    BY <1>0, <2>1, <2>3, MailReturn
<1>8. QED
  BY <1>1, <1>2, <1>3, <1>4, <1>5, <1>6, <1>7

\* reconcileProvisioning: mails become Pending, and every student has a status
\* before the exam is Ready.
LEMMA MailProvisioning ==
  ASSUME TypeOK, MailInv, HandlerPhaseInv', NEW w \in Workers,
         \/ CreateNamespace(w) \/ provisionInstance(w) \/ SlugError(w)
         \/ FinishProvisioning(w)
  PROVE  MailInv'
<1>0. /\ loc[w] \in ExamObjects /\ CopyMail(exam, mailbox) /\ CopyMail(loc[w], mailbox)
      /\ loc[w].phase = "Provisioning" /\ LoopMail(w) /\ UNCHANGED <<exam, cache>>
  BY DEF TypeOK, MailInv, HandlerPhaseInv, HandlerPhaseOK, CreateNamespace,
     provisionInstance, SlugError, FinishProvisioning
<1>1. /\ ~Past(loc[w].phase, 3) /\ "AllEmailsSent" \notin loc[w].conds
  BY <1>0, RankValues DEF Past, CopyMail
<1>2. Students \subseteq Instances
  BY ControllerAssumption DEF Students, Instances
<1>3. CASE CreateNamespace(w) \/ SlugError(w)
  <2>1. /\ pc[w] \in {"namespace", "provision"} /\ pc'[w] \in {"provision", "status"}
        /\ pc'[w] = "provision" => pc[w] = "namespace" /\ todo' = todo
        /\ \A v \in Workers \ {w} : pc'[v] = pc[v] /\ todo'[v] = todo[v]
        /\ UNCHANGED <<loc, mailbox>>
    BY <1>3 DEF CreateNamespace, SlugError, Goto, TypeOK
  <2>2. LoopMail(w)'
    BY <1>0, <1>2, <2>1 DEF LoopMail
  <2>3. QED
    BY <1>0, <2>1, <2>2, StayGrows, MailKeeps
<1>4. CASE provisionInstance(w)
  <2>1. PICK i \in todo[w], n \in 0..4 :
          /\ loc' = [loc EXCEPT ![w] = setInstanceStatus(loc[w], i, n = 4)]
          /\ todo' = [todo EXCEPT ![w] = todo[w] \ {i}]
    BY <1>4 DEF provisionInstance
  <2>2. pc[w] = "provision" /\ UNCHANGED <<pc, mailbox>>
    BY <1>4 DEF provisionInstance
  <2>3. /\ loc'[w] = setInstanceStatus(loc[w], i, n = 4)
        /\ todo'[w] = todo[w] \ {i}
        /\ \A v \in Workers \ {w} : loc'[v] = loc[v] /\ todo'[v] = todo[v]
    BY <2>1 DEF TypeOK
  <2>4. /\ loc'[w].phase = loc[w].phase
        /\ loc'[w].conds = loc[w].conds
        /\ loc'[w].mail = [j \in Students |-> IF j = i THEN "Pending" ELSE loc[w].mail[j]]
    BY <1>0, <2>3 DEF setInstanceStatus, ExamObjects
  <2>5. CopyMail(loc'[w], mailbox')
    BY <1>0, <1>1, <2>2, <2>4 DEF CopyMail
  <2>6. LoopMail(w)'
    BY <1>0, <2>2, <2>3, <2>4 DEF LoopMail
  <2>7. QED
    BY <1>0, <2>2, <2>3, <2>5, <2>6, StayGrows, MailKeeps
<1>5. CASE FinishProvisioning(w)
  <2>1. /\ pc[w] = "provision" /\ todo[w] = {} /\ pc'[w] = "status" /\ todo' = todo
        /\ \A v \in Workers \ {w} : pc'[v] = pc[v]
    BY <1>5 DEF FinishProvisioning, Goto, TypeOK
  <2>2. Grow(mailbox, mailbox')
    <3>1. PICK b \in BOOLEAN : sendEmail(<<"spares", 0>>, b) \/ UNCHANGED mailbox
      BY <1>5 DEF FinishProvisioning
    <3>2. QED
      BY <3>1, SendGrows, StayGrows, KnownMails
  <2>3. \A i \in Students : loc[w].mail[i] # "none"
    BY <1>0, <2>1 DEF LoopMail
  <2>4. /\ loc'[w].mail = loc[w].mail
        /\ loc'[w].conds \subseteq loc[w].conds \cup {"Provisioned"}
        /\ \A v \in Workers \ {w} : loc'[v] = loc[v]
    <3> DEFINE done == [loc[w] EXCEPT !.phase = "Ready",
                                      !.conds = loc[w].conds \cup {"Provisioned"}]
    <3>1. loc' = loc \/ loc' = [loc EXCEPT ![w] = done]
      BY <1>0, <1>5 DEF FinishProvisioning, TypeOK, ExamObjects
    <3>2. done.mail = loc[w].mail /\ done.conds = loc[w].conds \cup {"Provisioned"}
      BY <1>0 DEF ExamObjects
    <3>3. loc'[w] \in {loc[w], done} /\ \A v \in Workers \ {w} : loc'[v] = loc[v]
      BY <3>1 DEF TypeOK
    <3>4. QED
      BY <3>2, <3>3
  <2>5. CopyMail(loc'[w], mailbox)
    BY <1>0, <1>1, <2>3, <2>4 DEF CopyMail
  <2>6. CopyMail(loc'[w], mailbox') /\ CopyMail(exam', mailbox')
    BY <1>0, <2>2, <2>5, CopyGrows
  <2>7. LoopMail(w)'
    BY <2>1 DEF LoopMail
  <2>8. QED
    BY <1>0, <2>1, <2>2, <2>4, <2>6, <2>7, MailKeeps
<1>6. QED
  BY <1>3, <1>4, <1>5

\* reconcileReady, reconcileUnlock, reconcileLocked and the teardown: Sent and
\* the notified conditions are set after a delivery, AllEmailsSent when no
\* student is pending.
LEMMA MailHandlers ==
  ASSUME TypeOK, MailInv, HandlerPhaseInv', NEW w \in Workers,
         \/ sendNextPendingEmail(w) \/ ReadyContinue(w) \/ enforcePolicies(w)
         \/ deleteIngresses(w) \/ NotifyInstructor(w) \/ reconcileTeardown(w)
  PROVE  MailInv'
<1>0. /\ loc[w] \in ExamObjects /\ CopyMail(exam, mailbox) /\ CopyMail(loc[w], mailbox)
      /\ HandlerPhaseOK(w) /\ UNCHANGED <<exam, cache>>
  BY DEF TypeOK, MailInv, HandlerPhaseInv, sendNextPendingEmail, ReadyContinue,
     enforcePolicies, deleteIngresses, NotifyInstructor, reconcileTeardown
<1>1. /\ pc'[w] \in {"enforce", "deleteIngresses", "notify", "status"}
      /\ \A v \in Workers \ {w} : pc'[v] = pc[v] /\ loc'[v] = loc[v] /\ todo'[v] = todo[v]
  <2>1. \E l \in {"enforce", "deleteIngresses", "notify", "status"} : Goto(w, l)
    BY DEF sendNextPendingEmail, ReadyContinue, enforcePolicies, deleteIngresses,
       NotifyInstructor, reconcileTeardown, EnforceLabel, AfterEnforce
  <2>2. \A v \in Workers \ {w} : loc'[v] = loc[v] /\ todo'[v] = todo[v]
    BY DEF sendNextPendingEmail, ReadyContinue, enforcePolicies, deleteIngresses,
       NotifyInstructor, reconcileTeardown, TypeOK
  <2>3. QED
    BY <2>1, <2>2 DEF Goto, TypeOK
<1>2. LoopMail(w)'
  BY <1>1 DEF LoopMail
<1>3. ASSUME Grow(mailbox, mailbox'), CopyMail(loc'[w], mailbox') PROVE MailInv'
  BY <1>0, <1>1, <1>2, <1>3, CopyGrows, MailKeeps
<1>4. CASE sendNextPendingEmail(w)
  <2>1. PICK i \in Students, sent \in BOOLEAN :
          /\ sendEmail(<<"url", i>>, sent)
          /\ loc' = [loc EXCEPT ![w].mail[i] = IF sent THEN "Sent" ELSE "Failed"]
    BY <1>4 DEF sendNextPendingEmail
  <2>2. Grow(mailbox, mailbox') /\ (sent => mailbox'[<<"url", i>>] > 0)
    BY <2>1, SendGrows, KnownMails
  <2>3. /\ loc'[w].conds = loc[w].conds /\ loc'[w].phase = loc[w].phase
        /\ loc'[w].mail[i] = IF sent THEN "Sent" ELSE "Failed"
        /\ \A j \in Students : j # i => loc'[w].mail[j] = loc[w].mail[j]
    BY <1>0, <2>1 DEF TypeOK, ExamObjects
  <2>4. "AllEmailsSent" \notin loc[w].conds
    BY <1>4 DEF sendNextPendingEmail, EmailsDue
  <2>5. CopyMail(loc[w], mailbox')
    BY <1>0, <2>2, CopyGrows
  <2>6. CopyMail(loc'[w], mailbox')
    BY <2>2, <2>3, <2>4, <2>5 DEF CopyMail
  <2>7. QED
    BY <1>3, <2>2, <2>6
<1>5. CASE ReadyContinue(w)
  <2>1. /\ pc[w] = "ready" /\ ~MailsLeft(w) /\ UNCHANGED mailbox
    BY <1>5 DEF ReadyContinue
  <2>2. loc[w].phase = "Ready" /\ Past(loc[w].phase, 3)
    BY <1>0, <2>1, RankValues DEF HandlerPhaseOK, Past
  <2>3. \A i \in Students : loc[w].mail[i] \in {"Pending", "Sent", "Failed"}
    BY <1>0, <2>2 DEF CopyMail, ExamObjects, EmailStatuses
  <2>4. EmailsDue(w) => \A i \in Students : loc[w].mail[i] \in {"Sent", "Failed"}
    BY <2>1, <2>3 DEF MailsLeft, HasPending
  <2>5. \E cs : /\ cs \subseteq loc[w].conds
                        \cup {"DryRunComplete", "DryRunFailed", "NetworkPolicyEnforced"}
                        \cup (IF EmailsDue(w) THEN {"AllEmailsSent"} ELSE {})
                /\ loc' = [loc EXCEPT ![w] = [loc[w] EXCEPT !.conds = cs]]
    <3> DEFINE mailed == IF EmailsDue(w) THEN {"AllEmailsSent"} ELSE {}
               tested == IF DryRunDue(w) THEN DryRunConditions(loc[w]) ELSE {}
               cs == (loc[w].conds \cup mailed) \cup tested
    <3>1. loc' = [loc EXCEPT ![w] = [loc[w] EXCEPT !.conds = cs]]
      BY <1>5 DEF ReadyContinue, TypeOK
    <3>2. tested \subseteq {"DryRunComplete", "DryRunFailed", "NetworkPolicyEnforced"}
      BY DEF DryRunConditions
    <3>3. QED
      BY <3>1, <3>2
  <2>6. /\ loc'[w].mail = loc[w].mail /\ loc'[w].phase = loc[w].phase
        /\ loc'[w].conds \subseteq loc[w].conds
                \cup {"DryRunComplete", "DryRunFailed", "NetworkPolicyEnforced"}
                \cup (IF EmailsDue(w) THEN {"AllEmailsSent"} ELSE {})
    BY <1>0, <2>5 DEF TypeOK, ExamObjects
  <2>7. CopyMail(loc'[w], mailbox')
    BY <1>0, <2>1, <2>2, <2>4, <2>6 DEF CopyMail
  <2>8. QED
    BY <1>3, <2>1, <2>7, StayGrows
<1>6. CASE NotifyInstructor(w)
  <2> DEFINE e == loc[w]
  <2>0. pc[w] = "notify" /\ e.phase \in {"Unlocked", "Locked"}
    BY <1>0, <1>6 DEF NotifyInstructor, HandlerPhaseOK
  <2> DEFINE Done(cs) ==
               loc' = [loc EXCEPT ![w] = [e EXCEPT !.inst = MoveInstances(e), !.conds = cs]]
  <2>1. PICK cs \in SUBSET Conditions, sent \in BOOLEAN :
          /\ Done(cs)
          /\ \/ cs = e.conds /\ (UNCHANGED mailbox \/ sendEmail(<<NoticeOf(e.phase), 0>>, sent))
             \/ /\ cs = e.conds \cup {NotifiedOf(e.phase)} /\ sent
                /\ sendEmail(<<NoticeOf(e.phase), 0>>, sent)
    <3>1. e.conds \in SUBSET Conditions /\ e.conds \cup {NotifiedOf(e.phase)} \in SUBSET Conditions
      BY <1>0 DEF ExamObjects, Conditions, NotifiedOf
    <3>2. \A cs : loc' = [loc EXCEPT ![w].inst = MoveInstances(e), ![w].conds = cs] => Done(cs)
      BY DEF TypeOK
    <3>3. CASE NotifiedOf(e.phase) \in e.conds
      <4>1. Done(e.conds) /\ UNCHANGED mailbox
        BY <1>6, <3>2, <3>3 DEF NotifyInstructor
      <4>2. QED
        BY <3>1, <4>1
    <3>4. CASE NotifiedOf(e.phase) \notin e.conds
      <4>1. PICK b \in BOOLEAN :
              /\ sendEmail(<<NoticeOf(e.phase), 0>>, b)
              /\ loc' = [loc EXCEPT ![w].inst = MoveInstances(e),
                           ![w].conds = IF b THEN e.conds \cup {NotifiedOf(e.phase)}
                                        ELSE e.conds]
        BY <1>6, <3>4 DEF NotifyInstructor
      <4>2. Done(IF b THEN e.conds \cup {NotifiedOf(e.phase)} ELSE e.conds)
        BY <3>2, <4>1
      <4>3. CASE b
        BY <3>1, <4>1, <4>2, <4>3
      <4>4. CASE ~b
        BY <3>1, <4>1, <4>2, <4>4
      <4>5. QED
        BY <4>3, <4>4
    <3>5. QED
      BY <3>3, <3>4
  <2>2. /\ loc'[w].mail = e.mail /\ loc'[w].conds = cs /\ loc'[w].phase = e.phase
    BY <1>0, <2>1 DEF TypeOK, ExamObjects
  <2>3. <<NoticeOf(e.phase), 0>> \in Mails
    BY KnownMails DEF NoticeOf
  <2>4. Grow(mailbox, mailbox')
    BY <2>1, <2>3, SendGrows, StayGrows
  <2>5. CopyMail(e, mailbox')
    BY <1>0, <2>4, CopyGrows
  <2>6. CASE cs = e.conds
    BY <1>3, <2>2, <2>4, <2>5, <2>6, SameMail
  <2>7. CASE cs # e.conds
    <3>1. cs = e.conds \cup {NotifiedOf(e.phase)} /\ mailbox'[<<NoticeOf(e.phase), 0>>] > 0
      BY <2>1, <2>3, <2>7, SendGrows
    <3>2. CopyMail(loc'[w], mailbox')
      BY <2>0, <2>2, <2>5, <3>1 DEF CopyMail, NoticeOf, NotifiedOf
    <3>3. QED
      BY <1>3, <2>4, <3>2
  <2>8. QED
    BY <2>6, <2>7
<1>7. CASE enforcePolicies(w) \/ deleteIngresses(w) \/ reconcileTeardown(w)
  BY <1>0, <1>3, <1>7, StayGrows DEF enforcePolicies, deleteIngresses, reconcileTeardown
<1>8. QED
  BY <1>4, <1>5, <1>6, <1>7

\* Time, the instructor, the cluster and restarts.
LEMMA MailEnvironment ==
  ASSUME TypeOK, MailInv, HandlerPhaseInv', Environment
  PROVE  MailInv'
<1>0. UNCHANGED mailbox
  BY DEF Environment, Tick, DeleteExam, NamespaceGone, EditSpec, UserStore,
     DeploymentReady, Drift, InformerSync, Crash
<1>1. ASSUME UNCHANGED <<pc, loc, todo>>, CopyMail(exam', mailbox),
             \A v \in Workers : cache'[v] = cache[v] \/ cache'[v] = exam
      PROVE  MailInv'
  <2>1. \A v \in Workers : CopyMail(cache'[v], mailbox')
    BY <1>0, <1>1 DEF MailInv
  <2>2. \A v \in Workers : LoopMail(v)'
    BY <1>1 DEF MailInv, LoopMail
  <2>3. QED
    BY <1>0, <1>1, <2>1, <2>2 DEF MailInv
<1>2. ASSUME NEW s \in Specs, EditSpec(s) PROVE MailInv'
  <2>1. exam' = [exam EXCEPT !.spec = s] /\ UNCHANGED <<pc, loc, todo, cache>>
    BY <1>2 DEF EditSpec, UserStore, Store
  <2>2. exam'.mail = exam.mail /\ exam'.conds = exam.conds /\ exam'.phase = exam.phase
    BY <2>1 DEF TypeOK, ExamObjects
  <2>3. QED
    BY <1>1, <2>1, <2>2, SameMail DEF MailInv
<1>3. CASE DeleteExam
  <2>1. /\ exam' = IF exam.finalizer THEN [exam EXCEPT !.deleting = TRUE]
                   ELSE [exam EXCEPT !.deleting = TRUE, !.present = FALSE]
        /\ UNCHANGED <<pc, loc, todo, cache>>
    BY <1>3 DEF DeleteExam, UserStore, Store
  <2>2. exam'.mail = exam.mail /\ exam'.conds = exam.conds /\ exam'.phase = exam.phase
    BY <2>1 DEF TypeOK, ExamObjects
  <2>3. QED
    BY <1>1, <2>1, <2>2, SameMail DEF MailInv
<1>4. CASE \/ Tick \/ NamespaceGone \/ \E i \in Instances : DeploymentReady(i)
           \/ \E o \in objs : Drift(o)
  BY <1>1, <1>4 DEF Tick, NamespaceGone, DeploymentReady, Drift, worker, MailInv
<1>5. ASSUME NEW w \in Workers, InformerSync(w) PROVE MailInv'
  <2>1. \A v \in Workers : cache'[v] = cache[v] \/ cache'[v] = exam
    BY <1>5 DEF InformerSync, TypeOK
  <2>2. QED
    BY <1>1, <1>5, <2>1 DEF InformerSync, worker, MailInv
<1>6. ASSUME NEW w \in Workers, Crash(w) PROVE MailInv'
  <2>1. \A v \in Workers : cache'[v] = cache[v] \/ cache'[v] = exam
    BY <1>6 DEF Crash, TypeOK
  <2>2. QED
    BY <1>0, <1>6, <2>1, MailReturn DEF Crash, MailInv
<1>7. QED
  BY <1>2, <1>3, <1>4, <1>5, <1>6 DEF Environment

LEMMA MailNext == ASSUME TypeOK, MailInv, [Next]_vars PROVE MailInv'
<1>1. HandlerPhaseInv'
  BY HandlerPhaseNext DEF MailInv
<1>2. CASE UNCHANGED vars
  BY <1>1, <1>2 DEF vars, MailInv, LoopMail
<1>3. CASE Environment
  BY <1>1, <1>3, MailEnvironment
<1>4. ASSUME NEW w \in Workers, Reconcile(w) PROVE MailInv'
  <2>1. CASE GetNothing(w)
    BY <1>2, <2>1 DEF GetNothing
  <2>2. CASE ~GetNothing(w)
    BY <1>1, <1>4, <2>2, MailFrame, MailProvisioning, MailHandlers DEF Reconcile
  <2>3. QED
    BY <2>1, <2>2
<1>5. QED
  BY <1>2, <1>3, <1>4 DEF Next

\* However reconciles overlap, fail or restart, every copy of the Exam, stored,
\* cached or in flight, is true about the mails that were delivered.
THEOREM MailInvariance == Spec => []MailInv
<1>1. QED
  BY MailInit, MailNext, TypeCorrect, PTL DEF Spec

\* The stored status never claims a mail that was not delivered, and
\* AllEmailsSent never hides a student whose mail is still pending, whatever
\* fails, crashes or overlaps, with or without the webhook.
THEOREM Mail == Spec => []MailLedger
<1>1. MailInv => MailLedger
  BY DEF MailInv, CopyMail, MailLedger
<1>2. QED
  BY <1>1, MailInvariance, PTL
=============================================================================
