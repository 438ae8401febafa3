---------------------------- MODULE OutreachProofs ----------------------------
(***************************************************************************)
(* The mailing for any number of prospects and of overlapping runs, and    *)
(* any daily limit: nobody is sent a campaign twice, no run reaches        *)
(* somebody it had not taken before the unsubscription, and runs that do   *)
(* not overlap keep to the daily limit.                                    *)
(*                                                                         *)
(* The limit needs a strengthening: a run must have room for everything it *)
(* has still to send (RoomLeft), not only for what was confirmed.          *)
(***************************************************************************)
EXTENDS RevenueOutreach, FiniteSetTheorems, TLAPS

USE OutreachAssumption

(* A prospect without a row was never mailed.                              *)
MailHasRow == \A p \in Prospects : message[p] = "absent" => mailed[p] = 0

IdleTookNobody == \A r \in Runs : sending[r] = NoProspect => todo[r] = {}

RoomFor(r) == Cardinality(recent) + 1 + Cardinality(todo[r]) <= DailyLimit

RoomLeft ==
  overlapped \/ /\ Cardinality(recent) <= DailyLimit
                /\ \A r \in Active : RoomFor(r)
                /\ \A r, s \in Active : r = s

OutreachInv ==
  TypeOK /\ MailHasRow /\ OneMailEach /\ IdleTookNobody /\ RoomLeft

-----------------------------------------------------------------------------
(* Counting.                                                               *)

LEMMA ProspectsCount ==
  ASSUME NEW S \in SUBSET Prospects
  PROVE  IsFiniteSet(S) /\ Cardinality(S) \in Nat
BY FS_Subset, FS_CardinalityType

LEMMA OneLess ==
  ASSUME NEW S \in SUBSET Prospects, NEW p \in S
  PROVE  Cardinality(S \ {p}) = Cardinality(S) - 1
BY ProspectsCount, FS_RemoveElement

LEMMA OneMore ==
  ASSUME NEW S \in SUBSET Prospects, NEW p \in Prospects
  PROVE  Cardinality(S \cup {p}) <= Cardinality(S) + 1
<1>1. IsFiniteSet(S) /\ Cardinality(S) \in Nat
  BY ProspectsCount
<1>2. Cardinality(S \cup {p}) =
        IF p \in S THEN Cardinality(S) ELSE Cardinality(S) + 1
  BY <1>1, FS_AddElement
<1> QED
  BY <1>1, <1>2

LEMMA FewerCount ==
  ASSUME NEW S \in SUBSET Prospects, NEW R \in SUBSET S
  PROVE  Cardinality(R) <= Cardinality(S)
BY ProspectsCount, FS_Subset

-----------------------------------------------------------------------------
LEMMA InitOutreach == ASSUME Init PROVE OutreachInv
<1>1. TypeOK
  BY DEF Init, TypeOK
<1>2. MailHasRow /\ OneMailEach /\ IdleTookNobody
  BY DEF Init, MailHasRow, OneMailEach, IdleTookNobody
<1>3. RoomLeft
  BY FS_EmptySet DEF Init, RoomLeft, Active
<1> QED
  BY <1>1, <1>2, <1>3 DEF OutreachInv

(* Contacts and the campaign's status touch no message.                    *)
LEMMA QuietPreserves ==
  ASSUME OutreachInv, TypeOK',
         UNCHANGED <<message, recent, runVars, mailed, overlapped>>
  PROVE  OutreachInv'
BY DEF OutreachInv, MailHasRow, OneMailEach, IdleTookNobody, RoomLeft, RoomFor,
       Active, runVars

LEMMA ContactPreserves ==
  ASSUME OutreachInv, NEW p \in Prospects, NEW mayMail,
         NEW status \in {"unknown", "opted_in", "unsubscribed"},
         SetContact(p, mayMail, status)
  PROVE  OutreachInv'
<1>1. TypeOK'
  BY DEF OutreachInv, TypeOK, SetContact, runVars
<1> QED
  BY <1>1, QuietPreserves DEF SetContact

LEMMA CampaignPreserves ==
  ASSUME OutreachInv, NEW status \in {"draft", "approved"}, SetCampaign(status)
  PROVE  OutreachInv'
<1>1. TypeOK'
  BY DEF OutreachInv, TypeOK, SetCampaign, contactVars, runVars
<1> QED
  BY <1>1, QuietPreserves DEF SetCampaign

LEMMA AgePreserves ==
  ASSUME OutreachInv, NEW p \in Prospects, Age(p)
  PROVE  OutreachInv'
<1> USE DEF OutreachInv
<1>1. TypeOK'
  BY DEF TypeOK, Age, contactVars, runVars
<1>2. Cardinality(recent') <= Cardinality(recent)
      /\ Cardinality(recent) \in Nat /\ Cardinality(recent') \in Nat
  BY FewerCount, ProspectsCount DEF TypeOK, Age
<1>3. RoomLeft'
  <2> SUFFICES ASSUME ~overlapped' PROVE RoomLeft'
    BY DEF RoomLeft
  <2>1. Active' = Active /\ ~overlapped /\ UNCHANGED todo
    BY DEF Age, runVars, Active
  <2>2. ASSUME NEW r \in Active PROVE RoomFor(r)'
    <3>1. Cardinality(todo[r]) \in Nat
      BY ProspectsCount DEF Active, TypeOK
    <3>2. RoomFor(r)
      BY <2>1 DEF RoomLeft
    <3> QED
      BY <1>2, <2>1, <3>1, <3>2 DEF RoomFor
  <2> QED
    BY <1>2, <2>1, <2>2 DEF RoomLeft
<1> QED
  BY <1>1, <1>3 DEF Age, runVars, MailHasRow, OneMailEach, IdleTookNobody

LEMMA CrashPreserves == ASSUME OutreachInv, Crash PROVE OutreachInv'
<1> USE DEF OutreachInv
<1>1. TypeOK'
  BY DEF TypeOK, Crash, contactVars
<1>2. RoomLeft'
  BY DEF Crash, RoomLeft, Active
<1> QED
  BY <1>1, <1>2 DEF Crash, MailHasRow, OneMailEach, IdleTookNobody

-----------------------------------------------------------------------------
(* What a run takes fits into what is left of the day.                     *)
LEMMA TakenFits ==
  ASSUME TypeOK, NEW requested \in 1..DailyLimit, NEW taken \in SUBSET Prospects,
         Cardinality(taken) = Least(Least(requested, RemainingToday),
                                    Cardinality(Eligible))
  PROVE  Cardinality(recent) <= DailyLimit
           => Cardinality(recent) + Cardinality(taken) <= DailyLimit
<1>1. Cardinality(recent) \in Nat /\ Cardinality(Eligible) \in Nat
      /\ Cardinality(taken) \in Nat
  BY ProspectsCount DEF TypeOK, Eligible
<1>2. Cardinality(taken) <= RemainingToday /\ RemainingToday \in Nat
  BY <1>1 DEF Least, RemainingToday
<1> QED
  BY <1>1, <1>2 DEF RemainingToday

LEMMA RunPreserves ==
  ASSUME OutreachInv, NEW r \in Runs, RunCampaign(r)
  PROVE  OutreachInv'
<1> USE DEF OutreachInv
<1>1. PICK requested \in 1..DailyLimit, taken \in SUBSET Eligible :
        /\ Cardinality(taken) = Least(Least(requested, RemainingToday),
                                      Cardinality(Eligible))
        /\ \/ /\ taken = {} /\ EndRun(r, "completed")
              /\ UNCHANGED <<message, mailed, overlapped>>
           \/ /\ \E p \in taken : Send(r, p, taken \ {p}, message)
              /\ campaign' = "running"
              /\ short' \subseteq short \cup {r}
              /\ overlapped' = (overlapped \/ Active # {})
  BY DEF RunCampaign
<1>2. sending[r] = NoProspect /\ UNCHANGED <<contactVars, recent>>
      /\ Eligible \subseteq Prospects /\ taken \subseteq Prospects
  BY <1>1 DEF RunCampaign, Eligible, TypeOK
<1>3. CASE EndRun(r, "completed") /\ UNCHANGED <<message, mailed, overlapped>>
  <2>1. UNCHANGED <<todo, sending>>
    BY <1>2, <1>3 DEF EndRun, TypeOK, IdleTookNobody
  <2>2. TypeOK'
    BY <1>2, <1>3, <2>1 DEF EndRun, TypeOK, contactVars
  <2>3. RoomLeft'
    BY <1>2, <1>3, <2>1 DEF RoomLeft, RoomFor, Active
  <2> QED
    BY <1>3, <2>1, <2>2, <2>3 DEF MailHasRow, OneMailEach, IdleTookNobody
<1>4. CASE /\ \E p \in taken : Send(r, p, taken \ {p}, message)
           /\ campaign' = "running"
           /\ short' \subseteq short \cup {r}
           /\ overlapped' = (overlapped \/ Active # {})
  <2>1. PICK p \in taken : Send(r, p, taken \ {p}, message)
    BY <1>4
  <2>2. p \in Prospects /\ message[p] = "absent" /\ p # NoProspect
    BY <1>1, <1>2 DEF Eligible
  <2>3. TypeOK'
    BY <1>2, <1>4, <2>1, <2>2 DEF Send, TypeOK, contactVars
  <2>4. MailHasRow' /\ OneMailEach'
    BY <2>1, <2>2 DEF Send, MailHasRow, OneMailEach, TypeOK
  <2>5. IdleTookNobody'
    BY <2>1, <2>2 DEF Send, IdleTookNobody, TypeOK
  <2>6. RoomLeft'
    <3> SUFFICES ASSUME ~overlapped' PROVE RoomLeft'
      BY DEF RoomLeft
    <3>1. Active = {} /\ ~overlapped
      BY <1>4
    <3>2. Active' = {r}
      BY <2>1, <2>2, <3>1 DEF Active, Send, TypeOK
    <3>3. Cardinality(recent) + Cardinality(taken) <= DailyLimit
      BY <1>1, <1>2, <3>1, TakenFits DEF RoomLeft
    <3>4. Cardinality(todo'[r]) = Cardinality(taken) - 1
          /\ Cardinality(taken) \in Nat /\ Cardinality(recent) \in Nat
      BY <1>2, <2>1, OneLess, ProspectsCount DEF Send, TypeOK
    <3>5. RoomFor(r)'
      BY <1>2, <3>3, <3>4 DEF RoomFor
    <3> QED
      BY <1>2, <3>1, <3>2, <3>5 DEF RoomLeft
  <2> QED
    BY <2>3, <2>4, <2>5, <2>6
<1> QED
  BY <1>1, <1>3, <1>4

-----------------------------------------------------------------------------
(* The three ways a run goes on from an answer, in the words of Answer.    *)
AnswerCases(r, rows) ==
  \/ EndRun(r, IF r \in short THEN "completed" ELSE campaign)
     /\ message' = rows /\ UNCHANGED mailed
  \/ EndRun(r, campaign) /\ message' = rows /\ UNCHANGED mailed
  \/ \E p \in todo[r] : /\ MayInsert(p, rows)
                        /\ Send(r, p, todo[r] \ {p}, rows)
                        /\ UNCHANGED <<campaign, short>>

LEMMA AnswerPreserves ==
  ASSUME OutreachInv, NEW r \in Runs, NEW status \in {"sent", "failed"},
         Answer(r, status)
  PROVE  OutreachInv'
<1> USE DEF OutreachInv
<1> DEFINE rows == [message EXCEPT ![sending[r]] = status]
<1>1. /\ sending[r] \in Prospects /\ r \in Active
      /\ recent' \subseteq recent \cup {sending[r]}
      /\ UNCHANGED <<contactVars, overlapped>>
      /\ AnswerCases(r, rows)
  BY DEF Answer, AnswerCases, TypeOK, Active
<1>2. /\ rows \in [Prospects -> {"absent", "sending", "sent", "failed"}]
      /\ \A p \in Prospects : rows[p] = "absent" => message[p] = "absent"
  BY <1>1 DEF TypeOK
<1>3. /\ Cardinality(recent') <= Cardinality(recent) + 1
      /\ Cardinality(recent') \in Nat /\ Cardinality(recent) \in Nat
      /\ Cardinality(todo[r]) \in Nat
  <2>1. recent \cup {sending[r]} \in SUBSET Prospects
    BY <1>1 DEF TypeOK
  <2>2. Cardinality(recent') <= Cardinality(recent \cup {sending[r]})
    BY <1>1, <2>1, FewerCount
  <2>3. recent' \in SUBSET Prospects /\ todo[r] \in SUBSET Prospects
    BY <1>1, <2>1 DEF TypeOK
  <2> QED
    BY <1>1, <2>1, <2>2, <2>3, OneMore, ProspectsCount DEF TypeOK
<1>4. ASSUME NEW next \in {"completed", campaign}, EndRun(r, next),
             message' = rows, UNCHANGED mailed
      PROVE  OutreachInv'
  <2>1. TypeOK'
    BY <1>1, <1>2, <1>4 DEF EndRun, TypeOK, contactVars
  <2>2. MailHasRow' /\ OneMailEach'
    BY <1>2, <1>4 DEF MailHasRow, OneMailEach
  <2>3. IdleTookNobody'
    BY <1>4 DEF EndRun, IdleTookNobody, TypeOK
  <2>4. RoomLeft'
    <3> SUFFICES ASSUME ~overlapped PROVE RoomLeft'
      BY <1>1 DEF RoomLeft
    <3>1. Active' = {}
      BY <1>1, <1>4 DEF EndRun, Active, TypeOK, RoomLeft
    <3>2. Cardinality(recent') <= DailyLimit
      BY <1>1, <1>3 DEF RoomLeft, RoomFor
    <3> QED
      BY <3>1, <3>2 DEF RoomLeft
  <2> QED
    BY <2>1, <2>2, <2>3, <2>4
<1>5. ASSUME NEW p \in todo[r], MayInsert(p, rows),
             Send(r, p, todo[r] \ {p}, rows), UNCHANGED <<campaign, short>>
      PROVE  OutreachInv'
  <2>1. p \in Prospects /\ p # NoProspect /\ message[p] = "absent"
    BY <1>2, <1>5 DEF MayInsert, TypeOK
  <2>2. TypeOK'
    BY <1>1, <1>2, <1>5, <2>1 DEF Send, TypeOK, contactVars
  <2>3. MailHasRow' /\ OneMailEach'
    BY <1>2, <1>5, <2>1 DEF Send, MailHasRow, OneMailEach, TypeOK
  <2>4. IdleTookNobody'
    BY <1>5, <2>1 DEF Send, IdleTookNobody, TypeOK
  <2>5. RoomLeft'
    <3> SUFFICES ASSUME ~overlapped PROVE RoomLeft'
      BY <1>1 DEF RoomLeft
    <3>1. Active' = Active /\ Active = {r}
      BY <1>1, <1>5, <2>1 DEF Send, Active, TypeOK, RoomLeft
    <3>2. Cardinality(todo'[r]) = Cardinality(todo[r]) - 1
      BY <1>5, OneLess DEF Send, TypeOK
    <3>3. RoomFor(r)' /\ Cardinality(recent') <= DailyLimit
      BY <1>1, <1>3, <3>2 DEF RoomLeft, RoomFor
    <3> QED
      BY <3>1, <3>3 DEF RoomLeft
  <2> QED
    BY <2>2, <2>3, <2>4, <2>5
<1> QED
  BY <1>1, <1>4, <1>5 DEF AnswerCases

-----------------------------------------------------------------------------
LEMMA StepPreserves ==
  ASSUME OutreachInv, [Next]_vars
  PROVE  OutreachInv'
<1>1. CASE \E p \in Prospects :
             \E mayMail \in BOOLEAN, status \in {"unknown", "opted_in"} :
               ImportProspect(p, mayMail, status)
  BY <1>1, ContactPreserves DEF ImportProspect
<1>2. CASE \E p \in Prospects : Age(p)
  BY <1>2, AgePreserves
<1>3. CASE CreateCampaign \/ ApproveCampaign
  BY <1>3, CampaignPreserves DEF CreateCampaign, ApproveCampaign
<1>4. CASE \E r \in Runs : RunCampaign(r)
  BY <1>4, RunPreserves
<1>5. CASE \E r \in Runs, status \in {"sent", "failed"} : Answer(r, status)
  BY <1>5, AnswerPreserves
<1>6. CASE Crash
  BY <1>6, CrashPreserves
<1>7. CASE UNCHANGED vars
  <2>1. TypeOK'
    BY <1>7 DEF OutreachInv, TypeOK, vars, contactVars, runVars
  <2> QED
    BY <1>7, <2>1, QuietPreserves DEF vars
<1>8. CASE \E p \in Prospects : CaptureInbound(p)
  BY <1>8, ContactPreserves DEF CaptureInbound
<1>9. CASE \E p \in Prospects : Unsubscribe(p)
  <2>1. PICK p \in Prospects : SetContact(p, p \in sendable, "unsubscribed")
    BY <1>9 DEF Unsubscribe
  <2> QED
    BY <2>1, ContactPreserves
<1> QED
  BY <1>1, <1>2, <1>3, <1>4, <1>5, <1>6, <1>7, <1>8, <1>9 DEF Next

LEMMA AlwaysOutreach == Spec => []OutreachInv
<1>1. Init => OutreachInv
  BY InitOutreach
<1>2. OutreachInv /\ [Next]_vars => OutreachInv'
  BY StepPreserves
<1> QED
  BY <1>1, <1>2, PTL DEF Spec

(* Every variable keeps its type.                                          *)
THEOREM OutreachTypes == Spec => []TypeOK
<1>1. OutreachInv => TypeOK
  BY DEF OutreachInv
<1> QED
  BY <1>1, AlwaysOutreach, PTL

(* runCampaign hands the provider at most one message per prospect, however *)
(* many runs overlap and wherever they are cut off.                        *)
THEOREM MailedOnce == Spec => []OneMailEach
<1>1. OutreachInv => OneMailEach
  BY DEF OutreachInv
<1> QED
  BY <1>1, AlwaysOutreach, PTL

(* The daily limit of a campaign holds while no two of its runs overlap.   *)
THEOREM LimitKept == Spec => []DailyLimitKept
<1>1. OutreachInv => DailyLimitKept
  BY DEF OutreachInv, RoomLeft, DailyLimitKept
<1> QED
  BY <1>1, AlwaysOutreach, PTL

(* Nobody who unsubscribed, or whose basis may not be mailed, is sent      *)
(* anything, but by a run that had taken them before.                      *)
THEOREM UnsubscribedLeftAlone == Spec => UnsubscribeStops
<1>1. ASSUME TypeOK, [Next]_vars, NEW p \in Prospects,
             consent[p] = "unsubscribed" \/ p \notin sendable,
             \A r \in Runs : p \notin todo[r]
      PROVE  mailed'[p] = mailed[p]
  <2>1. CASE UNCHANGED mailed
    BY <2>1
  <2>2. CASE \E r \in Runs : RunCampaign(r)
    <3>1. p \notin Eligible
      BY <1>1 DEF Eligible
    <3>2. UNCHANGED mailed
          \/ \E q \in Eligible : mailed' = [mailed EXCEPT ![q] = @ + 1]
      BY <2>2 DEF RunCampaign, Send
    <3> QED
      BY <1>1, <3>1, <3>2 DEF TypeOK
  <2>3. CASE \E r \in Runs, status \in {"sent", "failed"} : Answer(r, status)
    <3>1. UNCHANGED mailed
          \/ \E r \in Runs : \E q \in todo[r] :
               mailed' = [mailed EXCEPT ![q] = @ + 1]
      BY <2>3 DEF Answer, Send
    <3> QED
      BY <1>1, <3>1 DEF TypeOK
  <2>4. UNCHANGED mailed \/ (\E r \in Runs : RunCampaign(r))
        \/ \E r \in Runs, status \in {"sent", "failed"} : Answer(r, status)
    BY <1>1 DEF Next, vars, ImportProspect, CaptureInbound, Unsubscribe,
       SetContact, Age, CreateCampaign, ApproveCampaign, SetCampaign, Crash
  <2> QED
    BY <2>1, <2>2, <2>3, <2>4
<1>2. TypeOK /\ [Next]_vars =>
        [ \A p \in Prospects :
            /\ consent[p] = "unsubscribed" \/ p \notin sendable
            /\ \A r \in Runs : p \notin todo[r]
            => mailed'[p] = mailed[p] ]_vars
  BY <1>1
<1> QED
  BY <1>2, OutreachTypes, PTL DEF Spec, UnsubscribeStops

=============================================================================
