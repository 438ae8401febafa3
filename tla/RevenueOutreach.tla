---------------------------- MODULE RevenueOutreach ----------------------------
(***************************************************************************)
(* The mailing half of services/revenue/engine.js: prospects and their     *)
(* consent, one email campaign, and the runs that send it.                 *)
(*                                                                         *)
(* runCampaign takes its prospects once and then awaits the provider for   *)
(* each of them; between two awaits every other handler may run, another   *)
(* run of the same campaign among them.  Run is a slot for one such call.  *)
(* The code from one await to the next (the answer noted, the next row     *)
(* inserted, the next send begun) is one action.                           *)
(*                                                                         *)
(* Templates and scores are left out: the order of the prospects of a run  *)
(* is open.  A contact basis is sendable or not.                           *)
(***************************************************************************)
EXTENDS Naturals, FiniteSets

CONSTANTS Prospects,
          Runs,        \* slots of concurrent runCampaign calls
          NoProspect,
          DailyLimit   \* revenue_campaigns.daily_limit

ASSUME OutreachAssumption ==
  /\ NoProspect \notin Prospects
  /\ DailyLimit \in Nat \ {0}
  /\ IsFiniteSet(Prospects)

VARIABLES consent,    \* revenue_prospects.consent_status
          sendable,   \* prospects whose contact_basis may be mailed
          campaign,   \* revenue_campaigns.status
          message,    \* revenue_messages.status of the campaign's message
          recent,     \* prospects whose message was sent_at in the last day
          todo,       \* prospects a run has taken and not yet reached
          sending,    \* the prospect a run awaits the provider for
          short,      \* runs that found fewer prospects than their limit
          mailed,     \* how often the provider was handed each message
          overlapped  \* two runs were under way at once

contactVars == <<consent, sendable>>
runVars     == <<todo, sending, short>>
vars == <<contactVars, campaign, message, recent, runVars, mailed, overlapped>>

Init ==
  /\ consent  = [p \in Prospects |-> "absent"]
  /\ sendable = {}
  /\ campaign = "absent"
  /\ message  = [p \in Prospects |-> "absent"]
  /\ recent   = {}
  /\ todo     = [r \in Runs |-> {}]
  /\ sending  = [r \in Runs |-> NoProspect]
  /\ short    = {}
  /\ mailed   = [p \in Prospects |-> 0]
  /\ overlapped = FALSE

TypeOK ==
  /\ consent  \in [Prospects -> {"absent", "unknown", "opted_in", "unsubscribed"}]
  /\ sendable \subseteq Prospects
  /\ campaign \in {"absent", "draft", "approved", "running", "completed"}
  /\ message  \in [Prospects -> {"absent", "sending", "sent", "failed"}]
  /\ recent   \subseteq Prospects
  /\ todo     \in [Runs -> SUBSET Prospects]
  /\ sending  \in [Runs -> Prospects \cup {NoProspect}]
  /\ short    \subseteq Runs
  /\ mailed   \in [Prospects -> Nat]
  /\ overlapped \in BOOLEAN

-----------------------------------------------------------------------------
(* Contacts.                                                               *)

SetContact(p, mayMail, status) ==
  /\ sendable' = IF mayMail THEN sendable \cup {p} ELSE sendable \ {p}
  /\ consent'  = [consent EXCEPT ![p] = status]
  /\ UNCHANGED <<campaign, message, recent, runVars, mailed, overlapped>>

(* importProspects: an import of a known email overwrites basis and        *)
(* consent, an unsubscription included.                                    *)
ImportProspect(p, mayMail, status) == SetContact(p, mayMail, status)

(* captureInbound: whoever fills in the form opts in (again).              *)
CaptureInbound(p) == SetContact(p, TRUE, "opted_in")

Unsubscribe(p) ==
  /\ consent[p] # "absent"
  /\ SetContact(p, p \in sendable, "unsubscribed")

-----------------------------------------------------------------------------
(* The campaign.                                                           *)

SetCampaign(status) ==
  /\ campaign' = status
  /\ UNCHANGED <<contactVars, message, recent, runVars, mailed, overlapped>>

CreateCampaign  == campaign = "absent" /\ SetCampaign("draft")

(* approveCampaign, in any state: it also reopens a completed campaign.    *)
ApproveCampaign == campaign # "absent" /\ SetCampaign("approved")

(* A mutant: who unsubscribed is still mailed.                             *)
Eligible_Anybody ==
  {p \in sendable : consent[p] # "absent" /\ message[p] = "absent"}

(* The prospects a run may take: whoever has a message row of this         *)
(* campaign, of any status, is not taken again.                            *)
Eligible ==
  {p \in sendable : /\ consent[p] \notin {"absent", "unsubscribed"}
                    /\ message[p] = "absent"}

(* A mutant: the day's messages are not taken off the limit.               *)
RemainingToday_Ignored == DailyLimit

RemainingToday ==
  IF Cardinality(recent) >= DailyLimit THEN 0
                                       ELSE DailyLimit - Cardinality(recent)

Least(a, b) == IF a <= b THEN a ELSE b

Active == {r \in Runs : sending[r] # NoProspect}

(* A run is over.  Had it found fewer prospects than its limit, the        *)
(* campaign is completed.                                                  *)
EndRun(r, status) ==
  /\ campaign' = status
  /\ todo'     = [todo    EXCEPT ![r] = {}]
  /\ sending'  = [sending EXCEPT ![r] = NoProspect]
  /\ short'    = short \ {r}

(* The next prospect of a run: its row is inserted and its message handed  *)
(* to the provider.                                                        *)
Send(r, p, rest, rows) ==
  /\ message' = [rows    EXCEPT ![p] = "sending"]
  /\ mailed'  = [mailed  EXCEPT ![p] = @ + 1]
  /\ todo'    = [todo    EXCEPT ![r] = rest]
  /\ sending' = [sending EXCEPT ![r] = p]

(* runCampaign up to its first await.                                      *)
RunCampaign(r) ==
  /\ sending[r] = NoProspect
  /\ campaign \in {"approved", "running"}
  /\ \E requested \in 1..DailyLimit :
       LET limit == Least(requested, RemainingToday)
           count == Least(limit, Cardinality(Eligible))
       IN /\ limit > 0
          /\ \E taken \in SUBSET Eligible :
               /\ Cardinality(taken) = count
               /\ \/ /\ taken = {}
                     /\ EndRun(r, "completed")
                     /\ UNCHANGED <<message, mailed, overlapped>>
                  \/ /\ \E p \in taken : Send(r, p, taken \ {p}, message)
                     /\ campaign' = "running"
                     /\ short' = IF count < limit THEN short \cup {r} ELSE short
                     /\ overlapped' = (overlapped \/ Active # {})
  /\ UNCHANGED <<contactVars, recent>>

(* A mutant: the insert does not mind a row that is there.                 *)
MayInsert_Always(p, rows) == TRUE

(* UNIQUE(campaign_id, prospect_id).                                       *)
MayInsert(p, rows) == rows[p] = "absent"

(* The provider's answer, or its absence: the row is settled and the run   *)
(* goes on.  A prospect another run has taken meanwhile makes the INSERT   *)
(* fail, which ends the run where it is.                                   *)
Answer(r, status) ==
  LET rows == [message EXCEPT ![sending[r]] = status]
  IN /\ sending[r] # NoProspect
     /\ recent' = IF status = "sent" THEN recent \cup {sending[r]} ELSE recent
     /\ \/ /\ todo[r] = {}
           /\ EndRun(r, IF r \in short THEN "completed" ELSE campaign)
           /\ message' = rows /\ UNCHANGED mailed
        \/ \E p \in todo[r] :
             /\ MayInsert(p, rows)
             /\ Send(r, p, todo[r] \ {p}, rows)
             /\ UNCHANGED <<campaign, short>>
        \/ \E p \in todo[r] :
             /\ ~MayInsert(p, rows)
             /\ EndRun(r, campaign)
             /\ message' = rows /\ UNCHANGED mailed
     /\ UNCHANGED <<contactVars, overlapped>>

(* The process dies: rows that are "sending" stay so.                      *)
Crash ==
  /\ Active # {}
  /\ todo'    = [r \in Runs |-> {}]
  /\ sending' = [r \in Runs |-> NoProspect]
  /\ short'   = {}
  /\ UNCHANGED <<contactVars, campaign, message, recent, mailed, overlapped>>

(* A day has gone by since a message was sent.                             *)
Age(p) ==
  /\ p \in recent
  /\ recent' = recent \ {p}
  /\ UNCHANGED <<contactVars, campaign, message, runVars, mailed, overlapped>>

-----------------------------------------------------------------------------
Next ==
  \/ \E p \in Prospects :
       \/ \E mayMail \in BOOLEAN, status \in {"unknown", "opted_in"} :
            ImportProspect(p, mayMail, status)
       \/ CaptureInbound(p)
       \/ Unsubscribe(p)
       \/ Age(p)
  \/ CreateCampaign
  \/ ApproveCampaign
  \/ \E r \in Runs : \/ RunCampaign(r)
                     \/ \E status \in {"sent", "failed"} : Answer(r, status)
  \/ Crash

Spec == Init /\ [][Next]_vars

-----------------------------------------------------------------------------
(* One send per campaign and prospect, with overlapping runs and crashes:  *)
(* the row is inserted before the send, and nothing ever frees it.         *)
OneMailEach == \A p \in Prospects : mailed[p] <= 1

(* An unsubscription stops all mail but that of a run that had already     *)
(* taken the prospect, and so does a basis that may not be mailed.         *)
UnsubscribeStops ==
  [][ \A p \in Prospects :
        /\ consent[p] = "unsubscribed" \/ p \notin sendable
        /\ \A r \in Runs : p \notin todo[r]
        => mailed'[p] = mailed[p] ]_vars

(* As long as no two runs overlap, no day sees more messages confirmed     *)
(* than the daily limit.                                                   *)
DailyLimitKept == overlapped \/ Cardinality(recent) <= DailyLimit

=============================================================================
