--------------------------- MODULE GovernanceProofs ---------------------------
(***************************************************************************)
(* What the governance kernel guarantees for any number of users, packages *)
(* and grants, whoever holds which roles and whatever is submitted.        *)
(*                                                                         *)
(* The properties about grants are not inductive one by one: that a grant  *)
(* keeps its two keys depends on its package never being reviewed again,   *)
(* which holds because package and grant agree, which depends on a package *)
(* having one grant only, because it is issued from awaiting_boss.         *)
(*                                                                         *)
(* The monthly limit is about sums over sets of grants, of any size; the   *)
(* lemmas on sums it takes come first.                                     *)
(***************************************************************************)
EXTENDS Governance, FiniteSetTheorems, WellFoundedInduction, TLAPS

-----------------------------------------------------------------------------
(* Sums over finite sets.  The library's induction theorems are stated for *)
(* predicates; with sets in their place, induction is an instance of the   *)
(* least number of a set.                                                  *)
LEMMA LeastNumber ==
  ASSUME NEW T \in SUBSET Nat, T # {}
  PROVE  \E n \in T : \A k \in T : n <= k
<1>1. IsWellFoundedOn(OpToRel(<, Nat), Nat)
  BY NatLessThanWellFounded
<1>2. \E n \in T : \A k \in T : ~ (<<k, n>> \in OpToRel(<, Nat))
  BY <1>1, WFMin
<1>3. \A k, n \in T : k < n => <<k, n>> \in OpToRel(<, Nat)
  BY DEF OpToRel
<1>4. \A k, n \in T : k < n \/ n <= k
  OBVIOUS
<1> QED
  BY <1>2, <1>3, <1>4

(* A set that has 0 and, with each number, its successor has them all.     *)
LEMMA CountingUp ==
  ASSUME NEW Good, 0 \in Good, \A n \in Nat : n \in Good => n + 1 \in Good
  PROVE  Nat \subseteq Good
<1> DEFINE Bad == Nat \ Good
<1> SUFFICES ASSUME Bad # {} PROVE FALSE
  OBVIOUS
<1>1. PICK n \in Bad : \A k \in Bad : n <= k
  BY LeastNumber
<1>2. n - 1 \in Nat /\ n - 1 \notin Bad /\ n = (n - 1) + 1
  BY <1>1
<1> QED
  BY <1>1, <1>2

(* What holds of a set whenever it holds of all that lack one element of   *)
(* it holds of every subset of a finite set.                               *)
LEMMA InductionOnSubsets ==
  ASSUME NEW S, IsFiniteSet(S), NEW Good, {} \in Good,
         \A A \in SUBSET S :
           A # {} /\ (\A x \in A : A \ {x} \in Good) => A \in Good
  PROVE  \A A \in SUBSET S : A \in Good
<1> DEFINE Bad   == (SUBSET S) \ Good
           Sizes == {Cardinality(A) : A \in Bad}
<1>1. \A A \in SUBSET S : IsFiniteSet(A) /\ Cardinality(A) \in Nat
  BY FS_Subset, FS_CardinalityType
<1>2. SUFFICES ASSUME Bad # {} PROVE FALSE
  OBVIOUS
<1>3. PICK A \in Bad : \A B \in Bad : Cardinality(A) <= Cardinality(B)
  <2>1. Sizes \in SUBSET Nat /\ Sizes # {}
    BY <1>1, <1>2
  <2>2. PICK n \in Sizes : \A k \in Sizes : n <= k
    BY <2>1, LeastNumber
  <2> QED
    BY <2>2
<1>4. \A x \in A : Cardinality(A \ {x}) < Cardinality(A)
  BY <1>1, <1>3, FS_RemoveElement
<1>5. \A x \in A : A \ {x} \in Good
  <2> SUFFICES ASSUME NEW x \in A, A \ {x} \notin Good PROVE FALSE
    OBVIOUS
  <2>1. A \ {x} \in Bad
    BY <1>3
  <2> QED
    BY <1>1, <1>3, <1>4, <2>1
<1> QED
  BY <1>3, <1>5

(* How the community modules add up f over S: one chosen element after the *)
(* other, by a function on the subsets of S.                               *)
First(s) == CHOOSE x \in s : TRUE

SumsUp(iter, f, S) ==
  iter = [s \in SUBSET S |-> IF s = {} THEN 0
                             ELSE f[First(s)] + iter[s \ {First(s)}]]

Total(f, S) == (CHOOSE iter : SumsUp(iter, f, S))[S]

LEMMA FirstIsIn == ASSUME NEW s, s # {} PROVE First(s) \in s
BY DEF First

(* There is such a function: it can be continued from the subsets of up to *)
(* n elements to those of n + 1.                                           *)
LEMMA SumsExist ==
  ASSUME NEW f, NEW S, IsFiniteSet(S)
  PROVE  \E iter : SumsUp(iter, f, S)
<1> DEFINE Rest(s) == s \ {First(s)}
           UpTo(iter, n) == \A s \in SUBSET S : Cardinality(s) <= n =>
             iter[s] = IF s = {} THEN 0 ELSE f[First(s)] + iter[Rest(s)]
           Good == {n \in Nat : \E iter : UpTo(iter, n)}
<1>1. \A s \in SUBSET S : IsFiniteSet(s) /\ Cardinality(s) \in Nat
  BY FS_Subset, FS_CardinalityType
<1>2. 0 \in Good
  <2>1. UpTo([s \in SUBSET S |-> 0], 0)
    BY <1>1, FS_EmptySet
  <2> QED
    BY <2>1
<1>3. ASSUME NEW n \in Nat, n \in Good
      PROVE  n + 1 \in Good
  <2>1. PICK iter : UpTo(iter, n)
    BY <1>3
  <2> DEFINE more == [s \in SUBSET S |-> IF Cardinality(s) <= n THEN iter[s]
                                         ELSE f[First(s)] + iter[Rest(s)]]
  <2>2. ASSUME NEW s \in SUBSET S, Cardinality(s) <= n + 1
        PROVE  more[s] = IF s = {} THEN 0 ELSE f[First(s)] + more[Rest(s)]
    <3>1. CASE s = {}
      <4>1. Cardinality(s) <= n
        BY <3>1, FS_EmptySet
      <4> QED
        BY <2>1, <3>1, <4>1
    <3>2. CASE s # {}
      <4>1. Rest(s) \in SUBSET S /\ Cardinality(Rest(s)) = Cardinality(s) - 1
        BY <1>1, <3>2, FirstIsIn, FS_RemoveElement
      <4>2. Cardinality(Rest(s)) <= n
        BY <1>1, <2>2, <4>1
      <4>3. more[Rest(s)] = iter[Rest(s)]
        BY <4>1, <4>2
      <4>4. Cardinality(s) <= n => iter[s] = f[First(s)] + iter[Rest(s)]
        BY <2>1, <3>2
      <4>5. more[s] = f[First(s)] + iter[Rest(s)]
        BY <4>4
      <4> QED
        BY <3>2, <4>3, <4>5
    <3> QED
      BY <3>1, <3>2
  <2>3. UpTo(more, n + 1)
    BY <2>2
  <2> HIDE DEF more, UpTo
  <2> QED
    BY <2>3
<1>4. Cardinality(S) \in Good
  <2>1. Nat \subseteq Good
    <3> HIDE DEF Good
    <3> QED
      BY <1>2, <1>3, CountingUp
  <2> QED
    BY <1>1, <2>1
<1>5. PICK iter : UpTo(iter, Cardinality(S))
  BY <1>4
<1> DEFINE sums == [s \in SUBSET S |-> iter[s]]
<1>6. \A s \in SUBSET S : sums[s] = IF s = {} THEN 0 ELSE f[First(s)] + sums[Rest(s)]
  <2>1. \A s \in SUBSET S : Cardinality(s) <= Cardinality(S) /\ Rest(s) \in SUBSET S
    BY FS_Subset
  <2> QED
    BY <1>5, <2>1
<1>7. SumsUp(sums, f, S)
  BY <1>6 DEF SumsUp
<1> QED
  BY <1>7

(* Two such functions agree wherever what they add up does.                *)
LEMMA SumsAgree ==
  ASSUME NEW f, NEW g, NEW S, NEW T, NEW a, NEW b, SumsUp(a, f, S), SumsUp(b, g, T),
         NEW U, IsFiniteSet(U), U \subseteq S, U \subseteq T,
         \A x \in U : f[x] = g[x]
  PROVE  a[U] = b[U]
<1> DEFINE Good == {A \in SUBSET U : a[A] = b[A]}
<1>1. {} \in Good
  BY DEF SumsUp
<1>2. ASSUME NEW A \in SUBSET U, A # {}, \A x \in A : A \ {x} \in Good
      PROVE  A \in Good
  <2>1. First(A) \in A
    BY <1>2, FirstIsIn
  <2>2. a[A \ {First(A)}] = b[A \ {First(A)}]
    BY <1>2, <2>1
  <2>3. /\ a[A] = f[First(A)] + a[A \ {First(A)}]
        /\ b[A] = g[First(A)] + b[A \ {First(A)}]
    BY <1>2 DEF SumsUp
  <2> QED
    BY <2>1, <2>2, <2>3
<1>3. \A A \in SUBSET U : A \in Good
  <2> HIDE DEF Good
  <2> QED
    BY <1>1, <1>2, InductionOnSubsets
<1> QED
  BY <1>3

(* So the function for S gives the total of every subset of S.             *)
LEMMA TotalSums ==
  ASSUME NEW f, NEW S, IsFiniteSet(S), NEW iter, SumsUp(iter, f, S),
         NEW U \in SUBSET S
  PROVE  iter[U] = Total(f, U)
<1>1. IsFiniteSet(U)
  BY FS_Subset
<1>2. SumsUp(CHOOSE i : SumsUp(i, f, U), f, U)
  BY <1>1, SumsExist
<1> QED
  BY <1>1, <1>2, SumsAgree DEF Total

(* The total satisfies its recursive equation.                             *)
LEMMA TotalIs ==
  ASSUME NEW f, NEW S, IsFiniteSet(S)
  PROVE  Total(f, S) = IF S = {} THEN 0 ELSE f[First(S)] + Total(f, S \ {First(S)})
<1>1. PICK iter : SumsUp(iter, f, S)
  BY SumsExist
<1>2. iter[S] = IF S = {} THEN 0 ELSE f[First(S)] + iter[S \ {First(S)}]
  BY <1>1 DEF SumsUp
<1>3. \A U \in SUBSET S : iter[U] = Total(f, U)
  BY <1>1, TotalSums
<1> QED
  BY <1>2, <1>3

LEMMA TotalOfNone ==
  ASSUME NEW f
  PROVE  Total(f, {}) = 0
<1>1. PICK iter : SumsUp(iter, f, {})
  BY FS_EmptySet, SumsExist
<1>2. iter[{}] = 0
  BY <1>1 DEF SumsUp
<1>3. \A U \in SUBSET {} : iter[U] = Total(f, U)
  BY <1>1, FS_EmptySet, TotalSums
<1>4. {} \in SUBSET {}
  OBVIOUS
<1> QED
  BY <1>2, <1>3, <1>4

(* The total depends on the values in the set only ...                     *)
LEMMA TotalAgree ==
  ASSUME NEW f, NEW g, NEW S, IsFiniteSet(S), \A x \in S : f[x] = g[x]
  PROVE  Total(f, S) = Total(g, S)
<1>1. PICK a : SumsUp(a, f, S)
  BY SumsExist
<1>2. PICK b : SumsUp(b, g, S)
  BY SumsExist
<1>3. a[S] = b[S]
  BY <1>1, <1>2, SumsAgree
<1> QED
  BY <1>1, <1>2, <1>3, TotalSums

(* ... it is a number ...                                                  *)
LEMMA TotalIsNat ==
  ASSUME NEW f, NEW S, IsFiniteSet(S), \A x \in S : f[x] \in Nat
  PROVE  Total(f, S) \in Nat
<1> DEFINE Good == {A \in SUBSET S : Total(f, A) \in Nat}
<1>1. \A A \in SUBSET S : IsFiniteSet(A)
  BY FS_Subset
<1>2. {} \in Good
  BY TotalOfNone
<1>3. ASSUME NEW A \in SUBSET S, A # {}, \A x \in A : A \ {x} \in Good
      PROVE  A \in Good
  <2>1. First(A) \in A
    BY <1>3, FirstIsIn
  <2>2. Total(f, A) = f[First(A)] + Total(f, A \ {First(A)})
    BY <1>1, <1>3, TotalIs
  <2>3. f[First(A)] \in Nat /\ Total(f, A \ {First(A)}) \in Nat
    BY <1>3, <2>1
  <2> QED
    BY <2>2, <2>3
<1>4. \A A \in SUBSET S : A \in Good
  <2> HIDE DEF Good
  <2> QED
    BY <1>2, <1>3, InductionOnSubsets
<1> QED
  BY <1>4

(* ... any element may be taken out first, whichever is chosen ...         *)
LEMMA TotalWithout ==
  ASSUME NEW f, NEW S, IsFiniteSet(S), \A x \in S : f[x] \in Nat, NEW y \in S
  PROVE  Total(f, S) = f[y] + Total(f, S \ {y})
<1> DEFINE Good == {A \in SUBSET S : \A x \in A : Total(f, A) = f[x] + Total(f, A \ {x})}
<1>1. \A A \in SUBSET S : IsFiniteSet(A) /\ Total(f, A) \in Nat
  BY FS_Subset, TotalIsNat
<1>2. {} \in Good
  OBVIOUS
<1>3. ASSUME NEW A \in SUBSET S, A # {}, \A x \in A : A \ {x} \in Good
      PROVE  A \in Good
  <2> SUFFICES ASSUME NEW x \in A, x # First(A)
               PROVE  Total(f, A) = f[x] + Total(f, A \ {x})
    BY <1>1, <1>3, TotalIs
  <2> DEFINE z == First(A)
             B == A \ {x, z}
  <2>1. z \in A
    BY <1>3, FirstIsIn
  <2>2. Total(f, A) = f[z] + Total(f, A \ {z})
    BY <1>1, <1>3, TotalIs
  <2>3. Total(f, A \ {z}) = f[x] + Total(f, B)
    <3>1. (A \ {z}) \ {x} = B /\ A \ {z} \in Good /\ x \in A \ {z}
      BY <1>3, <2>1
    <3> QED
      BY <3>1
  <2>4. Total(f, A \ {x}) = f[z] + Total(f, B)
    <3>1. (A \ {x}) \ {z} = B /\ A \ {x} \in Good /\ z \in A \ {x}
      BY <1>3, <2>1
    <3> QED
      BY <3>1
  <2>5. f[x] \in Nat /\ f[z] \in Nat /\ Total(f, B) \in Nat
    BY <1>1, <2>1
  <2> QED
    BY <2>2, <2>3, <2>4, <2>5
<1>4. \A A \in SUBSET S : A \in Good
  <2> HIDE DEF Good
  <2> QED
    BY <1>2, <1>3, InductionOnSubsets
<1> QED
  BY <1>4

(* ... and a subset has no greater one.                                    *)
LEMMA TotalGrows ==
  ASSUME NEW f, NEW S, IsFiniteSet(S), \A x \in S : f[x] \in Nat,
         NEW U \in SUBSET S
  PROVE  Total(f, U) <= Total(f, S)
<1> DEFINE Good == {A \in SUBSET S : \A B \in SUBSET A : Total(f, B) <= Total(f, A)}
<1>1. \A A \in SUBSET S : IsFiniteSet(A) /\ Total(f, A) \in Nat
  BY FS_Subset, TotalIsNat
<1>2. {} \in Good
  BY <1>1
<1>3. ASSUME NEW A \in SUBSET S, A # {}, \A x \in A : A \ {x} \in Good
      PROVE  A \in Good
  <2> SUFFICES ASSUME NEW B \in SUBSET A, B # A
               PROVE  Total(f, B) <= Total(f, A)
    BY <1>1
  <2>1. PICK x \in A : B \in SUBSET (A \ {x})
    OBVIOUS
  <2>2. Total(f, B) <= Total(f, A \ {x})
    BY <1>3, <2>1
  <2>3. Total(f, A) = f[x] + Total(f, A \ {x})
    BY <1>1, TotalWithout
  <2>4. f[x] \in Nat /\ Total(f, B) \in Nat /\ Total(f, A \ {x}) \in Nat
    BY <1>1
  <2> QED
    BY <2>2, <2>3, <2>4
<1>4. \A A \in SUBSET S : A \in Good
  <2> HIDE DEF Good
  <2> QED
    BY <1>2, <1>3, InductionOnSubsets
<1> QED
  BY <1>4

-----------------------------------------------------------------------------
(* What waits for the boss was approved by a supervisor, not by its worker.*)
ApprovedForBoss ==
  \A p \in Packages : status[p] = "awaiting_boss" =>
    /\ supervisor[p].decision = "approved"
    /\ supervisor[p].by \in Supervisors
    /\ supervisor[p].by # worker[p]

Issued(g) == grantStatus[g] # "absent"

IssuedForPackages == \A g \in Grants : Issued(g) => grantPackage[g] \in Packages

OverdueAreActive == overdue \subseteq Active

GovernanceInv ==
  /\ GovernanceTypeOK /\ IssuedForPackages /\ OverdueAreActive
  /\ ApprovedForBoss /\ TwoKeys /\ GrantMatchesPackage /\ NeverAutonomous
  /\ StopMeansStop

USE GovernanceAssumption

-----------------------------------------------------------------------------
(* Whatever the policy lets through is sound work, and no stop is on.      *)
LEMMA PolicyGate ==
  ASSUME NEW p \in Packages, GovernanceTypeOK, PolicyAllows(p)
  PROVE  /\ controls \cap HardStops = {}
         /\ work[p].proven /\ ~ NeedsHuman(work[p])
         /\ work[p].action \notin ProhibitedActions
<1>1. work[p].tier \in 0 .. 3
  BY DEF GovernanceTypeOK, NoWork
<1> QED
  BY <1>1 DEF PolicyAllows, ControlsPermit, NeedsHuman, ProhibitedActions,
              MaxAutonomousTier

(* A package with a grant is past every review.                            *)
LEMMA GrantedPackages ==
  ASSUME GovernanceInv, NEW g \in Grants, Issued(g)
  PROVE  status[grantPackage[g]] \in {"authorized", "quarantined", "consumed"}
BY DEF GovernanceInv, GovernanceTypeOK, IssuedForPackages, GrantMatchesPackage,
       Issued, GrantStates

LEMMA InitHolds == GovernanceInit => GovernanceInv
BY DEF GovernanceInit, GovernanceInv, GovernanceTypeOK, IssuedForPackages,
       OverdueAreActive, ApprovedForBoss, TwoKeys, GrantMatchesPackage,
       NeverAutonomous, StopMeansStop, Active, Issued, NoWork, NoReview,
       Switches, HardStops, PackageStates, GrantStates

-----------------------------------------------------------------------------
(* A review touches one package, which has no grant, and no grant.         *)
LEMMA ReviewFrame ==
  ASSUME GovernanceInv, NEW p \in Packages, GovernanceTypeOK', ApprovedForBoss',
         status[p] \notin {"authorized", "quarantined", "consumed"},
         \A q \in Packages \ {p} :
           /\ status'[q] = status[q] /\ work'[q] = work[q] /\ worker'[q] = worker[q]
           /\ supervisor'[q] = supervisor[q] /\ boss'[q] = boss[q],
         UNCHANGED <<grantOf, grantVars, controls>>
  PROVE  GovernanceInv'
<1>1. \A g \in Grants : Issued(g) => grantPackage[g] \in Packages \ {p}
  BY GrantedPackages DEF GovernanceInv, IssuedForPackages
<1>2. TwoKeys' /\ GrantMatchesPackage' /\ NeverAutonomous'
  BY <1>1 DEF GovernanceInv, TwoKeys, GrantMatchesPackage, NeverAutonomous,
              NeedsHuman, Issued, grantVars
<1>3. IssuedForPackages' /\ OverdueAreActive' /\ StopMeansStop'
  BY DEF GovernanceInv, IssuedForPackages, OverdueAreActive, StopMeansStop,
         Active, Issued, grantVars
<1> QED
  BY <1>2, <1>3 DEF GovernanceInv

LEMMA SubmitStep ==
  ASSUME GovernanceInv, NEW caller \in Users, NEW who \in Users, NEW p \in Packages,
         NEW s \in Submissions, Submit(caller, who, p, s)
  PROVE  GovernanceInv'
<1>1. GovernanceTypeOK'
  BY DEF GovernanceInv, GovernanceTypeOK, Submit, grantVars, PackageStates
<1>2. ApprovedForBoss'
  BY DEF GovernanceInv, GovernanceTypeOK, ApprovedForBoss, Submit
<1> QED
  BY <1>1, <1>2, ReviewFrame DEF GovernanceInv, GovernanceTypeOK, Submit

LEMMA SupervisorStep ==
  ASSUME GovernanceInv, NEW u \in Users, NEW p \in Packages,
         NEW d \in SupervisorDecisions, SupervisorReview(u, p, d)
  PROVE  GovernanceInv'
<1>1. AfterSupervisor(d) \in PackageStates
  BY DEF AfterSupervisor, SupervisorDecisions, PackageStates
<1>2. GovernanceTypeOK'
  BY <1>1 DEF GovernanceInv, GovernanceTypeOK, SupervisorReview, grantVars
<1>3. AfterSupervisor(d) = "awaiting_boss" => d = "approved"
  BY DEF AfterSupervisor, SupervisorDecisions
<1>4. ApprovedForBoss'
  BY <1>3 DEF GovernanceInv, GovernanceTypeOK, ApprovedForBoss, SupervisorReview
<1> QED
  BY <1>2, <1>4, ReviewFrame DEF GovernanceInv, GovernanceTypeOK, SupervisorReview

LEMMA BossStep ==
  ASSUME GovernanceInv, NEW u \in Users, NEW p \in Packages,
         NEW d \in BossDecisions \ {"authorize"}, BossReview(u, p, d)
  PROVE  GovernanceInv'
<1>1. AfterBoss(d) \in PackageStates \ {"awaiting_boss"}
  BY DEF AfterBoss, BossDecisions, PackageStates
<1>2. GovernanceTypeOK'
  BY <1>1 DEF GovernanceInv, GovernanceTypeOK, BossReview, BossMayReview, grantVars
<1>3. ApprovedForBoss'
  BY <1>1 DEF GovernanceInv, GovernanceTypeOK, ApprovedForBoss, BossReview
<1> QED
  BY <1>2, <1>3, ReviewFrame
     DEF GovernanceInv, GovernanceTypeOK, BossReview, BossMayReview

-----------------------------------------------------------------------------
(* Expiring what is overdue leaves every other grant as it is.             *)
LEMMA ExpiredGrants ==
  ASSUME GovernanceInv, NEW g \in Grants
  PROVE  /\ Expired[g] \in GrantStates \cup {"absent"}
         /\ Expired[g] = "absent" <=> grantStatus[g] = "absent"
         /\ Expired[g] # grantStatus[g] => grantStatus[g] = "active" /\ Expired[g] = "expired"
BY DEF Expired, GovernanceInv, GovernanceTypeOK, OverdueAreActive, Active, GrantStates

LEMMA BlockedStep ==
  ASSUME GovernanceInv, NEW u \in Users, NEW p \in Packages,
         Authorize(u, p), ~ PolicyAllows(p)
  PROVE  GovernanceInv'
<1>1. /\ status' = [status EXCEPT ![p] = IF NeedsHuman(work[p])
                                         THEN "human_exception" ELSE "blocked"]
      /\ grantStatus' = Expired /\ overdue' = {}
      /\ UNCHANGED <<grantPackage, grantOf, work, worker, supervisor, spend,
                     thisMonth, controls>>
      /\ boss' = [boss EXCEPT ![p] = [by |-> u, decision |-> "authorize"]]
      /\ status[p] = "awaiting_boss"
  BY DEF Authorize, BossMayReview
<1>2. GovernanceTypeOK'
  <2>1. Expired \in [Grants -> GrantStates \cup {"absent"}]
    BY ExpiredGrants DEF Expired
  <2> QED
    BY <1>1, <2>1 DEF GovernanceInv, GovernanceTypeOK, PackageStates, BossDecisions
<1>3. \A g \in Grants : grantStatus'[g] # "absent" =>
        Issued(g) /\ grantPackage[g] \in Packages \ {p}
  BY <1>1, ExpiredGrants, GrantedPackages DEF Issued, GovernanceInv, IssuedForPackages
<1>4. IssuedForPackages' /\ OverdueAreActive' /\ ApprovedForBoss' /\ StopMeansStop'
  BY <1>1, <1>3, ExpiredGrants
     DEF GovernanceInv, GovernanceTypeOK, IssuedForPackages, OverdueAreActive,
         ApprovedForBoss, StopMeansStop, Active, Issued
<1>5. TwoKeys' /\ NeverAutonomous'
  BY <1>1, <1>3 DEF GovernanceInv, GovernanceTypeOK, TwoKeys, NeverAutonomous,
                    NeedsHuman, Issued
<1>6. GrantMatchesPackage'
  BY <1>1, <1>3, ExpiredGrants
     DEF GovernanceInv, GovernanceTypeOK, GrantMatchesPackage, Issued
<1> QED
  BY <1>2, <1>4, <1>5, <1>6 DEF GovernanceInv

LEMMA GrantStep ==
  ASSUME GovernanceInv, NEW u \in Users, NEW p \in Packages,
         Authorize(u, p), PolicyAllows(p)
  PROVE  GovernanceInv'
<1>1. PICK g \in Grants :
        /\ grantStatus[g] = "absent"
        /\ grantStatus'  = [Expired EXCEPT ![g] = "active"]
        /\ grantPackage' = [grantPackage EXCEPT ![g] = p]
        /\ grantOf'      = [grantOf EXCEPT ![p] = g]
        /\ status'       = [status EXCEPT ![p] = "authorized"]
  BY DEF Authorize
<1>2. /\ overdue' = {}
      /\ UNCHANGED <<work, worker, supervisor, spend, thisMonth, controls>>
      /\ boss' = [boss EXCEPT ![p] = [by |-> u, decision |-> "authorize"]]
      /\ BossMayReview(u, p)
  BY DEF Authorize
<1>3. GovernanceTypeOK'
  <2>1. Expired \in [Grants -> GrantStates \cup {"absent"}]
    BY ExpiredGrants DEF Expired
  <2> QED
    BY <1>1, <1>2, <2>1
       DEF GovernanceInv, GovernanceTypeOK, PackageStates, BossDecisions, GrantStates
<1>4. \A h \in Grants \ {g} : grantStatus'[h] # "absent" =>
        /\ Issued(h) /\ grantPackage[h] \in Packages \ {p}
        /\ grantPackage'[h] = grantPackage[h] /\ grantStatus'[h] = Expired[h]
  <2>1. \A h \in Grants \ {g} :
          grantPackage'[h] = grantPackage[h] /\ grantStatus'[h] = Expired[h]
    BY <1>1 DEF GovernanceInv, GovernanceTypeOK, Expired
  <2> QED
    BY <1>2, <2>1, ExpiredGrants, GrantedPackages
       DEF Issued, GovernanceInv, IssuedForPackages, BossMayReview
<1>5. grantPackage'[g] = p /\ grantStatus'[g] = "active" /\ grantOf'[p] = g
      /\ status'[p] = "authorized"
  BY <1>1 DEF GovernanceInv, GovernanceTypeOK, Expired
<1>6. /\ \A q \in Packages \ {p} : status'[q] = status[q] /\ grantOf'[q] = grantOf[q]
                                     /\ boss'[q] = boss[q]
      /\ boss'[p] = [by |-> u, decision |-> "authorize"]
  BY <1>1, <1>2 DEF GovernanceInv, GovernanceTypeOK
<1>7. /\ supervisor[p].decision = "approved" /\ supervisor[p].by \in Supervisors
      /\ u \in Bosses /\ u # supervisor[p].by
      /\ worker[p] \notin {supervisor[p].by, u}
  BY <1>2 DEF BossMayReview, GovernanceInv, ApprovedForBoss
<1>8. controls \cap HardStops = {} /\ work[p].proven /\ ~ NeedsHuman(work[p])
      /\ work[p].action \notin ProhibitedActions
  BY PolicyGate DEF GovernanceInv
<1>9. TwoKeys'
  BY <1>2, <1>4, <1>5, <1>6, <1>7 DEF GovernanceInv, TwoKeys, Issued
<1>10. NeverAutonomous'
  BY <1>2, <1>4, <1>5, <1>8 DEF GovernanceInv, NeverAutonomous, NeedsHuman, Issued
<1>11. GrantMatchesPackage'
  BY <1>4, <1>5, <1>6, ExpiredGrants DEF GovernanceInv, GrantMatchesPackage, Issued
<1>12. IssuedForPackages' /\ OverdueAreActive' /\ ApprovedForBoss' /\ StopMeansStop'
  BY <1>2, <1>4, <1>5, <1>6, <1>8
     DEF GovernanceInv, IssuedForPackages, OverdueAreActive, ApprovedForBoss,
         StopMeansStop, Issued
<1> QED
  BY <1>3, <1>9, <1>10, <1>11, <1>12 DEF GovernanceInv

LEMMA AuthorizeStep ==
  ASSUME GovernanceInv, NEW u \in Users, NEW p \in Packages, Authorize(u, p)
  PROVE  GovernanceInv'
BY BlockedStep, GrantStep

-----------------------------------------------------------------------------
(* The end of an active grant, by use or by hand, takes its package along. *)
LEMMA EndOfGrant ==
  ASSUME GovernanceInv, GovernanceTypeOK', NEW g \in Grants, grantStatus[g] = "active",
         NEW end \in {"consumed", "revoked"},
         grantStatus' = [grantStatus EXCEPT ![g] = end],
         status' = [status EXCEPT ![grantPackage[g]] =
                      IF end = "consumed" THEN "consumed" ELSE "quarantined"],
         overdue' = overdue \ {g},
         UNCHANGED <<work, worker, supervisor, boss, grantOf, grantPackage, controls>>
  PROVE  GovernanceInv'
<1>1. /\ grantPackage[g] \in Packages
      /\ \A h \in Grants \ {g} : Issued(h) =>
            grantPackage[h] \in Packages \ {grantPackage[g]}
  BY DEF GovernanceInv, IssuedForPackages, GrantMatchesPackage, Issued
<1>2. /\ grantStatus'[g] = end
      /\ \A h \in Grants \ {g} : grantStatus'[h] = grantStatus[h]
      /\ \A q \in Packages \ {grantPackage[g]} : status'[q] = status[q]
      /\ status'[grantPackage[g]] \in {"consumed", "quarantined"}
      /\ status'[grantPackage[g]] = "consumed" <=> end = "consumed"
  BY <1>1 DEF GovernanceInv, GovernanceTypeOK
<1>3. TwoKeys' /\ NeverAutonomous' /\ IssuedForPackages'
  BY <1>2 DEF GovernanceInv, TwoKeys, NeverAutonomous, NeedsHuman,
              IssuedForPackages, Issued
<1>4. GrantMatchesPackage'
  BY <1>1, <1>2 DEF GovernanceInv, GrantMatchesPackage, Issued
<1>5. OverdueAreActive' /\ ApprovedForBoss' /\ StopMeansStop'
  BY <1>2 DEF GovernanceInv, OverdueAreActive, ApprovedForBoss, StopMeansStop, Active
<1> QED
  BY <1>3, <1>4, <1>5 DEF GovernanceInv

LEMMA ConsumeStep ==
  ASSUME GovernanceInv, NEW g \in Grants, NEW c \in Nat, ConsumeGrant(g, c)
  PROVE  GovernanceInv'
<1>1. GovernanceTypeOK'
  BY DEF GovernanceInv, GovernanceTypeOK, ConsumeGrant, PackageStates, GrantStates
<1> QED
  BY <1>1, EndOfGrant DEF ConsumeGrant, MayConsume

LEMMA RevokeStep ==
  ASSUME GovernanceInv, NEW g \in Grants, RevokeGrant(g)
  PROVE  GovernanceInv'
<1>1. GovernanceTypeOK'
  BY DEF GovernanceInv, GovernanceTypeOK, RevokeGrant, PackageStates, GrantStates
<1> QED
  BY <1>1, EndOfGrant DEF RevokeGrant

(* Grants that end without their packages: by a stop, or by the clock.     *)
LEMMA GrantsLeavePackages ==
  ASSUME GovernanceInv, GovernanceTypeOK', NEW end \in {"revoked", "expired"},
         \A g \in Grants : \/ grantStatus'[g] = grantStatus[g]
                           \/ grantStatus[g] = "active" /\ grantStatus'[g] = end,
         OverdueAreActive', StopMeansStop',
         UNCHANGED <<packageVars, grantPackage>>
  PROVE  GovernanceInv'
<1>1. TwoKeys' /\ NeverAutonomous' /\ IssuedForPackages' /\ ApprovedForBoss'
  BY DEF GovernanceInv, TwoKeys, NeverAutonomous, NeedsHuman, IssuedForPackages,
         ApprovedForBoss, Issued, packageVars
<1>2. GrantMatchesPackage'
  BY DEF GovernanceInv, GrantMatchesPackage, Issued, packageVars
<1> QED
  BY <1>1, <1>2 DEF GovernanceInv

LEMMA ControlsStep ==
  ASSUME GovernanceInv, NEW new \in SUBSET Switches, SetControls(new)
  PROVE  GovernanceInv'
<1>1. GovernanceTypeOK'
  BY DEF GovernanceInv, GovernanceTypeOK, SetControls, packageVars, GrantStates
<1>2. OverdueAreActive' /\ StopMeansStop'
  BY DEF GovernanceInv, GovernanceTypeOK, OverdueAreActive, StopMeansStop,
         SetControls, Active
<1>3. \A g \in Grants : \/ grantStatus'[g] = grantStatus[g]
                        \/ grantStatus[g] = "active" /\ grantStatus'[g] = "revoked"
  BY DEF SetControls, Active
<1> QED
  BY <1>1, <1>2, <1>3, GrantsLeavePackages DEF SetControls

LEMMA ExpireStep ==
  ASSUME GovernanceInv, ExpireGrants
  PROVE  GovernanceInv'
<1>1. Expired \in [Grants -> GrantStates \cup {"absent"}]
  BY ExpiredGrants DEF Expired
<1>2. GovernanceTypeOK'
  BY <1>1 DEF GovernanceInv, GovernanceTypeOK, ExpireGrants, packageVars
<1>3. OverdueAreActive' /\ StopMeansStop'
  BY ExpiredGrants DEF GovernanceInv, OverdueAreActive, StopMeansStop, ExpireGrants,
                       Active, GrantStates
<1>4. \A g \in Grants : \/ grantStatus'[g] = grantStatus[g]
                        \/ grantStatus[g] = "active" /\ grantStatus'[g] = "expired"
  BY ExpiredGrants DEF ExpireGrants
<1> QED
  BY <1>2, <1>3, <1>4, GrantsLeavePackages DEF ExpireGrants

LEMMA ClockStep ==
  ASSUME GovernanceInv, Clock
  PROVE  GovernanceInv'
<1>1. UNCHANGED <<packageVars, grantStatus, grantPackage, controls>>
      /\ overdue' \subseteq Active /\ spend' = spend /\ thisMonth' \subseteq Grants
  BY DEF Clock, GrantLapses, MonthEnds, GovernanceInv, GovernanceTypeOK,
         OverdueAreActive
<1>2. GovernanceTypeOK' /\ OverdueAreActive' /\ StopMeansStop'
  BY <1>1 DEF GovernanceInv, GovernanceTypeOK, OverdueAreActive, StopMeansStop,
              Active, packageVars
<1> QED
  BY <1>1, <1>2, GrantsLeavePackages

LEMMA Unchanged ==
  ASSUME GovernanceInv, UNCHANGED governanceVars
  PROVE  GovernanceInv'
BY DEF GovernanceInv, GovernanceTypeOK, IssuedForPackages, OverdueAreActive,
       ApprovedForBoss, TwoKeys, GrantMatchesPackage, NeverAutonomous, NeedsHuman,
       StopMeansStop, Active, Issued, governanceVars, packageVars, grantVars

LEMMA CostsAreNat == Costs \subseteq Nat
BY DEF Costs

LEMMA StepHolds == GovernanceInv /\ [GovernanceNext]_governanceVars => GovernanceInv'
<1> SUFFICES ASSUME GovernanceInv, [GovernanceNext]_governanceVars
             PROVE  GovernanceInv'
  OBVIOUS
<1>1. CASE Review
  BY <1>1, SubmitStep, SupervisorStep, BossStep, AuthorizeStep DEF Review
<1>2. CASE Oversee
  BY <1>2, RevokeStep, ControlsStep, ExpireStep DEF Oversee
<1>3. CASE Clock
  BY <1>3, ClockStep
<1>4. CASE \E g \in Grants, c \in Costs : ConsumeGrant(g, c)
  BY <1>4, ConsumeStep, CostsAreNat
<1>5. CASE UNCHANGED governanceVars
  BY <1>5, Unchanged
<1> QED
  BY <1>1, <1>2, <1>3, <1>4, <1>5 DEF GovernanceNext, Consume, FoundryConsume

LEMMA GovernanceInductive == GovernanceSpec => []GovernanceInv
BY InitHolds, StepHolds, PTL DEF GovernanceSpec

-----------------------------------------------------------------------------
(* The kernel keeps its types.                                             *)
THEOREM GovernanceTypeCorrect == GovernanceSpec => []GovernanceTypeOK
BY GovernanceInductive, PTL DEF GovernanceInv

(* supervisorReview and bossReview: behind every grant stand two different *)
(* principals of the two roles, neither of them the worker.                *)
THEOREM TwoKeysTheorem == GovernanceSpec => []TwoKeys
BY GovernanceInductive, PTL DEF GovernanceInv

(* Every writer of a package or a grant: one grant per package, and their  *)
(* statuses agree.                                                         *)
THEOREM GrantMatchesTheorem == GovernanceSpec => []GrantMatchesPackage
BY GovernanceInductive, PTL DEF GovernanceInv

(* _evaluatePolicy: what the constitution reserves is never granted.       *)
THEOREM NeverAutonomousTheorem == GovernanceSpec => []NeverAutonomous
BY GovernanceInductive, PTL DEF GovernanceInv

(* setControls: while a hard stop is on there is no active grant.          *)
THEOREM StopTheorem == GovernanceSpec => []StopMeansStop
BY GovernanceInductive, PTL DEF GovernanceInv

(* A step that uses, revokes or expires a grant starts from an active one. *)
LEMMA EndedGrantsStay ==
  GovernanceInv /\ [GovernanceNext]_governanceVars =>
    \A g \in Grants :
      /\ grantStatus[g] \in {"consumed", "revoked", "expired"}
           => grantStatus'[g] = grantStatus[g]
      /\ g \in overdue => grantStatus'[g] # "consumed"
<1> SUFFICES ASSUME GovernanceInv, [GovernanceNext]_governanceVars, NEW g \in Grants
             PROVE  /\ grantStatus[g] \in {"consumed", "revoked", "expired"}
                         => grantStatus'[g] = grantStatus[g]
                    /\ g \in overdue => grantStatus'[g] # "consumed"
  OBVIOUS
<1>0. g \in overdue => grantStatus[g] = "active"
  BY DEF GovernanceInv, OverdueAreActive, Active
<1>1. CASE UNCHANGED grantStatus
  BY <1>0, <1>1
<1>2. CASE grantStatus' = Expired
  BY <1>0, <1>2, ExpiredGrants
<1>3. ASSUME NEW h \in Grants, grantStatus[h] = "absent",
             grantStatus' = [Expired EXCEPT ![h] = "active"]
      PROVE  /\ grantStatus[g] \in {"consumed", "revoked", "expired"}
                  => grantStatus'[g] = grantStatus[g]
             /\ g \in overdue => grantStatus'[g] # "consumed"
  BY <1>0, <1>3, ExpiredGrants DEF Expired
<1>4. CASE \E h \in Grants, c \in Costs : ConsumeGrant(h, c)
  BY <1>0, <1>4 DEF ConsumeGrant, MayConsume, GovernanceInv, GovernanceTypeOK
<1>5. CASE \E h \in Grants : RevokeGrant(h)
  BY <1>0, <1>5 DEF RevokeGrant, GovernanceInv, GovernanceTypeOK
<1>6. CASE \E new \in SUBSET Switches : SetControls(new)
  BY <1>0, <1>6 DEF SetControls, Active
<1>7. CASE Review
  <2>1. CASE \E p \in Packages, u \in Users : Authorize(u, p)
    BY <1>2, <1>3, <2>1 DEF Authorize
  <2> QED
    BY <1>1, <1>7, <2>1 DEF Review, Submit, SupervisorReview, BossReview, grantVars
<1>8. CASE ExpireGrants \/ Clock \/ UNCHANGED governanceVars
  BY <1>1, <1>2, <1>8 DEF ExpireGrants, Clock, GrantLapses, MonthEnds,
                          governanceVars, grantVars
<1> QED
  BY <1>4, <1>5, <1>6, <1>7, <1>8
     DEF GovernanceNext, Oversee, Consume, FoundryConsume

(* consumeGrant: a used, revoked or expired grant is never usable again.   *)
THEOREM SingleUseTheorem == GovernanceSpec => GrantIsSingleUse
BY GovernanceInductive, EndedGrantsStay, PTL DEF GovernanceSpec, GrantIsSingleUse

-----------------------------------------------------------------------------
(* The kernel never changes what an issued grant is for.                   *)
LEMMA GrantsKeepTheirWork ==
  ASSUME GovernanceInv, [GovernanceNext]_governanceVars, NEW g \in Grants, Issued(g)
  PROVE  work'[grantPackage'[g]] = work[grantPackage[g]] /\ grantStatus'[g] # "absent"
<1>1. grantPackage[g] \in Packages /\ status[grantPackage[g]] # "absent"
  BY GrantedPackages DEF GovernanceInv, IssuedForPackages
<1>2. grantStatus[g] \in GrantStates
  BY DEF GovernanceInv, GovernanceTypeOK, Issued
<1>3. ASSUME NEW caller \in Users, NEW who \in Users, NEW p \in Packages,
             NEW s \in Submissions, Submit(caller, who, p, s)
      PROVE  work'[grantPackage'[g]] = work[grantPackage[g]] /\ grantStatus'[g] # "absent"
  BY <1>1, <1>3 DEF Submit, Issued, grantVars, GovernanceInv, GovernanceTypeOK
<1>4. ASSUME NEW u \in Users, NEW p \in Packages, Authorize(u, p)
      PROVE  work'[grantPackage'[g]] = work[grantPackage[g]] /\ grantStatus'[g] # "absent"
  <2>1. CASE PolicyAllows(p)
    BY <1>4, <2>1, ExpiredGrants
       DEF Authorize, Issued, Expired, GovernanceInv, GovernanceTypeOK
  <2>2. CASE ~ PolicyAllows(p)
    BY <1>4, <2>2, ExpiredGrants DEF Authorize, Issued
  <2> QED
    BY <2>1, <2>2
<1>5. CASE Review
  BY <1>3, <1>4, <1>5
     DEF Review, SupervisorReview, BossReview, Issued, grantVars
<1>6. CASE Oversee
  BY <1>6, ExpiredGrants
     DEF Oversee, RevokeGrant, SetControls, ExpireGrants, Issued,
         packageVars, GovernanceInv, GovernanceTypeOK
<1>7. CASE \E h \in Grants, c \in Costs : ConsumeGrant(h, c)
  BY <1>7 DEF ConsumeGrant, Issued, GovernanceInv, GovernanceTypeOK
<1>8. CASE Clock \/ UNCHANGED governanceVars
  BY <1>8 DEF Clock, GrantLapses, MonthEnds, Issued, governanceVars,
              packageVars, grantVars
<1> QED
  BY <1>5, <1>6, <1>7, <1>8 DEF GovernanceNext, Consume, FoundryConsume

-----------------------------------------------------------------------------
(* The budget.                                                             *)

Reserved == [g \in Grants |-> MaximumCost(g)]

Open == Active \ overdue

(* A grant's spend entry is written when it is consumed; grants are issued *)
(* and months go by one at a time.                                         *)
BudgetInv ==
  /\ GovernanceInv
  /\ IsFiniteSet(Active) /\ IsFiniteSet(thisMonth)
  /\ \A g \in thisMonth : grantStatus[g] = "consumed"
  /\ BudgetHolds

(* _monthlySpend and _activeReservations are totals.                       *)
LEMMA SpendIsTotal == MonthlySpend = Total(spend, thisMonth)
BY DEF MonthlySpend, MapThenSumSet, MapThenFoldSet, Total, SumsUp, First

LEMMA ReservedIsTotal ==
  IsFiniteSet(Active) => ActiveReservations = Total(Reserved, Open)
<1> SUFFICES ASSUME IsFiniteSet(Active)
             PROVE  ActiveReservations = Total(Reserved, Open)
  OBVIOUS
<1> DEFINE Sum(iter) ==
      iter = [s \in SUBSET Open |->
                IF s = {} THEN 0 ELSE MaximumCost(First(s)) + iter[s \ {First(s)}]]
<1>1. ActiveReservations = (CHOOSE iter : Sum(iter))[Open]
  BY DEF ActiveReservations, MapThenSumSet, MapThenFoldSet, First, Open
<1>2. IsFiniteSet(Open)
  BY FS_Subset DEF Open
<1>3. \A s \in SUBSET Open : s # {} => Reserved[First(s)] = MaximumCost(First(s))
  BY FirstIsIn DEF Reserved, Open, Active
<1>4. ASSUME NEW iter
      PROVE  Sum(iter) <=> SumsUp(iter, Reserved, Open)
  <2>1. [s \in SUBSET Open |->
           IF s = {} THEN 0 ELSE MaximumCost(First(s)) + iter[s \ {First(s)}]]
        = [s \in SUBSET Open |->
             IF s = {} THEN 0 ELSE Reserved[First(s)] + iter[s \ {First(s)}]]
    BY <1>3
  <2> QED
    BY <2>1 DEF SumsUp
<1>5. \E iter : Sum(iter)
  BY <1>2, <1>4, SumsExist
<1>6. SumsUp(CHOOSE iter : Sum(iter), Reserved, Open)
  <2> HIDE DEF Sum
  <2>1. Sum(CHOOSE iter : Sum(iter))
    BY <1>5
  <2> QED
    BY <2>1, <1>4
<1> HIDE DEF Sum
<1> QED
  BY <1>1, <1>2, <1>6, TotalSums

(* The two sums are numbers within the limit.                              *)
LEMMA BudgetSums ==
  ASSUME BudgetInv
  PROVE  /\ IsFiniteSet(Open) /\ \A g \in Open : Reserved[g] \in Nat
         /\ \A g \in thisMonth : spend[g] \in Nat
         /\ Total(spend, thisMonth) \in Nat /\ Total(Reserved, Open) \in Nat
         /\ Total(spend, thisMonth) + Total(Reserved, Open) <= MaxMonthlyCost
<1>1. IsFiniteSet(Open)
  BY FS_Subset DEF Open, BudgetInv
<1>2. \A g \in Open : Reserved[g] \in Nat
  <2>1. \A s \in Submissions \cup {NoWork} : s.cost \in Nat
    BY DEF NoWork
  <2>2. \A g \in Open : g \in Grants /\ grantPackage[g] \in Packages
    BY DEF BudgetInv, GovernanceInv, IssuedForPackages, Issued, Open, Active
  <2> QED
    BY <2>1, <2>2 DEF BudgetInv, GovernanceInv, GovernanceTypeOK, Reserved, MaximumCost
<1>3. \A g \in thisMonth : spend[g] \in Nat
  BY DEF BudgetInv, GovernanceInv, GovernanceTypeOK
<1>4. IsFiniteSet(thisMonth) /\ IsFiniteSet(Active) /\ BudgetHolds
  BY DEF BudgetInv
<1>5. Total(spend, thisMonth) \in Nat /\ Total(Reserved, Open) \in Nat
  BY <1>1, <1>2, <1>3, <1>4, TotalIsNat
<1> QED
  BY <1>1, <1>2, <1>3, <1>4, <1>5, SpendIsTotal, ReservedIsTotal DEF BudgetHolds

(* What an open grant reserves does not change while it is open.           *)
LEMMA ReservedStays ==
  ASSUME GovernanceInv, [GovernanceNext]_governanceVars, NEW g \in Open
  PROVE  Reserved'[g] = Reserved[g]
BY GrantsKeepTheirWork DEF Reserved, MaximumCost, Open, Active, Issued

(* What must be shown of the next state.                                   *)
SumsFit ==
  IsFiniteSet(Active) /\ Total(spend, thisMonth) + Total(Reserved, Open) <= MaxMonthlyCost

LEMMA BudgetAgain == SumsFit' => BudgetHolds'
<1>1. SumsFit => BudgetHolds
  BY SpendIsTotal, ReservedIsTotal DEF BudgetHolds, SumsFit
<1> QED
  BY <1>1, PTL

(* A step that reserves and spends nothing new: grants end or lapse, and   *)
(* months end.                                                             *)
LEMMA NothingNew ==
  ASSUME BudgetInv, [GovernanceNext]_governanceVars,
         Active' \subseteq Active, Open' \subseteq Open,
         thisMonth' \subseteq thisMonth, spend' = spend,
         \A g \in thisMonth : grantStatus'[g] = "consumed"
  PROVE  BudgetInv'
<1>1. GovernanceInv' /\ IsFiniteSet(Active') /\ IsFiniteSet(thisMonth')
  BY StepHolds, FS_Subset DEF BudgetInv
<1>2. IsFiniteSet(Open') /\ \A g \in Open' : Reserved'[g] = Reserved[g]
  BY BudgetSums, ReservedStays, FS_Subset DEF BudgetInv
<1>3. Total(spend, thisMonth') <= Total(spend, thisMonth)
  BY BudgetSums, TotalGrows DEF BudgetInv
<1>4. Total(Reserved', Open') <= Total(Reserved, Open)
  <2>1. Total(Reserved', Open') = Total(Reserved, Open')
    BY <1>2, TotalAgree
  <2> QED
    BY <2>1, BudgetSums, TotalGrows
<1>5. Total(spend, thisMonth') \in Nat /\ Total(Reserved', Open') \in Nat
  BY <1>1, <1>2, BudgetSums, TotalIsNat
<1>6. SumsFit'
  BY <1>1, <1>3, <1>4, <1>5, BudgetSums DEF SumsFit
<1> QED
  BY <1>1, <1>6, BudgetAgain DEF BudgetInv

(* bossReview issues a grant: what it reserves was free.                   *)
LEMMA GrantReserves ==
  ASSUME BudgetInv, [GovernanceNext]_governanceVars, NEW u \in Users, NEW p \in Packages,
         Authorize(u, p), PolicyAllows(p)
  PROVE  BudgetInv'
<1>1. PICK g \in Grants :
        /\ grantStatus[g] = "absent"
        /\ grantStatus'  = [Expired EXCEPT ![g] = "active"]
        /\ grantPackage' = [grantPackage EXCEPT ![g] = p]
  BY DEF Authorize
<1>2. overdue' = {} /\ UNCHANGED <<work, spend, thisMonth>>
  BY DEF Authorize
<1>3. Open' = Open \cup {g} /\ g \notin Open /\ Active' \subseteq Active \cup {g}
  BY <1>1, <1>2, ExpiredGrants
     DEF Open, Active, Expired, BudgetInv, GovernanceInv, GovernanceTypeOK, GrantStates
<1>4. GovernanceInv' /\ IsFiniteSet(Active') /\ IsFiniteSet(thisMonth')
  <2>1. IsFiniteSet(Active \cup {g})
    BY FS_AddElement DEF BudgetInv
  <2> QED
    BY <1>2, <1>3, <2>1, StepHolds, FS_Subset DEF BudgetInv
<1>5. \A h \in thisMonth' : grantStatus'[h] = "consumed"
  BY <1>1, <1>2, ExpiredGrants DEF BudgetInv, GovernanceInv, GovernanceTypeOK, Expired
<1>6. Reserved'[g] = work[p].cost /\ work[p].cost \in Nat
  <2>1. \A s \in Submissions \cup {NoWork} : s.cost \in Nat
    BY DEF NoWork
  <2> QED
    BY <1>1, <1>2, <2>1
       DEF Reserved, MaximumCost, BudgetInv, GovernanceInv, GovernanceTypeOK
<1>7. IsFiniteSet(Open') /\ \A h \in Open : Reserved'[h] = Reserved[h]
  BY <1>3, BudgetSums, ReservedStays, FS_AddElement DEF BudgetInv
<1>8. Total(Reserved', Open') = work[p].cost + Total(Reserved, Open)
  <2>1. \A h \in Open' : Reserved'[h] \in Nat
    BY <1>3, <1>6, <1>7, BudgetSums
  <2>2. Total(Reserved', Open') = Reserved'[g] + Total(Reserved', Open' \ {g})
    BY <1>3, <1>7, <2>1, TotalWithout
  <2>3. Open' \ {g} = Open
    BY <1>3
  <2>4. Total(Reserved', Open) = Total(Reserved, Open)
    BY <1>7, BudgetSums, TotalAgree
  <2> QED
    BY <1>6, <2>2, <2>3, <2>4
<1>9. Total(spend, thisMonth) + Total(Reserved, Open) + work[p].cost <= MaxMonthlyCost
  BY SpendIsTotal, ReservedIsTotal DEF PolicyAllows, BudgetInv
<1>10. SumsFit'
  BY <1>2, <1>4, <1>6, <1>8, <1>9, BudgetSums DEF SumsFit
<1> QED
  BY <1>4, <1>5, <1>10, BudgetAgain DEF BudgetInv

(* consumeGrant turns a reservation into spend of at most that much.       *)
LEMMA ConsumeSpends ==
  ASSUME BudgetInv, [GovernanceNext]_governanceVars, NEW g \in Grants, NEW c \in Costs,
         ConsumeGrant(g, c)
  PROVE  BudgetInv'
<1>1. /\ grantStatus[g] = "active" /\ g \notin overdue /\ c <= MaximumCost(g)
      /\ grantStatus' = [grantStatus EXCEPT ![g] = "consumed"]
      /\ overdue' = overdue \ {g} /\ spend' = [spend EXCEPT ![g] = c]
      /\ thisMonth' = thisMonth \cup {g}
  BY DEF ConsumeGrant, MayConsume
<1>2. Open' = Open \ {g} /\ g \in Open /\ Active' \subseteq Active /\ g \notin thisMonth
  BY <1>1 DEF Open, Active, BudgetInv, GovernanceInv, GovernanceTypeOK
<1>3. GovernanceInv' /\ IsFiniteSet(Active') /\ IsFiniteSet(thisMonth')
  BY <1>1, <1>2, StepHolds, FS_Subset, FS_AddElement DEF BudgetInv
<1>4. \A h \in thisMonth' : grantStatus'[h] = "consumed"
  BY <1>1 DEF BudgetInv, GovernanceInv, GovernanceTypeOK
<1>5. c \in Nat /\ Reserved[g] = MaximumCost(g)
  BY CostsAreNat DEF Reserved
<1>6. Total(Reserved, Open) = Reserved[g] + Total(Reserved', Open')
  <2>1. Total(Reserved, Open) = Reserved[g] + Total(Reserved, Open')
    BY <1>2, BudgetSums, TotalWithout
  <2>2. IsFiniteSet(Open') /\ \A h \in Open' : Reserved'[h] = Reserved[h]
    BY <1>2, BudgetSums, ReservedStays, FS_RemoveElement DEF BudgetInv
  <2> QED
    BY <2>1, <2>2, TotalAgree
<1>7. Total(spend', thisMonth') = c + Total(spend, thisMonth)
  <2>1. spend'[g] = c /\ \A h \in thisMonth : spend'[h] = spend[h]
    BY <1>1, <1>2 DEF BudgetInv, GovernanceInv, GovernanceTypeOK
  <2>2. \A h \in thisMonth' : spend'[h] \in Nat
    BY <1>3 DEF GovernanceInv, GovernanceTypeOK
  <2>3. Total(spend', thisMonth') = spend'[g] + Total(spend', thisMonth' \ {g})
    <3>1. g \in thisMonth' /\ IsFiniteSet(thisMonth')
      BY <1>1, <1>3
    <3> QED
      BY <2>2, <3>1, TotalWithout
  <2>4. thisMonth' \ {g} = thisMonth
    BY <1>1, <1>2
  <2>5. Total(spend', thisMonth) = Total(spend, thisMonth)
    BY <2>1, TotalAgree DEF BudgetInv
  <2> QED
    BY <2>1, <2>3, <2>4, <2>5
<1>8. Total(Reserved', Open') \in Nat
  <2>1. \A h \in Open' : Reserved'[h] \in Nat
    BY <1>2, BudgetSums, ReservedStays DEF BudgetInv
  <2> QED
    BY <1>2, <2>1, BudgetSums, FS_RemoveElement, TotalIsNat
<1>9. SumsFit'
  BY <1>1, <1>2, <1>3, <1>5, <1>6, <1>7, <1>8, BudgetSums DEF SumsFit
<1> QED
  BY <1>3, <1>4, <1>9, BudgetAgain DEF BudgetInv

(* Every other step changes neither sum or lessens one.                    *)
LEMMA BudgetStep == BudgetInv /\ [GovernanceNext]_governanceVars => BudgetInv'
<1> SUFFICES ASSUME BudgetInv, [GovernanceNext]_governanceVars
             PROVE  BudgetInv'
  OBVIOUS
<1> USE DEF Open, Active
<1>1. \A g \in thisMonth : grantStatus[g] = "consumed" /\ g \in Grants
  BY DEF BudgetInv, GovernanceInv, GovernanceTypeOK
<1>2. \A g \in thisMonth : grantStatus'[g] = "consumed"
  BY <1>1, EndedGrantsStay DEF BudgetInv
<1>3. CASE UNCHANGED <<grantStatus, overdue, spend, thisMonth>>
  BY <1>2, <1>3, NothingNew
<1>4. CASE grantStatus' = Expired /\ overdue' = {} /\ UNCHANGED <<spend, thisMonth>>
  BY <1>2, <1>4, ExpiredGrants, NothingNew DEF BudgetInv, Expired
<1>5. CASE Review
  <2>1. ASSUME NEW u \in Users, NEW p \in Packages, Authorize(u, p)
        PROVE  BudgetInv'
    <3>1. CASE PolicyAllows(p)
      BY <2>1, <3>1, GrantReserves
    <3>2. CASE ~ PolicyAllows(p)
      BY <1>4, <2>1, <3>2 DEF Authorize
    <3> QED
      BY <3>1, <3>2
  <2> QED
    BY <1>3, <1>5, <2>1 DEF Review, Submit, SupervisorReview, BossReview, grantVars
<1>6. CASE Oversee
  <2>1. ASSUME NEW g \in Grants, RevokeGrant(g)
        PROVE  BudgetInv'
    <3>1. Active' \subseteq Active /\ Open' \subseteq Open
      BY <2>1 DEF RevokeGrant, BudgetInv, GovernanceInv, GovernanceTypeOK
    <3> QED
      BY <1>2, <2>1, <3>1, NothingNew DEF RevokeGrant
  <2>2. ASSUME NEW new \in SUBSET Switches, SetControls(new)
        PROVE  BudgetInv'
    <3>1. Active' \subseteq Active /\ Open' \subseteq Open
      BY <2>2 DEF SetControls
    <3> QED
      BY <1>2, <2>2, <3>1, NothingNew DEF SetControls
  <2> QED
    BY <1>4, <1>6, <2>1, <2>2 DEF Oversee, ExpireGrants
<1>7. CASE Clock
  <2>1. /\ grantStatus' = grantStatus /\ overdue \subseteq overdue'
        /\ thisMonth' \subseteq thisMonth /\ spend' = spend
    BY <1>7 DEF Clock, GrantLapses, MonthEnds
  <2> QED
    BY <1>2, <2>1, NothingNew
<1>8. CASE \E g \in Grants, c \in Costs : ConsumeGrant(g, c)
  BY <1>8, ConsumeSpends
<1>9. CASE UNCHANGED governanceVars
  BY <1>3, <1>9 DEF governanceVars, grantVars
<1> QED
  BY <1>5, <1>6, <1>7, <1>8, <1>9 DEF GovernanceNext, Consume, FoundryConsume

(* PolicyAllows, which adds up spend and reservations, and every handler   *)
(* that moves a sum afterwards: the monthly limit holds.                   *)
THEOREM BudgetTheorem == GovernanceSpec => []BudgetHolds
<1>1. GovernanceInit => BudgetInv
  <2> SUFFICES ASSUME GovernanceInit PROVE BudgetInv
    OBVIOUS
  <2>1. Active = {} /\ thisMonth = {} /\ Open = {}
    BY DEF GovernanceInit, Active, Open
  <2>2. GovernanceInv /\ IsFiniteSet(Active) /\ IsFiniteSet(thisMonth)
    BY <2>1, InitHolds, FS_EmptySet
  <2>3. Total(spend, thisMonth) = 0 /\ Total(Reserved, Open) = 0
    BY <2>1, TotalOfNone
  <2>4. BudgetHolds
    BY <2>2, <2>3, SpendIsTotal, ReservedIsTotal DEF BudgetHolds
  <2> QED
    BY <2>1, <2>2, <2>4 DEF BudgetInv
<1>2. BudgetInv => BudgetHolds
  BY DEF BudgetInv
<1> QED
  BY <1>1, <1>2, BudgetStep, PTL DEF GovernanceSpec
===============================================================================
