---------------------------- MODULE RuleFileProofs ----------------------------
(***************************************************************************)
(* Theorems about RuleFile, for any finite set of rules, any size limit,   *)
(* any shipped list and any number of saves, stops and I/O errors.  The    *)
(* inductive invariant follows a content from the file through the steps   *)
(* of reload into the policy.                                              *)
(***************************************************************************)
EXTENDS RuleFile, FiniteSetTheorems, TLAPS

-----------------------------------------------------------------------------
(* Contents.                                                               *)

LEMMA EmptyIsContent == Empty \in Content /\ Cleaned(Empty) = Empty /\ Rules(Empty) = {}
BY DEF Empty, Content, Cleaned, Rules

(* What sanitizeRules leaves of a content is a content with the same rules, *)
(* and is left as it is by a second pass.                                  *)
LEMMA CleanedIsContent ==
    ASSUME NEW c \in Content
    PROVE  /\ Cleaned(c) \in Content
           /\ Rules(Cleaned(c)) = Rules(c)
           /\ Cleaned(Cleaned(c)) = Cleaned(c)
           /\ Rules(c) \in SUBSET Rule
BY DEF Content, Cleaned, Rules

-----------------------------------------------------------------------------
(* The inductive invariant.                                                *)

(* Types: of the contents, of the flags, and of the rest. *)
ContentTyped ==
    /\ file \in Content \cup {Absent}
    /\ lastGood \in Content
    /\ raw \in Content \cup {Absent}
    /\ toWrite \in Content \cup {Nothing}
    /\ toSwap \in Content \cup {Nothing}
    /\ latest \in Content \cup {Absent}
    /\ matcher \in SUBSET Rule

FlagsTyped ==
    /\ loaded \in BOOLEAN
    /\ event \in BOOLEAN
    /\ timer \in BOOLEAN
    /\ stale \in BOOLEAN

ControlTyped ==
    /\ proc \in {"off", "seeding", "down", "loading", "running"}
    /\ pc \in {"none", "read", "write", "swap"}
    /\ fell \in {"none", "writeback", "startup"}

BoundsTyped ==
    /\ edits \in 0 .. MaxEdits
    /\ stops \in 0 .. MaxStops
    /\ ioErrors \in 0 .. MaxIOErrors

Typed == ContentTyped /\ FlagsTyped /\ ControlTyped /\ BoundsTyped

(* There is a policy exactly in a process whose first reload has ended. *)
ProcessInv ==
    /\ proc \in {"off", "seeding", "down"} => ~loaded /\ pc = "none"
    /\ proc = "loading" => (loaded <=> pc = "none")
    /\ proc = "running" => loaded

(* The policy is the last valid content, which is a clean one. *)
PolicyInv == loaded => matcher = Rules(lastGood) /\ lastGood = Cleaned(lastGood)

(* What reload has decided about what it has read. *)
DecisionInv ==
    /\ pc = "swap" => toSwap # Nothing
    /\ pc = "write" /\ toWrite = Nothing => toSwap = raw /\ raw \in Content
    /\ pc = "write" /\ toWrite # Nothing /\ toSwap # Nothing => toWrite = toSwap
    /\ pc = "write" /\ ~loaded => toSwap # Nothing
    /\ pc \in {"write", "swap"} /\ toSwap # Nothing => toSwap = Cleaned(toSwap)
    /\ pc \in {"write", "swap"} /\ toSwap # Nothing /\ loaded =>
            Acceptable(raw) /\ toSwap = Cleaned(raw)

(* No change of the file is outstanding that the plugin has not heard of. *)
Heard == ~event /\ ~stale /\ fell # "startup"

(* Then the file is what reload has read, has decided on or put in force. *)
FileInv ==
    /\ Heard /\ pc = "write" /\ toWrite = Nothing => file = raw
    /\ Heard /\ pc = "swap" => file = toSwap
    /\ Heard /\ pc = "none" /\ ~timer /\ proc \in {"loading", "running"} => file = lastGood

IInv == Typed /\ ProcessInv /\ PolicyInv /\ DecisionInv /\ FileInv

LEMMA InitIInv == Init => IInv
<1> SUFFICES ASSUME Init PROVE IInv
  OBVIOUS
<1> USE DEF Init
<1>1. ContentTyped
  BY EmptyIsContent DEF ContentTyped
<1>2. FlagsTyped
  BY DEF FlagsTyped
<1>3. ControlTyped
  BY DEF ControlTyped
<1>4. BoundsTyped
  BY RuleFileAssumption DEF BoundsTyped
<1>5. ProcessInv /\ PolicyInv /\ DecisionInv /\ FileInv
  BY DEF ProcessInv, PolicyInv, DecisionInv, FileInv
<1> QED BY <1>1, <1>2, <1>3, <1>4, <1>5 DEF IInv, Typed

(* What decide comes to, for a content or a missing file. *)
LEMMA Decided ==
    ASSUME NEW c \in Content \cup {Absent}, lastGood \in Content, loaded \in BOOLEAN,
           loaded => lastGood = Cleaned(lastGood), decide(c)
    PROVE  /\ toWrite' \in Content \cup {Nothing}
           /\ toSwap' \in Content \cup {Nothing}
           /\ toWrite' = Nothing => toSwap' = c /\ c \in Content
           /\ toWrite' # Nothing /\ toSwap' # Nothing => toWrite' = toSwap'
           /\ ~loaded => toSwap' # Nothing
           /\ toSwap' # Nothing => toSwap' = Cleaned(toSwap')
           /\ toSwap' # Nothing /\ loaded => Acceptable(c) /\ toSwap' = Cleaned(c)
<1> USE EmptyIsContent, NoContentAssumption
<1>1. CASE Unusable(c)
  BY <1>1 DEF decide
<1>2. CASE ~Unusable(c) /\ AllInvalid(c) /\ loaded
  BY <1>2 DEF decide
<1>3. CASE ~Unusable(c) /\ ~(AllInvalid(c) /\ loaded)
  <2>1. c \in Content
    BY <1>3 DEF Unusable
  <2>2. Cleaned(c) \in Content /\ Cleaned(Cleaned(c)) = Cleaned(c)
    BY <2>1, CleanedIsContent
  <2>3. toSwap' = Cleaned(c) /\ toWrite' = (IF c = Cleaned(c) THEN Nothing ELSE Cleaned(c))
    BY <1>3 DEF decide
  <2>4. loaded => Acceptable(c)
    BY <1>3 DEF Acceptable
  <2> QED BY <2>1, <2>2, <2>3, <2>4
<1> QED BY <1>1, <1>2, <1>3
-----------------------------------------------------------------------------
(* Every step preserves it.                                                *)

LEMMA StepIInv == IInv /\ [Next]_vars => IInv'
<1> SUFFICES ASSUME IInv, [Next]_vars PROVE IInv'
  OBVIOUS
<1> USE RuleFileAssumption, NoContentAssumption, EmptyIsContent
    DEF IInv, Typed, ContentTyped, FlagsTyped, ControlTyped, BoundsTyped,
        ProcessInv, PolicyInv, DecisionInv, FileInv, Heard,
        pluginVars, watchVars, reloadVars, boundVars
<1>1. ASSUME NEW c \in Content \cup {Absent}, Save(c) PROVE IInv'
  BY <1>1 DEF Save, window
<1>2. CASE Stop
  <2>1. ContentTyped' /\ ControlTyped' /\ BoundsTyped'
    BY <1>2 DEF Stop
  <2>2. FlagsTyped'
    BY <1>2 DEF Stop
  <2>3. ProcessInv' /\ PolicyInv' /\ DecisionInv' /\ FileInv'
    BY <1>2 DEF Stop
  <2> QED BY <2>1, <2>2, <2>3
<1>3. CASE Boot
  BY <1>3 DEF Boot
<1>4. CASE Seed
  BY <1>4 DEF Seed
<1>5. CASE BootFails
  BY <1>5 DEF BootFails
<1>6. CASE Start
  BY <1>6 DEF Start
<1>7. CASE Watch
  BY <1>7 DEF Watch
<1>8. CASE HandleEvent
  BY <1>8 DEF HandleEvent
<1>9. CASE EventLost
  <2>1. ContentTyped' /\ ControlTyped' /\ BoundsTyped'
    BY <1>9 DEF EventLost
  <2>2. FlagsTyped'
    BY <1>9 DEF EventLost
  <2>3. ProcessInv' /\ PolicyInv' /\ DecisionInv' /\ FileInv'
    BY <1>9 DEF EventLost
  <2> QED BY <2>1, <2>2, <2>3
<1>10. CASE TimerFires
  BY <1>10 DEF TimerFires
<1>11. CASE Read
  <2>1. /\ pc = "read" /\ pc' = "write" /\ raw' = file /\ stale' = FALSE
        /\ UNCHANGED <<file, proc, matcher, lastGood, loaded, event, timer, latest, fell,
                       edits, stops, ioErrors>>
    BY <1>11 DEF Read
  <2>2. /\ toWrite' \in Content \cup {Nothing}
        /\ toSwap' \in Content \cup {Nothing}
        /\ toWrite' = Nothing => toSwap' = file /\ file \in Content
        /\ toWrite' # Nothing /\ toSwap' # Nothing => toWrite' = toSwap'
        /\ ~loaded => toSwap' # Nothing
        /\ toSwap' # Nothing => toSwap' = Cleaned(toSwap')
        /\ toSwap' # Nothing /\ loaded => Acceptable(file) /\ toSwap' = Cleaned(file)
    BY <1>11, Decided DEF Read
  <2> QED BY <2>1, <2>2
<1>12. CASE Write
  <2>1. ContentTyped' /\ ControlTyped' /\ BoundsTyped'
    BY <1>12 DEF Write
  <2>2. FlagsTyped'
    BY <1>12 DEF Write
  <2>3. ProcessInv' /\ PolicyInv'
    BY <1>12 DEF Write
  <2>4. DecisionInv'
    BY <1>12 DEF Write
  <2>5. FileInv'
    <3>1. CASE toWrite = Nothing
      <4>1. toSwap = raw /\ toSwap # Nothing /\ pc' = "swap"
        BY <1>12, <3>1 DEF Write
      <4> QED BY <1>12, <3>1, <4>1 DEF Write
    <3>2. CASE toWrite # Nothing /\ proc = "running"
      <4>1. event'
        BY <1>12, <3>2 DEF Write
      <4> QED BY <4>1, <1>12 DEF Write
    <3>3. CASE toWrite # Nothing /\ proc # "running"
      <4>1. toSwap # Nothing /\ pc' = "swap" /\ file' = toSwap
        BY <1>12, <3>3 DEF Write
      <4> QED BY <4>1, <1>12 DEF Write
    <3> QED BY <3>1, <3>2, <3>3
  <2> QED BY <2>1, <2>2, <2>3, <2>4, <2>5
<1>13. CASE Swap
  <2>1. ContentTyped' /\ ControlTyped' /\ BoundsTyped'
    BY <1>13, CleanedIsContent DEF Swap
  <2>2. FlagsTyped'
    BY <1>13 DEF Swap
  <2>3. ProcessInv' /\ PolicyInv'
    BY <1>13 DEF Swap
  <2>4. DecisionInv'
    BY <1>13 DEF Swap
  <2>5. FileInv'
    BY <1>13 DEF Swap
  <2> QED BY <2>1, <2>2, <2>3, <2>4, <2>5
<1>14. CASE ReloadFails
  BY <1>14 DEF ReloadFails
<1>15. CASE WatchFails
  <2>1. ContentTyped' /\ ControlTyped' /\ BoundsTyped'
    BY <1>15 DEF WatchFails
  <2>2. FlagsTyped'
    BY <1>15 DEF WatchFails
  <2>3. ProcessInv' /\ PolicyInv' /\ DecisionInv' /\ FileInv'
    BY <1>15 DEF WatchFails
  <2> QED BY <2>1, <2>2, <2>3
<1>16. CASE UNCHANGED vars
  BY <1>16 DEF vars
<1> QED BY <1>1, <1>2, <1>3, <1>4, <1>5, <1>6, <1>7, <1>8, <1>9, <1>10, <1>11, <1>12, <1>13, <1>14,
           <1>15, <1>16 DEF Next, Plugin, Reload

LEMMA Invariance == Spec => []IInv
BY InitIInv, StepIInv, PTL DEF Spec

LEMMA IInvImplies == IInv => TypeOK /\ FileIsPolicy
<1> SUFFICES ASSUME IInv PROVE TypeOK /\ FileIsPolicy
  OBVIOUS
<1>1. TypeOK
  BY DEF IInv, Typed, ContentTyped, FlagsTyped, ControlTyped, BoundsTyped, TypeOK
<1>2. FileIsPolicy
  <2> SUFFICES ASSUME Quiet, fell # "startup"
               PROVE  /\ file # Absent /\ file = Cleaned(file) /\ Rules(file) = matcher
                      /\ loaded /\ lastGood = file
    BY DEF FileIsPolicy
  <2>1. file = lastGood /\ loaded
    BY DEF IInv, FileInv, Heard, Quiet, ProcessInv
  <2>2. lastGood \in Content
    BY DEF IInv, Typed, ContentTyped
  <2> QED BY <2>1, <2>2, NoContentAssumption DEF IInv, PolicyInv
<1> QED BY <1>1, <1>2

-----------------------------------------------------------------------------
(* Whatever the operator saves, and wherever reads, writes and processes   *)
(* fail, the state of rulesplugin.go keeps its types: in particular the    *)
(* file is absent or complete, and the last valid content is one.          *)
THEOREM TypeCorrect == Spec => []TypeOK
BY Invariance, IInvImplies, PTL

(* When the plugin of rulesplugin.go is at rest, the file on disk is the   *)
(* policy in force, for every content, size limit and interleaving; only a *)
(* save between the first read and the watcher is excepted.                *)
THEOREM FileTellsPolicy == Spec => []FileIsPolicy
BY Invariance, IInvImplies, PTL

(* While a process of rulesplugin.go runs, its policy changes only to the  *)
(* rules of an acceptable content that reload has read.                    *)
THEOREM PolicyKept == Spec => PolicyNotLost
<1>1. IInv /\ [Next]_vars
        => [loaded /\ loaded' /\ matcher' # matcher
              => Acceptable(raw) /\ matcher' = Rules(raw)]_vars
  <2> SUFFICES ASSUME IInv, Next, loaded, loaded', matcher' # matcher
               PROVE  Acceptable(raw) /\ matcher' = Rules(raw)
    OBVIOUS
  <2>1. Swap
    BY DEF Next, Plugin, Reload, Save, Stop, Boot, Seed, BootFails, Start, Watch, HandleEvent,
           EventLost, TimerFires, Read, Write, ReloadFails, WatchFails, pluginVars
  <2>2. Acceptable(raw) /\ matcher' = Rules(Cleaned(raw))
    BY <2>1 DEF Swap, IInv, DecisionInv
  <2>3. raw \in Content
    BY <2>2 DEF IInv, Typed, ContentTyped, Acceptable, Unusable
  <2> QED BY <2>2, <2>3, CleanedIsContent
<1> QED
  BY <1>1, Invariance, PTL DEF Spec, PolicyNotLost

-----------------------------------------------------------------------------
(* An unraced save.                                                        *)

(* sanitizeRules leaves of an acceptable file one that is acceptable too.  *)
(* It rewrites short rules to a longer form, so this is a fact about the   *)
(* size limit and the rules in use, not about the code.                    *)
CleaningFits == \A c \in Content : Acceptable(c) => Acceptable(Cleaned(c))

(* It holds, for one, whenever all the rules fit in their typed form. *)
LEMMA TypedRulesFit == 2 * Cardinality(Rule) <= maxRuleFileBytes => CleaningFits
<1> SUFFICES ASSUME 2 * Cardinality(Rule) <= maxRuleFileBytes, NEW c \in Content, Acceptable(c)
             PROVE  Acceptable(Cleaned(c))
  BY DEF CleaningFits
<1>1. Cleaned(c) \in Content /\ Rules(c) \in SUBSET Rule
  BY CleanedIsContent
<1>2. Size(Cleaned(c)) = 2 * Cardinality(Rules(c)) + Cardinality({}) + 0 + 0
  BY DEF Size, Cleaned, unit
<1>3. /\ Cardinality(Rules(c)) \in Nat /\ Cardinality(Rule) \in Nat
      /\ Cardinality(Rules(c)) <= Cardinality(Rule)
  BY <1>1, RuleFileAssumption, FS_Subset, FS_CardinalityType
<1>4. Cardinality({}) = 0
  BY FS_EmptySet
<1>5. ~ (Size(Cleaned(c)) > maxRuleFileBytes)
  <2> DEFINE small == Cardinality(Rules(c))  all == Cardinality(Rule)
  <2>1. Size(Cleaned(c)) = 2 * small /\ small \in Nat /\ all \in Nat /\ small <= all
        /\ 2 * all <= maxRuleFileBytes
    BY <1>2, <1>3, <1>4
  <2> HIDE DEF small, all
  <2> QED BY <2>1, RuleFileAssumption
<1>6. ~AllInvalid(Cleaned(c))
  BY DEF AllInvalid, Cleaned
<1>7. Cleaned(c) # Absent
  BY <1>1, NoContentAssumption
<1> QED BY <1>5, <1>6, <1>7 DEF Acceptable, Unusable

(* Until the next save, the file holds what was saved or what cleaning     *)
(* leaves of it, and nothing else is about to be written.                  *)
SavedInv ==
    fell = "none" /\ Acceptable(latest) =>
        /\ file = latest \/ file = Cleaned(latest)
        /\ pc = "write" => toWrite = Nothing \/ toWrite = Cleaned(latest)
        /\ proc # "seeding"

LEMMA AcceptableIsContent ==
    ASSUME NEW c \in Content \cup {Absent}, Acceptable(c)
    PROVE  c \in Content
BY DEF Acceptable, Unusable

LEMMA StepSavedInv == CleaningFits /\ IInv /\ SavedInv /\ [Next]_vars => SavedInv'
<1> SUFFICES ASSUME CleaningFits, IInv, SavedInv, [Next]_vars,
                    fell' = "none", Acceptable(latest')
             PROVE  /\ file' = latest' \/ file' = Cleaned(latest')
                    /\ pc' = "write" => toWrite' = Nothing \/ toWrite' = Cleaned(latest')
                    /\ proc' # "seeding"
  BY DEF SavedInv, Acceptable, Unusable, AllInvalid, Size, Rules, Cleaned, unit
<1> USE DEF pluginVars, watchVars, reloadVars, boundVars
<1>1. ASSUME NEW c \in Content \cup {Absent}, Save(c) PROVE
                /\ file' = latest'
                /\ pc' = "write" => toWrite' = Nothing
                /\ proc' # "seeding"
  BY <1>1 DEF Save, window
<1>2. CASE Seed
  <2>1. latest = Absent
    BY <1>2 DEF Seed, SavedInv
  <2>2. pc' # "write"
    BY <1>2 DEF Seed, IInv, ProcessInv
  <2> QED BY <1>2, <2>1, <2>2 DEF Seed
<1>3. ASSUME ~Seed, \A c \in Content \cup {Absent} : ~Save(c)
      PROVE  /\ latest' = latest /\ fell' = fell
             /\ ~Write => file' = file
             /\ ~Read => toWrite' = toWrite \/ pc' = "none"
             /\ pc' = "write" /\ pc # "write" => Read
             /\ proc' = "seeding" /\ proc # "seeding" => file = Absent
  BY <1>3 DEF Next, Plugin, Reload, Stop, Boot, BootFails, Start, Watch, HandleEvent, EventLost,
              TimerFires, Read, Write, Swap, ReloadFails, WatchFails, vars
<1>4. CASE ~Seed /\ \A c \in Content \cup {Absent} : ~Save(c)
  <2>1. /\ latest' = latest /\ fell = "none" /\ Acceptable(latest)
        /\ ~Write => file' = file
        /\ ~Read => toWrite' = toWrite \/ pc' = "none"
        /\ pc' = "write" /\ pc # "write" => Read
        /\ proc' = "seeding" /\ proc # "seeding" => file = Absent
    BY <1>3, <1>4
  <2>2. latest \in Content
    BY <2>1, AcceptableIsContent DEF IInv, Typed, ContentTyped
  <2>3. /\ Cleaned(latest) \in Content /\ Acceptable(Cleaned(latest))
        /\ Cleaned(Cleaned(latest)) = Cleaned(latest)
    BY <2>1, <2>2, CleanedIsContent DEF CleaningFits
  <2>4. /\ file = latest \/ file = Cleaned(latest)
        /\ pc = "write" => toWrite = Nothing \/ toWrite = Cleaned(latest)
        /\ proc # "seeding"
    BY <2>1 DEF SavedInv
  <2>5. file' = latest \/ file' = Cleaned(latest)
    <3>1. CASE Write
      BY <2>4, <3>1 DEF Write
    <3> QED BY <2>1, <2>4, <3>1
  <2>6. ASSUME pc' = "write" PROVE toWrite' = Nothing \/ toWrite' = Cleaned(latest)
    <3>1. CASE Read
      <4>1. decide(file) /\ Acceptable(file)
        BY <2>1, <2>3, <2>4, <3>1 DEF Read
      <4>2. toWrite' = Nothing \/ toWrite' = Cleaned(file)
        BY <4>1 DEF decide, Acceptable
      <4> QED BY <2>3, <2>4, <4>2
    <3>2. CASE ~Read
      BY <2>1, <2>4, <2>6, <3>2
    <3> QED BY <3>1, <3>2
  <2>7. proc' # "seeding"
    BY <2>1, <2>2, <2>3, <2>4, NoContentAssumption
  <2> QED BY <2>1, <2>5, <2>6, <2>7
<1> QED BY <1>1, <1>2, <1>4

(* Where cleaning cannot push a list over the size limit, hot reload keeps *)
(* its promise: a save that rulesplugin.go and config.go were not about to *)
(* overwrite, and that the watcher was not too late for, is in force once  *)
(* the plugin rests, whatever stopped or failed since.  Without the        *)
(* hypothesis it is lost at the next restart.                              *)
THEOREM UnracedSaveInForce == CleaningFits => (Spec => []UnracedSaveIsPolicy)
<1> SUFFICES ASSUME CleaningFits PROVE Spec => []UnracedSaveIsPolicy
  OBVIOUS
<1>1. Init => SavedInv
  BY DEF Init, SavedInv
<1>2. IInv /\ SavedInv /\ [Next]_vars => SavedInv'
  BY StepSavedInv
<1>3. IInv /\ SavedInv => UnracedSaveIsPolicy
  <2> SUFFICES ASSUME IInv, SavedInv, fell = "none", Quiet, Acceptable(latest)
               PROVE  matcher = Rules(latest)
    BY DEF UnracedSaveIsPolicy, SavedIsPolicy
  <2>1. latest \in Content
    BY AcceptableIsContent DEF IInv, Typed, ContentTyped
  <2>2. Rules(file) = matcher
    BY IInvImplies DEF FileIsPolicy
  <2>3. file = latest \/ file = Cleaned(latest)
    BY DEF SavedInv
  <2> QED BY <2>1, <2>2, <2>3, CleanedIsContent
<1> QED BY <1>1, <1>2, <1>3, Invariance, PTL DEF Spec

-----------------------------------------------------------------------------
(* Coming to rest.                                                         *)

(* A list that reload leaves on disk as it is. *)
Settled(c) == c \in Content /\ c = Cleaned(c) /\ Acceptable(c)

(* What reload writes back, or puts into force, is such a list. *)
WritesSettled ==
    /\ Settled(lastGood)
    /\ pc = "write" /\ toWrite # Nothing => Settled(toWrite)
    /\ pc \in {"write", "swap"} /\ toSwap # Nothing => Settled(toSwap)

(* A write of the plugin is due. *)
WriteDue == ~Settled(file) \/ (pc = "write" /\ toWrite # Nothing)

(* How many steps the plugin can still take if it is left alone: to start, *)
(* to end the reload it is in, to handle what the watcher has told it, and *)
(* to write back, which the watcher will tell it again.                    *)
InStart ==
    CASE proc = "off" -> 13
      [] proc = "seeding" -> 12
      [] proc = "down" -> 5
      [] proc = "loading" -> 1
      [] proc = "running" -> 0

InReload ==
    CASE pc = "read" -> 3
      [] pc = "write" -> 2
      [] pc = "swap" -> 1
      [] pc = "none" -> 0

InWatch == (IF event THEN 5 ELSE 0) + (IF timer THEN 4 ELSE 0)

InWrite == IF WriteDue THEN 6 ELSE 0

Work == InStart + InReload + InWatch + InWrite

AtRest == proc = "running" /\ pc = "none" /\ ~event /\ ~timer

LEMMA EmptySettled == Settled(Empty)
<1>1. Size(Empty) = 0
  BY FS_EmptySet DEF Size, Empty, unit
<1>2. ~ (Size(Empty) > maxRuleFileBytes)
  BY <1>1, RuleFileAssumption
<1>3. ~AllInvalid(Empty)
  BY DEF AllInvalid, Empty
<1>4. Empty # Absent
  BY EmptyIsContent, NoContentAssumption
<1> QED BY <1>2, <1>3, <1>4, EmptyIsContent DEF Settled, Acceptable, Unusable

(* What decide leaves to be written and to be put into force.              *)
LEMMA DecidedSettled ==
    ASSUME CleaningFits, NEW c \in Content \cup {Absent}, Settled(lastGood), decide(c)
    PROVE  /\ toWrite' # Nothing => Settled(toWrite')
           /\ toSwap' # Nothing => Settled(toSwap')
           /\ Settled(c) => toWrite' = Nothing
<1>1. CASE Unusable(c)
  <2>1. ~Settled(c)
    BY <1>1 DEF Settled, Acceptable
  <2> QED BY <1>1, <2>1, EmptySettled DEF decide
<1>2. CASE ~Unusable(c) /\ AllInvalid(c)
  <2>1. c \in Content /\ ~Settled(c)
    BY <1>2 DEF Settled, Acceptable, Unusable
  <2>2. Cleaned(c) = Empty
    BY <1>2 DEF AllInvalid, Cleaned, Empty
  <2>3. c # Cleaned(c)
    BY <2>1, <1>2, <2>2 DEF AllInvalid, Empty
  <2> QED BY <1>2, <2>1, <2>2, <2>3, EmptySettled DEF decide
<1>3. CASE ~Unusable(c) /\ ~AllInvalid(c)
  <2>1. c \in Content /\ Acceptable(c)
    BY <1>3, AcceptableIsContent DEF Acceptable
  <2>2. Settled(Cleaned(c))
    BY <2>1, CleanedIsContent DEF Settled, CleaningFits
  <2>3. toSwap' = Cleaned(c) /\ toWrite' = (IF c = Cleaned(c) THEN Nothing ELSE Cleaned(c))
    BY <1>3 DEF decide
  <2> QED BY <2>2, <2>3 DEF Settled
<1> QED BY <1>1, <1>2, <1>3

LEMMA StepWritesSettled ==
    ASSUME CleaningFits, IInv, WritesSettled, [Next]_vars
    PROVE  WritesSettled'
<1> USE EmptySettled DEF WritesSettled, pluginVars, reloadVars, watchVars, boundVars
<1>1. ASSUME UNCHANGED <<lastGood, toWrite, toSwap>>, pc' = pc \/ pc' \in {"none", "read"}
      PROVE  WritesSettled'
  BY <1>1 DEF Settled
<1>2. CASE Stop
  BY <1>2 DEF Stop
<1>3. CASE WatchFails
  BY <1>3 DEF WatchFails
<1>4. CASE Read
  <2>1. /\ pc' = "write" /\ lastGood' = lastGood /\ decide(file)
    BY <1>4 DEF Read
  <2>2. file \in Content \cup {Absent}
    BY DEF IInv, Typed, ContentTyped
  <2>3. /\ toWrite' # Nothing => Settled(toWrite')
        /\ toSwap' # Nothing => Settled(toSwap')
    BY <2>1, <2>2, DecidedSettled
  <2> QED BY <2>1, <2>3
<1>5. CASE Write
  BY <1>5 DEF Write
<1>6. CASE Swap
  BY <1>6 DEF Swap, IInv, DecisionInv
<1>7. CASE ~(Stop \/ WatchFails \/ Read \/ Write \/ Swap)
  <2>1. UNCHANGED <<lastGood, toWrite, toSwap>> /\ (pc' = pc \/ pc' \in {"none", "read"})
    BY <1>7 DEF Next, Plugin, Reload, Save, Boot, Seed, BootFails, Start, Watch, HandleEvent,
                EventLost, TimerFires, ReloadFails, vars
  <2> QED BY <1>1, <2>1
<1> QED BY <1>2, <1>3, <1>4, <1>5, <1>6, <1>7

LEMMA WorkTyped ==
    ASSUME IInv
    PROVE  InStart \in 0 .. 13 /\ InReload \in 0 .. 3 /\ InWatch \in 0 .. 9 /\ InWrite \in 0 .. 6
<1>1. InStart \in 0 .. 13
  BY DEF InStart, IInv, Typed, ControlTyped
<1>2. InReload \in 0 .. 3
  BY DEF InReload, IInv, Typed, ControlTyped
<1>3. InWatch \in 0 .. 9
  BY DEF InWatch
<1>4. InWrite \in 0 .. 6
  BY DEF InWrite
<1> QED BY <1>1, <1>2, <1>3, <1>4

LEMMA WorkBounded == IInv => Work \in 0 .. 31
<1>1. \A a \in 0 .. 13, b \in 0 .. 3, c \in 0 .. 9, d \in 0 .. 6 : a + b + c + d \in 0 .. 31
  OBVIOUS
<1> QED BY <1>1, WorkTyped DEF Work

(* The ways in which a step lowers the sum. *)
LEMMA SumFalls ==
    \A a, b, c, d, e, f, g, h \in Int :
        \/ e <= a /\ f <= b /\ g <= c /\ h <= d /\ (e < a \/ f < b \/ g < c)
        \/ e + 7 = a /\ f = b /\ g = c /\ h <= d + 6
        \/ e + 4 = a /\ f = b + 3 /\ g = c /\ h = d
        \/ e = a /\ f = b + 3 /\ g + 4 = c /\ h = d
        \/ e = a /\ f < b /\ g <= c + 5 /\ h + 6 = d
        => e + f + g + h < a + b + c + d
OBVIOUS

LEMMA StepWork ==
    ASSUME CleaningFits, IInv, WritesSettled, Plugin, ~ReloadFails, ~WatchFails
    PROVE  Work' < Work
<1> USE DEF pluginVars, watchVars, reloadVars, boundVars
<1> DEFINE Falls ==
      /\ InStart' <= InStart /\ InReload' <= InReload
      /\ InWatch' <= InWatch /\ InWrite' <= InWrite
      /\ InStart' < InStart \/ InReload' < InReload \/ InWatch' < InWatch
<1>1. InStart \in 0 .. 13 /\ InReload \in 0 .. 3 /\ InWatch \in 0 .. 9 /\ InWrite \in 0 .. 6
  BY WorkTyped
<1>2. InStart' \in 0 .. 13 /\ InReload' \in 0 .. 3 /\ InWatch' \in 0 .. 9 /\ InWrite' \in 0 .. 6
  <2>1. ControlTyped'
    BY StepIInv DEF Next, IInv, Typed
  <2>2. InStart' \in 0 .. 13
    BY <2>1 DEF InStart, ControlTyped
  <2>3. InReload' \in 0 .. 3
    BY <2>1 DEF InReload, ControlTyped
  <2>4. InWatch' \in 0 .. 9
    BY DEF InWatch
  <2>5. InWrite' \in 0 .. 6
    BY DEF InWrite
  <2> QED BY <2>2, <2>3, <2>4, <2>5
<1>3. /\ Falls => Work' < Work
      /\ InStart' + 7 = InStart /\ InReload' = InReload /\ InWatch' = InWatch
            /\ InWrite' <= InWrite + 6 => Work' < Work
      /\ InStart' + 4 = InStart /\ InReload' = InReload + 3 /\ InWatch' = InWatch
            /\ InWrite' = InWrite => Work' < Work
      /\ InStart' = InStart /\ InReload' = InReload + 3 /\ InWatch' + 4 = InWatch
            /\ InWrite' = InWrite => Work' < Work
      /\ InStart' = InStart /\ InReload' < InReload /\ InWatch' <= InWatch + 5
            /\ InWrite' + 6 = InWrite => Work' < Work
  <2>1. /\ InStart \in Int /\ InReload \in Int /\ InWatch \in Int /\ InWrite \in Int
        /\ InStart' \in Int /\ InReload' \in Int /\ InWatch' \in Int /\ InWrite' \in Int
    BY <1>1, <1>2
  <2> QED BY <2>1, SumFalls DEF Work
<1> HIDE DEF Falls
<1>4. ASSUME file' = file, pc' # "write", pc # "write" PROVE InWrite' = InWrite
  BY <1>4 DEF InWrite, WriteDue
<1>5. CASE Boot
  <2>1. InWrite' = InWrite
    BY <1>4, <1>5 DEF Boot, IInv, ProcessInv
  <2>2. InReload' = InReload /\ InWatch' = InWatch
    BY <1>5 DEF Boot, InReload, InWatch
  <2>3. InStart' < InStart
    BY <1>5 DEF Boot, InStart
  <2>4. Falls
    BY <1>1, <1>2, <2>1, <2>2, <2>3 DEF Falls
  <2> QED BY <1>3, <2>4
<1>6. CASE Seed
  <2>1. InReload' = InReload /\ InWatch' = InWatch
    BY <1>6 DEF Seed, InReload, InWatch
  <2>2. InStart' + 7 = InStart
    BY <1>6 DEF Seed, InStart
  <2>3. InWrite' <= InWrite + 6
    BY <1>1, <1>2
  <2> QED BY <1>3, <2>1, <2>2, <2>3
<1>7. CASE Start
  <2>1. InWrite' = InWrite
    BY <1>4, <1>7 DEF Start, IInv, ProcessInv
  <2>2. InWatch' = InWatch /\ InStart' + 4 = InStart
    BY <1>7 DEF Start, InWatch, InStart
  <2>3. InReload' = InReload + 3
    BY <1>7 DEF Start, InReload, IInv, ProcessInv
  <2> QED BY <1>3, <2>1, <2>2, <2>3
<1>8. CASE Watch
  <2>1. InWrite' = InWrite
    BY <1>4, <1>8 DEF Watch
  <2>2. InReload' = InReload /\ InWatch' = InWatch
    BY <1>8 DEF Watch, InReload, InWatch
  <2>3. InStart' < InStart
    BY <1>8 DEF Watch, InStart
  <2>4. Falls
    BY <1>1, <1>2, <2>1, <2>2, <2>3 DEF Falls
  <2> QED BY <1>3, <2>4
<1>9. CASE HandleEvent
  <2>1. InWrite' = InWrite
    BY <1>4, <1>9 DEF HandleEvent
  <2>2. InReload' = InReload /\ InStart' = InStart
    BY <1>9 DEF HandleEvent, InReload, InStart
  <2>3. InWatch' < InWatch
    BY <1>9 DEF HandleEvent, InWatch
  <2>4. Falls
    BY <1>1, <1>2, <2>1, <2>2, <2>3 DEF Falls
  <2> QED BY <1>3, <2>4
<1>10. CASE TimerFires
  <2>1. InWrite' = InWrite
    BY <1>4, <1>10 DEF TimerFires
  <2>2. InStart' = InStart /\ InReload' = InReload + 3
    BY <1>10 DEF TimerFires, InStart, InReload
  <2>3. InWatch' + 4 = InWatch
    BY <1>10 DEF TimerFires, InWatch
  <2> QED BY <1>3, <2>1, <2>2, <2>3
<1>11. CASE Read
  <2>1. InStart' = InStart /\ InWatch' = InWatch
    BY <1>11 DEF Read, InStart, InWatch
  <2>2. InReload' < InReload
    BY <1>11 DEF Read, InReload
  <2>3. InWrite' <= InWrite
    <3>1. file' = file /\ pc # "write" /\ decide(file) /\ file \in Content \cup {Absent}
      BY <1>11 DEF Read, IInv, Typed, ContentTyped
    <3>2. Settled(file) => toWrite' = Nothing
      BY <3>1, DecidedSettled DEF WritesSettled
    <3>3. WriteDue' => WriteDue
      BY <3>1, <3>2 DEF WriteDue
    <3> QED BY <3>3 DEF InWrite
  <2>4. Falls
    BY <1>1, <1>2, <2>1, <2>2, <2>3 DEF Falls
  <2> QED BY <1>3, <2>4
<1>12. CASE Write
  <2>1. InStart' = InStart /\ InReload' < InReload
    BY <1>12 DEF Write, InStart, InReload
  <2>2. CASE toWrite = Nothing
    <3>1. WriteDue' = WriteDue
      BY <1>12, <2>2 DEF Write, WriteDue
    <3>2. InWrite' = InWrite /\ InWatch' = InWatch
      BY <1>12, <2>2, <3>1 DEF Write, InWrite, InWatch
    <3>3. Falls
      BY <1>1, <1>2, <2>1, <3>2 DEF Falls
    <3> QED BY <1>3, <3>3
  <2>3. CASE toWrite # Nothing
    <3>1. WriteDue /\ ~WriteDue'
      BY <1>12, <2>3 DEF Write, WriteDue, WritesSettled
    <3>2. InWrite' + 6 = InWrite
      BY <3>1 DEF InWrite
    <3>3. InWatch' <= InWatch + 5
      BY <1>12, <2>3 DEF Write, InWatch
    <3> QED BY <1>3, <2>1, <3>2, <3>3
  <2> QED BY <2>2, <2>3
<1>13. CASE Swap
  <2>1. InWrite' = InWrite
    BY <1>4, <1>13 DEF Swap
  <2>2. InStart' = InStart /\ InWatch' = InWatch
    BY <1>13 DEF Swap, InStart, InWatch
  <2>3. InReload' < InReload
    BY <1>13 DEF Swap, InReload
  <2>4. Falls
    BY <1>1, <1>2, <2>1, <2>2, <2>3 DEF Falls
  <2> QED BY <1>3, <2>4
<1> QED BY <1>5, <1>6, <1>7, <1>8, <1>9, <1>10, <1>11, <1>12, <1>13 DEF Plugin, Reload

LEMMA RestIsNoWork ==
    ASSUME IInv
    PROVE  Work = 0 => AtRest /\ Settled(file)
<1>1. \A a \in 0 .. 13, b \in 0 .. 3, c \in 0 .. 9, d \in 0 .. 6 :
        a + b + c + d = 0 => a = 0 /\ b = 0 /\ c = 0 /\ d = 0
  OBVIOUS
<1> SUFFICES ASSUME Work = 0 PROVE AtRest /\ Settled(file)
  OBVIOUS
<1>2. InStart = 0 /\ InReload = 0 /\ InWatch = 0 /\ InWrite = 0
  BY <1>1, WorkTyped DEF Work
<1>3. proc = "running"
  BY <1>2 DEF InStart, IInv, Typed, ControlTyped
<1>4. pc = "none"
  BY <1>2 DEF InReload, IInv, Typed, ControlTyped
<1>5. ~event /\ ~timer
  BY <1>2 DEF InWatch
<1>6. Settled(file)
  BY <1>2 DEF InWrite, WriteDue
<1> QED BY <1>3, <1>4, <1>5, <1>6 DEF AtRest

(* The plugin of rulesplugin.go never answers its own writes for ever:     *)
(* each of its steps, unless one fails, lowers a bound on those to come,   *)
(* of at most 31, which only a save, a stop or an I/O error can raise.     *)
(* Where a cleaned list can outgrow the limit this is false: the watcher   *)
(* reports the write of the last valid list, which reload does not accept  *)
(* and replaces by the last valid list.                                    *)
THEOREM ComesToRest ==
    CleaningFits =>
        (Spec => /\ [][Plugin /\ ~(ReloadFails \/ WatchFails) => Work' < Work]_vars
                 /\ [](Work \in 0 .. 31 /\ (Work = 0 => AtRest /\ Settled(file))))
<1> SUFFICES ASSUME CleaningFits
             PROVE  Spec => /\ [][Plugin /\ ~(ReloadFails \/ WatchFails) => Work' < Work]_vars
                            /\ [](Work \in 0 .. 31 /\ (Work = 0 => AtRest /\ Settled(file)))
  OBVIOUS
<1>1. Init => WritesSettled
  BY EmptySettled DEF Init, WritesSettled
<1>2. IInv /\ WritesSettled /\ [Next]_vars => WritesSettled'
  BY StepWritesSettled
<1>3. IInv /\ WritesSettled /\ [Next]_vars
        => [Plugin /\ ~(ReloadFails \/ WatchFails) => Work' < Work]_vars
  BY StepWork
<1>4. IInv => Work \in 0 .. 31 /\ (Work = 0 => AtRest /\ Settled(file))
  BY WorkBounded, RestIsNoWork
<1> QED BY <1>1, <1>2, <1>3, <1>4, Invariance, PTL DEF Spec
=============================================================================
