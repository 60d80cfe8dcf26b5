------------------------------- MODULE RuleFile -------------------------------
(***************************************************************************)
(* A hot-reloaded rule list: internal/rulesplugin/rulesplugin.go, with the *)
(* operator who edits direct.txt or proxy.txt, the file system between     *)
(* them, the installation of a missing list when the container starts      *)
(* (cmd/veladns/config.go), and the restarts of MosDNS and the container.  *)
(*                                                                         *)
(* The plugin reads the file, drops what it does not understand, WRITES    *)
(* the result back into the same file, and swaps its matcher.  The three   *)
(* are separate steps; the operator may save in between, and the process   *)
(* may stop.  Its own write raises a file-system event like any other.     *)
(*                                                                         *)
(* A file's content is abstracted to the rules it has in typed form        *)
(* ("domain:x", two size units), the rules it has in short form ("x", one  *)
(* unit, which sanitizeRules rewrites to the typed form), and whether it   *)
(* holds an invalid line or comments (one unit each).                      *)
(***************************************************************************)
EXTENDS Integers, FiniteSets

CONSTANTS
    Rule,                   \* the rules an operator may list
    maxRuleFileBytes,       \* in size units
    Absent,                 \* the content of a file that does not exist
    Default,                \* the content of the list shipped in the image
    Nothing,                \* nothing to write back, or nothing to swap in
    MaxEdits,               \* bound: saves and removals by the operator
    MaxStops,               \* bound: stops of the process
    MaxIOErrors             \* bound: failed reads, writes and watches

ASSUME RuleFileAssumption ==
    /\ IsFiniteSet(Rule)
    /\ maxRuleFileBytes \in Nat
    /\ MaxEdits \in Nat /\ MaxStops \in Nat /\ MaxIOErrors \in Nat

-----------------------------------------------------------------------------
(* Contents.                                                               *)

Content == {c \in [typed : SUBSET Rule, short : SUBSET Rule, bad : BOOLEAN, comments : BOOLEAN] :
                c.typed \cap c.short = {}}

ASSUME NoContentAssumption ==
    Absent \notin Content /\ Nothing \notin Content /\ Default \in Content

unit(flag) == IF flag THEN 1 ELSE 0

Size(c) == 2 * Cardinality(c.typed) + Cardinality(c.short) + unit(c.bad) + unit(c.comments)

(* sanitizeRules: the rules of a content, and the bytes it leaves of it. *)
Rules(c) == c.typed \cup c.short

Cleaned(c) == [typed |-> Rules(c), short |-> {}, bad |-> FALSE, comments |-> FALSE]

Empty == [typed |-> {}, short |-> {}, bad |-> FALSE, comments |-> FALSE]

(* What reload passes to restoreOrClear: no file, or one over the limit. *)
Unusable(c) == c # Absent => Size(c) > maxRuleFileBytes

(* stats.meaningful > 0 && len(rules) == 0 *)
AllInvalid(c) == Rules(c) = {} /\ c.bad

(* A content that reload puts into force. *)
Acceptable(c) == ~Unusable(c) /\ ~AllInvalid(c)

VARIABLES
    file,       \* what is on disk
    proc,       \* "off" (no container), "seeding" (prepareDomainLists),
                \* "down" (no MosDNS), "loading" (newRuleFile) or "running"
    matcher,    \* the rules in force
    lastGood, loaded,
    event,      \* a file-system event the watcher has not handled yet
    timer,      \* whether the debounce timer is armed
    pc,         \* where reload is: "none", "read", "write", "swap"
    raw,        \* what reload has read
    toWrite,    \* what reload writes back, or Nothing
    toSwap,     \* the content reload puts into force, or Nothing
    latest,     \* (history) what the operator saved last
    fell,       \* (history) the window of the plugin the last save fell into
    stale,      \* (history) the last reload failed, or an event was lost since
    edits, stops, ioErrors      \* bounded counts

pluginVars == <<matcher, lastGood, loaded>>
reloadVars == <<pc, raw, toWrite, toSwap>>
watchVars == <<event, timer>>
boundVars == <<edits, stops, ioErrors>>
vars == <<file, proc, pluginVars, watchVars, reloadVars, latest, fell, stale, boundVars>>

TypeOK ==
    /\ file \in Content \cup {Absent}
    /\ proc \in {"off", "seeding", "down", "loading", "running"}
    /\ matcher \in SUBSET Rule
    /\ lastGood \in Content
    /\ loaded \in BOOLEAN
    /\ event \in BOOLEAN
    /\ timer \in BOOLEAN
    /\ pc \in {"none", "read", "write", "swap"}
    /\ raw \in Content \cup {Absent}
    /\ toWrite \in Content \cup {Nothing}
    /\ toSwap \in Content \cup {Nothing}
    /\ latest \in Content \cup {Absent}
    /\ fell \in {"none", "writeback", "startup"}
    /\ stale \in BOOLEAN
    /\ edits \in 0 .. MaxEdits
    /\ stops \in 0 .. MaxStops
    /\ ioErrors \in 0 .. MaxIOErrors

(* The container has not started yet; its data volume holds any file. *)
Init ==
    /\ file \in Content \cup {Absent}
    /\ latest = file /\ fell = "none"
    /\ proc = "off"
    /\ matcher = {} /\ lastGood = Empty /\ loaded = FALSE
    /\ event = FALSE /\ timer = FALSE
    /\ pc = "none" /\ raw = Empty /\ toWrite = Nothing /\ toSwap = Nothing
    /\ stale = FALSE
    /\ edits = 0 /\ stops = 0 /\ ioErrors = 0

-----------------------------------------------------------------------------
(* The operator and the file system.                                       *)

(* The two windows in which a save escapes the program: between a look at  *)
(* the file and the write it leads to, and between the first read and the  *)
(* watcher.                                                                *)
window ==
    IF (pc = "write" /\ toWrite # Nothing) \/ proc = "seeding" THEN "writeback"
    ELSE IF proc = "loading" /\ pc # "read" THEN "startup"
    ELSE "none"

(* The operator replaces or removes the file; a watcher, if there is one,  *)
(* is told.                                                                *)
Save(c) ==
    /\ edits < MaxEdits
    /\ edits' = edits + 1
    /\ fell' = window
    /\ file' = c
    /\ latest' = c
    /\ event' = (proc = "running")
    /\ UNCHANGED <<proc, pluginVars, timer, reloadVars, stale, stops, ioErrors>>

(* MosDNS or the whole container ends, or is killed, wherever it is. *)
Stop ==
    /\ proc # "off" /\ stops < MaxStops
    /\ stops' = stops + 1
    /\ proc' \in {"off"} \cup (IF proc \in {"loading", "running"} THEN {"down"} ELSE {})
    /\ matcher' = {} /\ lastGood' = Empty /\ loaded' = FALSE
    /\ event' = FALSE /\ timer' = FALSE
    /\ pc' = "none" /\ raw' = Empty /\ toWrite' = Nothing /\ toSwap' = Nothing
    /\ stale' = FALSE
    /\ UNCHANGED <<file, latest, fell, edits, ioErrors>>

-----------------------------------------------------------------------------
(* prepareDomainLists, once per start of the container.                    *)

Boot ==
    /\ proc = "off"
    /\ proc' = IF file = Absent THEN "seeding" ELSE "down"
    /\ UNCHANGED <<file, pluginVars, watchVars, reloadVars, latest, fell, stale, boundVars>>

(* copyFile renames a complete copy of the shipped list into place. *)
Seed ==
    /\ proc = "seeding"
    /\ proc' = "down"
    /\ file' = Default
    /\ latest' = IF latest = Absent THEN Default ELSE latest
    /\ UNCHANGED <<pluginVars, watchVars, reloadVars, fell, stale, boundVars>>

(* os.Stat or copyFile fails: the entry process ends. *)
BootFails ==
    /\ proc \in {"off", "seeding"}
    /\ ioErrors < MaxIOErrors
    /\ ioErrors' = ioErrors + 1
    /\ proc' = "off"
    /\ UNCHANGED <<file, pluginVars, watchVars, reloadVars, latest, fell, stale, edits, stops>>

-----------------------------------------------------------------------------
(* newRuleFile and watch.                                                  *)

(* newRuleFile runs its first reload before there is a watcher. *)
Start ==
    /\ proc = "down"
    /\ proc' = "loading"
    /\ pc' = "read"
    /\ UNCHANGED <<file, pluginVars, watchVars, raw, toWrite, toSwap, latest, fell, stale, boundVars>>

(* w.Add, after the first reload. *)
Watch ==
    /\ proc = "loading" /\ pc = "none"
    /\ proc' = "running"
    /\ UNCHANGED <<file, pluginVars, watchVars, reloadVars, latest, fell, stale, boundVars>>

(* watch takes an event and (re-)arms the debounce timer. *)
HandleEvent ==
    /\ proc = "running" /\ pc = "none" /\ event
    /\ event' = FALSE
    /\ timer' = TRUE
    /\ UNCHANGED <<file, proc, pluginVars, reloadVars, latest, fell, stale, boundVars>>

(* The watcher reports an error: the system's event queue overflowed and   *)
(* events were dropped.  watch logs it and goes on.                        *)
EventLost ==
    /\ proc = "running" /\ event
    /\ ioErrors < MaxIOErrors
    /\ ioErrors' = ioErrors + 1
    /\ event' = FALSE
    /\ stale' = TRUE
    /\ UNCHANGED <<file, proc, pluginVars, timer, reloadVars, latest, fell, edits, stops>>

(* The timer fires; reload runs in the watch goroutine. *)
TimerFires ==
    /\ proc = "running" /\ pc = "none" /\ timer
    /\ timer' = FALSE
    /\ pc' = "read"
    /\ UNCHANGED <<file, proc, pluginVars, event, raw, toWrite, toSwap, latest, fell, stale, boundVars>>

-----------------------------------------------------------------------------
(* reload.                                                                 *)

(* Mutants of decide: an unusable file always clears the policy; the       *)
(* cleaned rules are not written back; they are even when nothing changed. *)
decideClears(c) ==
    LET use == IF Acceptable(c) THEN Cleaned(c) ELSE Empty
    IN  toWrite' = (IF c = use THEN Nothing ELSE use) /\ toSwap' = use

decideNoWriteBack(c) ==
    /\ toWrite' = Nothing
    /\ toSwap' = IF Acceptable(c) THEN Cleaned(c) ELSE Nothing

decideAlwaysRewrites(c) ==
    IF Acceptable(c) THEN toWrite' = Cleaned(c) /\ toSwap' = Cleaned(c)
    ELSE toWrite' = lastGood /\ toSwap' = IF loaded THEN Nothing ELSE lastGood

(* What reload decides to do about the content it has read: restore the    *)
(* last valid file, clear an unusable first one, or take the content over. *)
decide(c) ==
    IF Unusable(c)
    THEN IF loaded THEN toWrite' = lastGood /\ toSwap' = Nothing
         ELSE toWrite' = Empty /\ toSwap' = Empty
    ELSE IF AllInvalid(c) /\ loaded
         THEN toWrite' = lastGood /\ toSwap' = Nothing
         ELSE /\ toWrite' = IF c = Cleaned(c) THEN Nothing ELSE Cleaned(c)
              /\ toSwap' = Cleaned(c)

Read ==
    /\ pc = "read"
    /\ raw' = file
    /\ decide(file)
    /\ pc' = "write"
    /\ stale' = FALSE
    /\ UNCHANGED <<file, proc, pluginVars, watchVars, latest, fell, boundVars>>

(* writeFileAtomic renames a complete temporary file over the rule file;   *)
(* a running watcher sees that like any other change.                      *)
Write ==
    /\ pc = "write"
    /\ IF toWrite = Nothing THEN UNCHANGED <<file, event>>
       ELSE file' = toWrite /\ event' = (proc = "running")
    /\ pc' = IF toSwap = Nothing THEN "none" ELSE "swap"
    /\ UNCHANGED <<proc, pluginVars, timer, raw, toWrite, toSwap, latest, fell, stale, boundVars>>

(* Mutants of Swap: the bytes read, not the cleaned ones, become the last  *)
(* valid content; events are drained along with the one of the own write.  *)
SwapRaw ==
    /\ pc = "swap"
    /\ matcher' = Rules(toSwap) /\ lastGood' = raw /\ loaded' = TRUE
    /\ pc' = "none"
    /\ UNCHANGED <<file, proc, watchVars, raw, toWrite, toSwap, latest, fell, stale, boundVars>>

SwapDrainsEvents ==
    /\ pc = "swap"
    /\ matcher' = Rules(toSwap) /\ lastGood' = toSwap /\ loaded' = TRUE
    /\ pc' = "none" /\ event' = FALSE
    /\ UNCHANGED <<file, proc, timer, raw, toWrite, toSwap, latest, fell, stale, boundVars>>

(* The new matcher and the new last valid content, under the mutex. *)
Swap ==
    /\ pc = "swap"
    /\ matcher' = Rules(toSwap)
    /\ lastGood' = toSwap
    /\ loaded' = TRUE
    /\ pc' = "none"
    /\ UNCHANGED <<file, proc, watchVars, raw, toWrite, toSwap, latest, fell, stale, boundVars>>

(* reload returns an error: the file cannot be read, a bundled list cannot *)
(* be loaded (after the write only where restoreOrClear clears the file),  *)
(* or the write-back fails.  At startup newRuleFile fails with it and the  *)
(* process ends; later the error is only logged.                           *)
ReloadFails ==
    /\ ioErrors < MaxIOErrors
    /\ \/ pc \in {"read", "write"}
       \/ pc = "swap" /\ ~loaded /\ Unusable(raw)
    /\ ioErrors' = ioErrors + 1
    /\ pc' = "none"
    /\ stale' = (proc = "running")
    /\ proc' = IF proc = "loading" THEN "down" ELSE proc
    /\ UNCHANGED <<file, pluginVars, watchVars, raw, toWrite, toSwap, latest, fell, edits, stops>>

(* NewWatcher or w.Add fails: so does newRuleFile, and the process ends. *)
WatchFails ==
    /\ proc = "loading" /\ pc = "none"
    /\ ioErrors < MaxIOErrors
    /\ ioErrors' = ioErrors + 1
    /\ proc' = "down"
    /\ matcher' = {} /\ lastGood' = Empty /\ loaded' = FALSE
    /\ UNCHANGED <<file, watchVars, reloadVars, latest, fell, stale, edits, stops>>

Reload == Read \/ Write \/ Swap \/ ReloadFails

Plugin == Boot \/ Seed \/ Start \/ Watch \/ WatchFails \/ HandleEvent \/ TimerFires \/ Reload

Next ==
    \/ \E c \in Content \cup {Absent} : Save(c)
    \/ Stop
    \/ BootFails
    \/ EventLost
    \/ Plugin

Spec == Init /\ [][Next]_vars

(* The plugin's goroutine runs, its timer fires, the supervisor starts a   *)
(* stopped process again, and the container's restart policy the container. *)
FairSpec == Spec /\ WF_vars(Plugin)

-----------------------------------------------------------------------------
(* Properties.                                                             *)

(* The plugin watches, has no event, timer or reload outstanding, its last *)
(* reload did not end in an I/O error, and no event was lost since.        *)
Quiet == proc = "running" /\ pc = "none" /\ ~event /\ ~timer /\ ~stale

(* When all is quiet, the file on disk is exactly the list in force: what  *)
(* the operator would read there is the policy, and a restart would load   *)
(* the same one.  Only a save that the watcher was too late for can differ. *)
FileIsPolicy ==
    Quiet /\ fell # "startup" =>
        /\ file # Absent
        /\ file = Cleaned(file)
        /\ Rules(file) = matcher
        /\ loaded /\ lastGood = file

(* When all is quiet, the last save is in force, if it is one the plugin   *)
(* accepts; this is what hot reload of a persistent list means.            *)
SavedIsPolicy == Quiet /\ Acceptable(latest) => matcher = Rules(latest)

(* The same for a save that fell into neither window: restarts of MosDNS   *)
(* or the container, failed reloads, lost events and other saves before    *)
(* it, raced or not, do not lose it - the next save makes up for them.     *)
UnracedSaveIsPolicy == fell = "none" => SavedIsPolicy

(* Within one process the policy changes only to the rules of a content    *)
(* that was acceptable when it was read: neither a removed, oversized or   *)
(* all-invalid file nor an I/O error half-way takes the policy away.       *)
PolicyNotLost ==
    [][loaded /\ loaded' /\ matcher' # matcher => Acceptable(raw) /\ matcher' = Rules(raw)]_vars

(* Once the operator leaves the file alone and nothing fails any more, the *)
(* plugin comes to rest: it does not react to its own writes for ever.     *)
Settles == <>[](proc = "running" /\ pc = "none" /\ ~event /\ ~timer)
=============================================================================
