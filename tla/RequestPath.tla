----------------------------- MODULE RequestPath -----------------------------
(***************************************************************************)
(* The way of a request through MosDNS as VelaDNS configures it            *)
(* (config/mosdns.yaml.tmpl and the foreign-path fragment that             *)
(* cmd/veladns/config.go selects), composed with the AUTO_FORWARD circuit, *)
(* which appears here as the abstract breaker that it implements.          *)
(*                                                                         *)
(* A request is routed by listener, question type and name; an unknown     *)
(* name is classified by a recursive lookup and resolved by an encrypted   *)
(* one; a fallback runs a primary branch and, when that fails or is slow,  *)
(* a stand-by.  Requests run concurrently and share only the circuit.      *)
(* Every lookup may answer, fail or be slow at any time.  Timers are       *)
(* counted down by Tick, which waits for every reaction that is due.       *)
(***************************************************************************)
EXTENDS Integers

CONSTANTS
    Query,          \* the requests that may be served at once
    Asks,           \* Asks[q]: the questions request q may bring
    Leaving,        \* the requests whose (TCP) client may go away
    Attempts,       \* attempts of the circuit
    AttemptTime,    \* attempt_timeout_millis, in time units
    Threshold,      \* threshold of the three fallbacks, in time units
    QueryTimeout,   \* external: the entry handler's limit for a request
    LevelCap, Delays  \* of the breaker

Question == [listener : {"main", "secure"},
             qtype : {"A", "AAAA", "other"},
             name : {"private", "direct", "proxy", "both", "unknown"}]

ASSUME AskAssumption == Asks \in [Query -> SUBSET Question] /\ Leaving \subseteq Query
ASSUME TimeAssumption ==
    /\ {Attempts, AttemptTime, Threshold, QueryTimeout, LevelCap} \subseteq Nat \ {0}
    /\ Delays \in [1 .. LevelCap -> SUBSET Nat]

(* The shipped times: the attempts (2 of 800 ms) are over before a stand-  *)
(* by's threshold (2 s), and the two fit the entry handler's limit (5 s).  *)
ASSUME PaceAssumption ==
    /\ Attempts * AttemptTime < Threshold
    /\ Threshold + Attempts * AttemptTime < QueryTimeout

VARIABLES
    auto,                   \* autoEnabled: a Mihomo endpoint is configured
    state, level, wait,     \* the circuit, as module Breaker sees it
    req                     \* req[q]: where request q is, see Request

breakerVars == <<state, level, wait>>
vars == <<auto, breakerVars, req>>

circuit == INSTANCE Breaker

-----------------------------------------------------------------------------
(* Requests.                                                               *)

(* A response is known by the resolver it came from, by what it says, and  *)
(* by whether its TTL was cut to five seconds.                             *)
Resp(from, says) == [from |-> from, says |-> says, short |-> FALSE]
NoResp == Resp("nobody", "nothing")
ServFail == Resp("handler", "servfail")
Gone == Resp("handler", "gone")
Responses == {NoResp, ServFail, Gone}
             \cup [from : {"recursive", "encrypted", "mihomo", "reject"},
                   says : {"cn", "foreign", "negative"},
                   short : BOOLEAN]

Decisions == {"rejected_ipv6", "rejected_private", "direct", "proxy", "unknown",
    "secure_listener", "secure_listener_rejected_ipv6", "classified_domestic",
    "classified_overseas", "validated_foreign", "secure_non_cn", "secure_foreign",
    "fakeip_attempt", "fakeip_answer", "fallback_reuse_real", "fallback_secure_lookup"}

(* Stages: in a fallback ("classify" or "fakeip"), in a single encrypted   *)
(* lookup ("encrypted" of classify_path, "secure" of secure_real_path), or *)
(* over.  prim and stand are the two branches of the current fallback.     *)
Request == [
    at : {"idle", "classify", "encrypted", "secure", "fakeip", "over"},
    ask : Question,
    resp : Responses,                   \* the response in the query context
    prim : {"off", "run", "failed"},
    stand : {"off", "wait", "run", "failed"},
    timer : 0 .. Threshold,             \* time until the stand-by starts
    budget : 0 .. Attempts * AttemptTime,   \* time left to the circuit call
    probe : BOOLEAN,                    \* the circuit call is the probe
    left : 0 .. QueryTimeout,           \* time until the deadline
    counted : SUBSET Decisions,         \* decisions counted for the request
    vital : BOOLEAN,    \* the encrypted resolver failed it or was slow
    reply : Responses]                  \* what the client received

TypeOK ==
    /\ auto \in BOOLEAN
    /\ state \in {"closed", "open", "halfopen"} /\ level \in 0 .. LevelCap /\ wait \in Nat
    /\ req \in [Query -> Request]

Idle == [at |-> "idle", ask |-> [listener |-> "main", qtype |-> "A", name |-> "unknown"],
         resp |-> NoResp, prim |-> "off", stand |-> "off", timer |-> 0, budget |-> 0,
         probe |-> FALSE, left |-> 0, counted |-> {}, vital |-> FALSE, reply |-> NoResp]

(* prepareRuntime installs one of the two foreign-path fragments. *)
Init == auto \in BOOLEAN /\ circuit!Init /\ req = [q \in Query |-> Idle]

(* veladns_decision counts a decision. *)
count(r, decisions) == [r EXCEPT !.counted = @ \cup decisions]

(* The request's sequence ends: the entry handler sends its reply.  A      *)
(* circuit call that is still running goes on without its request.         *)
over(r, answer) ==
    LET callRuns == r.at = "fakeip" /\ r.prim = "run"
    IN  [r EXCEPT !.at = "over", !.reply = answer, !.resp = NoResp, !.stand = "off",
                  !.timer = 0, !.left = IF callRuns THEN @ ELSE 0,
                  !.prim = IF callRuns THEN "run" ELSE "off"]

circuitRuns(r) == r.at \in {"fakeip", "over"} /\ r.prim = "run"
inFlight(r) == r.at \notin {"idle", "over"}

-----------------------------------------------------------------------------
(* The circuit, as the breaker promises it.                                *)

closed == state = "closed"
denied == ~closed /\ (wait > 0 \/ state = "halfopen")

grant == IF closed THEN UNCHANGED breakerVars ELSE circuit!Probe

succeed == IF closed THEN UNCHANGED breakerVars ELSE circuit!Reset

(* Mutant: the failure of a probe leaves the circuit as it is. *)
failIgnoresProbe(p) ==
    CASE closed /\ ~p -> circuit!Trip \/ UNCHANGED breakerVars
      [] OTHER -> UNCHANGED breakerVars

(* Whether a failure is the one that opens the circuit is left open here. *)
fail(p) ==
    CASE closed /\ ~p -> circuit!Trip \/ UNCHANGED breakerVars
      [] state = "halfopen" /\ p -> circuit!Reopen
      [] OTHER -> UNCHANGED breakerVars

-----------------------------------------------------------------------------
(* The sequences.                                                          *)

(* Mutant: the explicit proxy mapping is looked at before the direct one. *)
explicitPathProxyFirst(name) ==
    IF name \in {"proxy", "both"} THEN "proxy" ELSE IF name = "direct" THEN "direct" ELSE "none"

explicitPath(name) ==
    IF name \in {"direct", "both"} THEN "direct" ELSE IF name = "proxy" THEN "proxy" ELSE "none"

(* main_sequence and secure_listener_path up to the first lookup, foreign_path included. *)
route(r) ==
    LET a == r.ask
        to(stage, decisions) == count([r EXCEPT !.at = stage], decisions)
        reject(decision) == over(count(r, {decision}), Resp("reject", "negative"))
    IN  CASE a.listener = "secure" ->
                IF a.qtype = "AAAA" THEN reject("secure_listener_rejected_ipv6")
                ELSE to("secure", {"secure_listener"})
          [] a.listener = "main" /\ a.qtype = "AAAA" -> reject("rejected_ipv6")
          [] a.listener = "main" /\ a.qtype # "AAAA" ->
                CASE a.name = "private" -> reject("rejected_private")
                  [] explicitPath(a.name) = "direct" -> to("secure", {"direct"})
                  [] explicitPath(a.name) = "proxy" ->
                        IF ~auto THEN to("secure", {"proxy", "secure_foreign"})
                        ELSE to(IF a.qtype = "A" THEN "fakeip" ELSE "secure", {"proxy"})
                  [] OTHER ->
                        [to("classify", {"unknown"}) EXCEPT
                            !.prim = "run", !.stand = "wait", !.timer = Threshold]

(* Mutant: nothing stands by for a name of the proxy list. *)
startStandbyNotForProxy(r) ==
    CASE r.at = "classify" -> [r EXCEPT !.stand = "run"]
      [] r.at = "fakeip" /\ r.resp # NoResp ->
            over(count(r, {"fallback_reuse_real"}), [r.resp EXCEPT !.short = TRUE])
      [] OTHER -> over(r, ServFail)

(* The stand-by of a fallback starts: encrypted_lookup for the classifier, *)
(* keep_real_response for a name with a validated answer in hand, and      *)
(* encrypted_real_standby for a name of the proxy list.                    *)
startStandby(r) ==
    CASE r.at = "classify" -> [r EXCEPT !.stand = "run"]
      [] r.at = "fakeip" /\ r.resp # NoResp ->
            over(count(r, {"fallback_reuse_real"}), [r.resp EXCEPT !.short = TRUE])
      [] OTHER -> [count(r, {"fallback_secure_lookup"}) EXCEPT !.stand = "run"]

(* The primary branch of a fallback ended without a response. *)
primaryFailed(r) ==
    LET failed == [r EXCEPT !.prim = "failed"]
    IN  CASE r.stand = "wait" -> startStandby(failed)
          [] r.stand = "run" -> failed
          [] OTHER -> over(failed, ServFail)

(* Mutant: any address of the recursive resolver is accepted. *)
classifiedByAnyAddress(r, answer) ==
    IF r.ask.qtype = "A" /\ answer.says # "negative"
    THEN over(count(r, {"classified_domestic"}), answer)
    ELSE [count(r, {"classified_overseas"}) EXCEPT
            !.at = "encrypted", !.prim = "off", !.stand = "off", !.timer = 0]

(* classify_path after classify_lookup: a CN address is accepted, anything *)
(* else is only a verdict, dropped before the encrypted lookup.            *)
classified(r, answer) ==
    IF r.ask.qtype = "A" /\ answer.says = "cn"
    THEN over(count(r, {"classified_domestic"}), answer)
    ELSE [count(r, {"classified_overseas"}) EXCEPT
            !.at = "encrypted", !.prim = "off", !.stand = "off", !.timer = 0]

(* validated_foreign_path, up to the fallback that asks Mihomo. *)
validated(r, answer) ==
    CASE ~auto -> over(count(r, {"secure_non_cn"}), answer)
      [] auto /\ r.ask.qtype = "A" /\ answer.says # "negative" ->
            [count(r, {"validated_foreign"}) EXCEPT !.at = "fakeip", !.resp = answer]
      [] OTHER -> over(r, answer)

(* Mutant: one attempt more than the stand-by's threshold leaves room for. *)
circuitBudgetOneMore == (Attempts + 1) * AttemptTime

(* How long Exec of the circuit goes on trying. *)
circuitBudget == Attempts * AttemptTime

(* The request goes where r says.  In front of Mihomo that includes        *)
(* fakeip_query up to the circuit: a denied call fails at once.            *)
goto(q, r) ==
    LET asking == [count(r, {"fakeip_attempt"}) EXCEPT
                    !.prim = "run", !.stand = "wait", !.timer = Threshold]
    IN  IF r.at # "fakeip" THEN req' = [req EXCEPT ![q] = r] /\ UNCHANGED breakerVars
        ELSE \/ /\ ~denied
                /\ grant
                /\ req' = [req EXCEPT ![q] = [asking EXCEPT
                                !.budget = circuitBudget, !.probe = ~closed]]
             \/ /\ denied
                /\ req' = [req EXCEPT ![q] = primaryFailed(asking)]
                /\ UNCHANGED breakerVars

-----------------------------------------------------------------------------
(* Steps.                                                                  *)

Arrive(q) ==
    /\ req[q] = Idle
    /\ \E a \in Asks[q] : goto(q, route([Idle EXCEPT !.ask = a, !.left = QueryTimeout]))
    /\ UNCHANGED auto

(* What a lookup can say; only an A answer can hold a CN address. *)
saying(r) == {"foreign", "negative"} \cup (IF r.ask.qtype = "A" THEN {"cn"} ELSE {})

(* recursive_unbound answers or fails. *)
RecursiveReturns(q) ==
    LET r == req[q] IN
    /\ r.at = "classify" /\ r.prim = "run"
    /\ \/ \E says \in saying(r) : goto(q, classified(r, Resp("recursive", says)))
       \/ goto(q, primaryFailed(r))
    /\ UNCHANGED auto

waitsForEncrypted(r) == r.at \in {"encrypted", "secure"} \/ (inFlight(r) /\ r.stand = "run")

(* The encrypted resolver (or secure_cache in front of it) answers. *)
EncryptedAnswers(q) ==
    LET r == req[q] IN
    /\ waitsForEncrypted(r)
    /\ \E says \in saying(r) :
        LET answer == Resp("encrypted", says) IN
        goto(q, CASE r.at = "classify" -> classified(r, answer)
                  [] r.at = "encrypted" -> validated(r, answer)
                  [] OTHER -> over(r, answer))
    /\ UNCHANGED auto

(* It fails: the request fails with it unless a primary branch still runs. *)
EncryptedFails(q) ==
    LET r == [req[q] EXCEPT !.vital = TRUE] IN
    /\ waitsForEncrypted(r)
    /\ req' = [req EXCEPT ![q] = IF r.stand = "run" /\ r.prim = "run"
                                 THEN [r EXCEPT !.stand = "failed"]
                                 ELSE over(r, ServFail)]
    /\ UNCHANGED <<auto, breakerVars>>

(* The timer of the stand-by fires. *)
StandbyStarts(q) ==
    LET r == req[q] IN
    /\ r.stand = "wait" /\ r.timer = 0
    /\ req' = [req EXCEPT ![q] = startStandby(r)]
    /\ UNCHANGED <<auto, breakerVars>>

(* The circuit call is no longer running; the rest of fakeip_query and the *)
(* fallback follow if the request is still there.                          *)
circuitDone(r) == [r EXCEPT !.prim = "off", !.budget = 0, !.probe = FALSE]

(* Mihomo answers.  NXDOMAIN and NODATA close the circuit too, and are     *)
(* then dropped by fakeip_query.                                           *)
MihomoAnswers(q) ==
    LET r == req[q]
        done == circuitDone(r)
        fake == count(done, {"fakeip_answer"})
    IN
    /\ circuitRuns(r)
    /\ succeed
    /\ \/ req' = [req EXCEPT ![q] =
                    IF inFlight(r) THEN over(fake, Resp("mihomo", "foreign")) ELSE fake]
       \/ req' = [req EXCEPT ![q] = IF inFlight(r) THEN primaryFailed(done) ELSE done]
    /\ UNCHANGED auto

(* Mihomo refuses, or every attempt of the call brought nothing.  A call   *)
(* whose context has ended can only end with a refusal here.               *)
MihomoFails(q) ==
    LET r == req[q] IN
    /\ circuitRuns(r)
    /\ fail(r.probe)
    /\ req' = [req EXCEPT ![q] = IF inFlight(r) THEN primaryFailed(circuitDone(r))
                                 ELSE circuitDone(r)]
    /\ UNCHANGED auto

(* The context of a call ended with its request: Exec returns and tells    *)
(* the circuit nothing.                                                    *)
CallEndsWithContext(q) ==
    /\ req[q].at = "over" /\ circuitRuns(req[q])
    /\ req' = [req EXCEPT ![q] = circuitDone(@)]
    /\ UNCHANGED <<auto, breakerVars>>

(* External: the entry handler's deadline passes. *)
DeadlinePasses(q) ==
    /\ inFlight(req[q]) /\ req[q].left = 0
    /\ req' = [req EXCEPT ![q] = over(@, ServFail)]
    /\ UNCHANGED <<auto, breakerVars>>

(* External: the client closes its connection, which ends the context. *)
ClientLeaves(q) ==
    /\ q \in Leaving
    /\ inFlight(req[q])
    /\ req' = [req EXCEPT ![q] = over(@, Gone)]
    /\ UNCHANGED <<auto, breakerVars>>

(* The request is gone; its name is free for another. *)
Forget(q) ==
    /\ req[q].at = "over" /\ ~circuitRuns(req[q])
    /\ req' = [req EXCEPT ![q] = Idle]
    /\ UNCHANGED <<auto, breakerVars>>

(* A reaction of the request is due now.  A finished request is forgotten  *)
(* before time goes on: nothing of it is left in the program.              *)
due(r) ==
    \/ r.at = "over" /\ ~circuitRuns(r)
    \/ r.stand = "wait" /\ r.timer = 0
    \/ circuitRuns(r) /\ (r.budget = 0 \/ r.left = 0)
    \/ inFlight(r) /\ r.left = 0

Less(n) == IF n > 0 THEN n - 1 ELSE 0

Tick ==
    /\ \A q \in Query : ~due(req[q])
    /\ req' = [q \in Query |->
                [req[q] EXCEPT !.timer = Less(@), !.budget = Less(@), !.left = Less(@),
                               !.vital = @ \/ waitsForEncrypted(req[q])]]
    /\ IF wait > 0 THEN circuit!Elapse ELSE UNCHANGED breakerVars
    /\ UNCHANGED auto

Next ==
    \/ Tick
    \/ \E q \in Query :
        \/ Arrive(q)
        \/ RecursiveReturns(q)
        \/ EncryptedAnswers(q)
        \/ EncryptedFails(q)
        \/ StandbyStarts(q)
        \/ MihomoAnswers(q)
        \/ MihomoFails(q)
        \/ CallEndsWithContext(q)
        \/ DeadlinePasses(q)
        \/ ClientLeaves(q)
        \/ Forget(q)

Spec == Init /\ [][Next]_vars

-----------------------------------------------------------------------------
(* Properties.                                                             *)

(* Plaintext recursion only classifies: whatever branch of the classifier  *)
(* answers, fails or times out first, a client receives an answer of the   *)
(* recursive resolver only for an A question about an unknown name on the  *)
(* main listener, and only when it holds a CN address (classify_path).     *)
NoPlaintextAnswer ==
    \A q \in Query : req[q].reply.from = "recursive" =>
        /\ req[q].reply.says = "cn"
        /\ req[q].ask = [listener |-> "main", qtype |-> "A", name |-> "unknown"]

(* The routing policy survives every failure: a fake IP goes only to an A  *)
(* question on the main listener for a name that is not mapped to direct,  *)
(* and a real foreign address stands in for a fake IP only where Mihomo    *)
(* was asked first - with a five-second TTL if the name is unknown.        *)
RoutedByPolicy ==
    \A q \in Query :
        LET a == req[q].ask
            proxied == auto /\ a.listener = "main" /\ a.qtype = "A"
                       /\ a.name \in {"proxy", "unknown"}
        IN  /\ req[q].reply.from = "mihomo" => proxied
            /\ proxied /\ req[q].reply.from = "encrypted" /\ req[q].reply.says = "foreign" =>
                    /\ "fakeip_attempt" \in req[q].counted
                    /\ req[q].reply.short <=> a.name = "unknown"

(* Only the encrypted resolver is vital: a request is refused for good     *)
(* only when that resolver failed it or was slow, however slow or dead the *)
(* recursive resolver and Mihomo are.  The stand-by's threshold and the    *)
(* circuit's attempts, one after the other, fit the request's deadline.    *)
OnlyEncryptedIsVital ==
    \A q \in Query : req[q].reply = ServFail => req[q].vital

(* The stand-by never pre-empts a call that the circuit is still retrying: *)
(* the decision counters never show both a fake-IP answer and a fallback   *)
(* for one request, and what they show is what the client received.        *)
CountsTellReply ==
    \A q \in Query :
        LET r == req[q]
            fellBack == {"fallback_reuse_real", "fallback_secure_lookup"} \cap r.counted # {}
        IN  /\ "fakeip_answer" \in r.counted => ~fellBack
            /\ r.reply.from = "mihomo" => "fakeip_answer" \in r.counted
            /\ r.reply.short <=> "fallback_reuse_real" \in r.counted

probesInFlight == {q \in Query : circuitRuns(req[q]) /\ req[q].probe}
ProbeHeld == state = "halfopen" => probesInFlight # {}

(* A request strands the circuit half-open only if its client left, or if  *)
(* the encrypted resolver failed it (in the classifier's stand-by, say) or *)
(* took time before Mihomo was asked: whatever the recursive resolver and  *)
(* Mihomo do, the probe ends before the deadline.                          *)
ProbeLostOnlyIfSlowOrGone ==
    [][ProbeHeld /\ ~ProbeHeld' =>
        \E q \in probesInFlight : req[q].vital \/ req[q].reply = Gone]_vars
=============================================================================
