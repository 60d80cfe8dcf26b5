-------------------------- MODULE RequestPathProofs --------------------------
(***************************************************************************)
(* Theorems about RequestPath, for any set of requests and questions.      *)
(* Requests share only the circuit, so the inductive invariants are about  *)
(* each request; the lemmas follow the sequences of the templates from     *)
(* lookup to lookup.  The first three theorems hold for any thresholds,    *)
(* attempts, deadlines and delays, the others for any that keep the order  *)
(* of the shipped ones (PaceAssumption).                                   *)
(***************************************************************************)
EXTENDS RequestPath, TLAPS

-----------------------------------------------------------------------------
(* The invariant of one request; on stands for auto.                       *)

(* Question a may be answered by a fake IP. *)
Proxied(on, a) ==
    on /\ a.listener = "main" /\ a.qtype = "A" /\ a.name \in {"proxy", "unknown"}

(* What the policy says of a reply to question a, given what was counted. *)
ReplyAllowed(on, a, reply, counted) ==
    /\ reply.from = "recursive" =>
            reply.says = "cn" /\ a = [listener |-> "main", qtype |-> "A", name |-> "unknown"]
    /\ reply.from = "mihomo" => Proxied(on, a)
    /\ Proxied(on, a) /\ reply.from = "encrypted" /\ reply.says = "foreign" =>
            "fakeip_attempt" \in counted /\ (reply.short <=> a.name = "unknown")

(* Where a request can be, given its question and the response in hand. *)
Placed(on, r) ==
    /\ r.resp = NoResp \/ (r.resp.from = "encrypted" /\ ~r.resp.short)
    /\ r.at \in {"classify", "encrypted"} => r.ask.listener = "main" /\ r.ask.name = "unknown"
    /\ r.at = "secure" => ~Proxied(on, r.ask)
    /\ r.at = "fakeip" => Proxied(on, r.ask) /\ (r.resp # NoResp <=> r.ask.name = "unknown")

Good(on, r) ==
    r \in Request /\ Placed(on, r) /\ ReplyAllowed(on, r.ask, r.reply, r.counted)

(* In front of Mihomo the attempt is counted, and nobody looks a name up   *)
(* that has a validated answer in hand.                                    *)
Asked(r) ==
    r.at = "fakeip" => "fakeip_attempt" \in r.counted /\ (r.stand = "run" => r.ask.name = "proxy")

Sound(on, r) == Good(on, r) /\ Asked(r)

-----------------------------------------------------------------------------
(* Responses and fields.                                                   *)

BudgetNat == circuitBudget \in Nat /\ QueryTimeout \in Nat /\ Threshold \in Nat

LEMMA Numbers == BudgetNat
BY TimeAssumption DEF BudgetNat, circuitBudget

LEMMA RespIs ==
    ASSUME NEW from \in {"recursive", "encrypted", "mihomo", "reject"},
           NEW says \in {"cn", "foreign", "negative"}
    PROVE  /\ Resp(from, says) \in Responses
           /\ Resp(from, says).from = from
           /\ Resp(from, says).says = says
           /\ Resp(from, says).short = FALSE
BY DEF Resp, Responses

LEMMA HandlerResponses == {NoResp, ServFail, Gone} \subseteq Responses
BY DEF Responses

LEMMA CountIs ==
    ASSUME NEW r \in Request, NEW d \in SUBSET Decisions
    PROVE  /\ count(r, d) \in Request
           /\ count(r, d).at = r.at
           /\ count(r, d).ask = r.ask
           /\ count(r, d).resp = r.resp
           /\ count(r, d).stand = r.stand
           /\ count(r, d).prim = r.prim
           /\ count(r, d).reply = r.reply
           /\ count(r, d).counted = r.counted \cup d
BY DEF count, Request

LEMMA OverIs ==
    ASSUME NEW r \in Request, NEW answer \in Responses
    PROVE  /\ over(r, answer) \in Request
           /\ over(r, answer).at = "over"
           /\ over(r, answer).ask = r.ask
           /\ over(r, answer).resp = NoResp
           /\ over(r, answer).reply = answer
           /\ over(r, answer).counted = r.counted
<1>1. NoResp \in Responses /\ 0 \in 0 .. Threshold /\ 0 \in 0 .. QueryTimeout
  BY HandlerResponses, Numbers DEF BudgetNat
<1> QED
  BY <1>1 DEF over, Request

-----------------------------------------------------------------------------
(* The sequences.                                                          *)

LEMMA OverSound ==
    ASSUME NEW on, NEW r \in Request, NEW answer \in Responses,
           ReplyAllowed(on, r.ask, answer, r.counted)
    PROVE  Sound(on, over(r, answer))
BY OverIs DEF Sound, Good, Placed, Asked

LEMMA StandbySound ==
    ASSUME NEW on, NEW r, Good(on, r), r.at = "fakeip" => "fakeip_attempt" \in r.counted
    PROVE  Sound(on, startStandby(r))
<1> USE DEF Good
<1>1. CASE r.at = "classify"
  <2> DEFINE x == [r EXCEPT !.stand = "run"]
  <2>1. /\ x \in Request /\ x.at = "classify" /\ x.ask = r.ask /\ x.resp = r.resp
        /\ x.reply = r.reply /\ x.counted = r.counted
    BY <1>1 DEF Request
  <2>2. startStandby(r) = x
    BY <1>1 DEF startStandby
  <2> HIDE DEF x
  <2> QED BY <1>1, <2>1, <2>2 DEF Sound, Asked, Placed
<1>2. CASE r.at = "fakeip" /\ r.resp # NoResp
  <2> DEFINE c == count(r, {"fallback_reuse_real"})
             answer == [r.resp EXCEPT !.short = TRUE]
  <2>1. startStandby(r) = over(c, answer)
    BY <1>2 DEF startStandby
  <2>2. c \in Request /\ c.ask = r.ask /\ c.counted = r.counted \cup {"fallback_reuse_real"}
    BY CountIs DEF Decisions
  <2>3. r.resp \in Responses /\ r.resp.from = "encrypted"
    BY <1>2 DEF Placed, Request
  <2>4. r.resp \in [from : {"recursive", "encrypted", "mihomo", "reject"},
                     says : {"cn", "foreign", "negative"}, short : BOOLEAN]
    BY <2>3 DEF Responses, NoResp, ServFail, Gone, Resp
  <2>5. answer \in Responses /\ answer.from = "encrypted" /\ answer.short = TRUE
    BY <2>3, <2>4 DEF Responses
  <2>6. r.ask.name = "unknown"
    BY <1>2 DEF Placed
  <2> HIDE DEF c, answer
  <2>7. ReplyAllowed(on, c.ask, answer, c.counted)
    BY <1>2, <2>2, <2>5, <2>6 DEF ReplyAllowed
  <2> QED BY <2>1, <2>2, <2>5, <2>7, OverSound
<1>3. CASE r.at # "classify" /\ ~(r.at = "fakeip" /\ r.resp # NoResp)
  <2> DEFINE c == count(r, {"fallback_secure_lookup"})
             x == [c EXCEPT !.stand = "run"]
  <2>1. startStandby(r) = x
    BY <1>3 DEF startStandby
  <2>2. /\ c \in Request /\ c.at = r.at /\ c.ask = r.ask /\ c.resp = r.resp
        /\ c.reply = r.reply /\ c.counted = r.counted \cup {"fallback_secure_lookup"}
    BY <1>3, CountIs DEF Decisions
  <2> HIDE DEF c
  <2>3. /\ x \in Request /\ x.at = r.at /\ x.ask = r.ask /\ x.resp = r.resp
        /\ x.reply = r.reply /\ x.counted = r.counted \cup {"fallback_secure_lookup"}
    BY <2>2 DEF Request
  <2> HIDE DEF x
  <2>4. Placed(on, x) /\ Asked(x)
    BY <1>3, <2>3 DEF Placed, Asked, Proxied
  <2>5. ReplyAllowed(on, x.ask, x.reply, x.counted)
    BY <2>3 DEF ReplyAllowed
  <2> QED BY <2>1, <2>3, <2>4, <2>5 DEF Sound
<1> QED BY <1>1, <1>2, <1>3

(* SERVFAIL and the end of the connection are always allowed. *)
LEMMA HandlerAllowed ==
    ASSUME NEW on, NEW a, NEW counted, NEW answer \in {NoResp, ServFail, Gone}
    PROVE  ReplyAllowed(on, a, answer, counted)
BY DEF ReplyAllowed, NoResp, ServFail, Gone, Resp

LEMMA FailedSound ==
    ASSUME NEW on, NEW r, Sound(on, r)
    PROVE  Sound(on, primaryFailed(r))
<1> DEFINE x == [r EXCEPT !.prim = "failed"]
<1>1. r \in Request
  BY DEF Sound, Good
<1>2. /\ x \in Request /\ x.at = r.at /\ x.ask = r.ask /\ x.resp = r.resp
      /\ x.stand = r.stand /\ x.reply = r.reply /\ x.counted = r.counted
  BY <1>1 DEF Request
<1>3. /\ r.stand = "wait" => primaryFailed(r) = startStandby(x)
      /\ r.stand = "run" => primaryFailed(r) = x
      /\ r.stand \notin {"wait", "run"} => primaryFailed(r) = over(x, ServFail)
  BY DEF primaryFailed
<1> HIDE DEF x
<1>4. Sound(on, x)
  BY <1>2 DEF Sound, Good, Asked, Placed
<1>5. CASE r.stand = "wait"
  BY <1>2, <1>3, <1>4, <1>5, StandbySound DEF Sound, Asked
<1>6. CASE r.stand = "run"
  BY <1>3, <1>4, <1>6
<1>7. CASE r.stand \notin {"wait", "run"}
  BY <1>2, <1>3, <1>7, OverSound, HandlerAllowed, HandlerResponses
<1> QED BY <1>5, <1>6, <1>7

(* classify_path after its lookup. *)
LEMMA ClassifiedGood ==
    ASSUME NEW on, NEW r, Sound(on, r), r.at = "classify",
           NEW from \in {"recursive", "encrypted"}, NEW says \in {"cn", "foreign", "negative"}
    PROVE  Good(on, classified(r, Resp(from, says)))
<1> DEFINE answer == Resp(from, says)
<1>1. answer \in Responses /\ answer.from = from /\ answer.says = says
  BY RespIs
<1>2. /\ r \in Request /\ r.ask \in Question
      /\ r.ask.listener = "main" /\ r.ask.name = "unknown"
  BY DEF Sound, Good, Placed, Request
<1> HIDE DEF answer
<1>3. CASE r.ask.qtype = "A" /\ says = "cn"
  <2> DEFINE c == count(r, {"classified_domestic"})
  <2>1. classified(r, answer) = over(c, answer)
    BY <1>1, <1>3 DEF classified
  <2>2. c \in Request /\ c.ask = r.ask
    BY <1>2, CountIs DEF Decisions
  <2> HIDE DEF c
  <2>3. r.ask = [listener |-> "main", qtype |-> "A", name |-> "unknown"]
    BY <1>2, <1>3 DEF Question
  <2>4. ReplyAllowed(on, c.ask, answer, c.counted)
    BY <1>1, <1>3, <2>2, <2>3 DEF ReplyAllowed
  <2> QED BY <1>1, <2>1, <2>2, <2>4, OverSound DEF Sound, answer
<1>4. CASE ~(r.ask.qtype = "A" /\ says = "cn")
  <2> DEFINE c == count(r, {"classified_overseas"})
             x == [c EXCEPT !.at = "encrypted", !.prim = "off", !.stand = "off", !.timer = 0]
  <2>1. classified(r, answer) = x
    BY <1>1, <1>4 DEF classified
  <2>2. /\ c \in Request /\ c.ask = r.ask /\ c.resp = r.resp
        /\ c.reply = r.reply /\ c.counted = r.counted \cup {"classified_overseas"}
    BY <1>2, CountIs DEF Decisions
  <2> HIDE DEF c
  <2>3. 0 \in 0 .. Threshold
    BY Numbers DEF BudgetNat
  <2>4. /\ x \in Request /\ x.at = "encrypted" /\ x.ask = r.ask /\ x.resp = r.resp
        /\ x.reply = r.reply /\ x.counted = r.counted \cup {"classified_overseas"}
    BY <2>2, <2>3 DEF Request
  <2> HIDE DEF x
  <2>5. Placed(on, x)
    BY <1>2, <2>4 DEF Sound, Good, Placed
  <2>6. ReplyAllowed(on, x.ask, x.reply, x.counted)
    BY <2>4 DEF Sound, Good, ReplyAllowed
  <2> QED BY <2>1, <2>4, <2>5, <2>6 DEF Good, answer
<1> QED BY <1>3, <1>4

(* validated_foreign_path after the encrypted lookup. *)
LEMMA ValidatedGood ==
    ASSUME NEW r, Sound(auto, r), r.at = "encrypted",
           NEW says \in {"cn", "foreign", "negative"}
    PROVE  Good(auto, validated(r, Resp("encrypted", says)))
<1> DEFINE answer == Resp("encrypted", says)
<1>1. answer \in Responses /\ answer.from = "encrypted" /\ answer.says = says /\ ~answer.short
  BY RespIs
<1>2. r \in Request /\ r.ask.listener = "main" /\ r.ask.name = "unknown"
  BY DEF Sound, Good, Placed
<1> HIDE DEF answer
<1>3. CASE ~auto
  <2> DEFINE c == count(r, {"secure_non_cn"})
  <2>1. validated(r, answer) = over(c, answer)
    BY <1>3 DEF validated
  <2>2. c \in Request
    BY <1>2, CountIs DEF Decisions
  <2> HIDE DEF c
  <2>3. ReplyAllowed(auto, c.ask, answer, c.counted)
    BY <1>1, <1>3 DEF ReplyAllowed, Proxied
  <2> QED BY <1>1, <2>1, <2>2, <2>3, OverSound DEF Sound, answer
<1>4. CASE auto /\ r.ask.qtype = "A" /\ says # "negative"
  <2> DEFINE c == count(r, {"validated_foreign"})
             x == [c EXCEPT !.at = "fakeip", !.resp = answer]
  <2>1. validated(r, answer) = x
    BY <1>1, <1>4 DEF validated
  <2>2. /\ c \in Request /\ c.ask = r.ask
        /\ c.reply = r.reply /\ c.counted = r.counted \cup {"validated_foreign"}
    BY <1>2, CountIs DEF Decisions
  <2> HIDE DEF c
  <2>3. /\ x \in Request /\ x.at = "fakeip" /\ x.ask = r.ask /\ x.resp = answer
        /\ x.reply = r.reply /\ x.counted = r.counted \cup {"validated_foreign"}
    BY <1>1, <2>2 DEF Request
  <2> HIDE DEF x
  <2>4. answer # NoResp
    BY <1>1 DEF NoResp, Resp
  <2>5. Placed(auto, x)
    BY <1>1, <1>2, <1>4, <2>3, <2>4 DEF Placed, Proxied
  <2>6. ReplyAllowed(auto, x.ask, x.reply, x.counted)
    BY <2>3 DEF Sound, Good, ReplyAllowed
  <2> QED BY <2>1, <2>3, <2>5, <2>6 DEF Good, answer
<1>5. CASE auto /\ ~(r.ask.qtype = "A" /\ says # "negative")
  <2>1. validated(r, answer) = over(r, answer)
    BY <1>1, <1>5 DEF validated
  <2>2. ReplyAllowed(auto, r.ask, answer, r.counted)
    BY <1>1, <1>5 DEF ReplyAllowed, Proxied
  <2> QED BY <1>1, <1>2, <2>1, <2>2, OverSound DEF Sound, answer
<1> QED BY <1>3, <1>4, <1>5

-----------------------------------------------------------------------------
(* The start of a request.                                                 *)

IsNew(r) == r \in Request /\ r.resp = NoResp /\ r.reply = NoResp

LEMMA RejectGood ==
    ASSUME NEW on, NEW r, IsNew(r), NEW d \in Decisions
    PROVE  Good(on, over(count(r, {d}), Resp("reject", "negative")))
<1>1. Resp("reject", "negative") \in Responses /\ Resp("reject", "negative").from = "reject"
  BY RespIs
<1>2. count(r, {d}) \in Request
  BY CountIs DEF IsNew
<1>3. ReplyAllowed(on, count(r, {d}).ask, Resp("reject", "negative"), count(r, {d}).counted)
  BY <1>1 DEF ReplyAllowed
<1> QED BY <1>1, <1>2, <1>3, OverSound DEF Sound

LEMMA ToGood ==
    ASSUME NEW on, NEW r, IsNew(r), NEW d \in SUBSET Decisions,
           NEW stage \in {"classify", "secure", "fakeip"},
           stage = "classify" => r.ask.listener = "main" /\ r.ask.name = "unknown",
           stage = "secure" => ~Proxied(on, r.ask),
           stage = "fakeip" => Proxied(on, r.ask) /\ r.ask.name = "proxy"
    PROVE  Good(on, count([r EXCEPT !.at = stage], d))
<1> DEFINE x == [r EXCEPT !.at = stage]
<1>1. x \in Request /\ x.at = stage /\ x.ask = r.ask /\ x.resp = NoResp /\ x.reply = NoResp
  BY DEF IsNew, Request
<1> HIDE DEF x
<1>2. /\ count(x, d) \in Request /\ count(x, d).at = stage /\ count(x, d).ask = r.ask
      /\ count(x, d).resp = NoResp /\ count(x, d).reply = NoResp
  BY <1>1, CountIs
<1>3. Placed(on, count(x, d))
  BY <1>2 DEF Placed
<1>4. ReplyAllowed(on, count(x, d).ask, count(x, d).reply, count(x, d).counted)
  BY <1>2, HandlerAllowed
<1> QED BY <1>2, <1>3, <1>4 DEF Good, x

LEMMA RouteGood ==
    ASSUME NEW r, IsNew(r), r.ask \in Question
    PROVE  Good(auto, route(r))
<1> DEFINE to(stage, d) == count([r EXCEPT !.at = stage], d)
           reject(d) == over(count(r, {d}), Resp("reject", "negative"))
           a == r.ask
<1>1. CASE a.listener = "secure"
  <2>1. CASE a.qtype = "AAAA"
    <3>1. route(r) = reject("secure_listener_rejected_ipv6")
      BY <1>1, <2>1 DEF route
    <3> QED BY <3>1, RejectGood DEF Decisions
  <2>2. CASE a.qtype # "AAAA"
    <3>1. route(r) = to("secure", {"secure_listener"})
      BY <1>1, <2>2 DEF route
    <3>2. {"secure_listener"} \in SUBSET Decisions /\ ~Proxied(auto, r.ask)
      BY <1>1 DEF Decisions, Proxied
    <3>3. Good(auto, to("secure", {"secure_listener"}))
      BY <3>2, ToGood
    <3> QED BY <3>1, <3>3
  <2> QED BY <2>1, <2>2
<1>2. CASE a.listener = "main" /\ a.qtype = "AAAA"
  <2>1. route(r) = reject("rejected_ipv6")
    BY <1>2 DEF route
  <2> QED BY <2>1, RejectGood DEF Decisions
<1>3. CASE a.listener = "main" /\ a.qtype # "AAAA"
  <2>1. CASE a.name = "private"
    <3>1. route(r) = reject("rejected_private")
      BY <1>3, <2>1 DEF route, explicitPath
    <3> QED BY <3>1, RejectGood DEF Decisions
  <2>2. CASE a.name \in {"direct", "both"}
    <3>1. route(r) = to("secure", {"direct"})
      BY <1>3, <2>2 DEF route, explicitPath
    <3>2. {"direct"} \in SUBSET Decisions /\ ~Proxied(auto, r.ask)
      BY <2>2 DEF Decisions, Proxied
    <3>3. Good(auto, to("secure", {"direct"}))
      BY <3>2, ToGood
    <3> QED BY <3>1, <3>3
  <2>3. CASE a.name = "proxy"
    <3>1. CASE ~auto
      <4>1. route(r) = to("secure", {"proxy", "secure_foreign"})
        BY <1>3, <2>3, <3>1 DEF route, explicitPath
      <4>2. {"proxy", "secure_foreign"} \in SUBSET Decisions /\ ~Proxied(auto, r.ask)
        BY <3>1 DEF Decisions, Proxied
      <4>3. Good(auto, to("secure", {"proxy", "secure_foreign"}))
        BY <4>2, ToGood
      <4> QED BY <4>1, <4>3
    <3>2. CASE auto /\ a.qtype = "A"
      <4>1. route(r) = to("fakeip", {"proxy"})
        BY <1>3, <2>3, <3>2 DEF route, explicitPath
      <4>2. {"proxy"} \in SUBSET Decisions /\ Proxied(auto, r.ask) /\ r.ask.name = "proxy"
        BY <1>3, <2>3, <3>2 DEF Decisions, Proxied
      <4>3. Good(auto, to("fakeip", {"proxy"}))
        BY <4>2, ToGood
      <4> QED BY <4>1, <4>3
    <3>3. CASE auto /\ a.qtype # "A"
      <4>1. route(r) = to("secure", {"proxy"})
        BY <1>3, <2>3, <3>3 DEF route, explicitPath
      <4>2. {"proxy"} \in SUBSET Decisions /\ ~Proxied(auto, r.ask)
        BY <3>3 DEF Decisions, Proxied
      <4>3. Good(auto, to("secure", {"proxy"}))
        BY <4>2, ToGood
      <4> QED BY <4>1, <4>3
    <3> QED BY <3>1, <3>2, <3>3
  <2>4. CASE a.name = "unknown"
    <3> DEFINE c == to("classify", {"unknown"})
               x == [c EXCEPT !.prim = "run", !.stand = "wait", !.timer = Threshold]
    <3>1. route(r) = x
      BY <1>3, <2>4 DEF route, explicitPath
    <3>2. Good(auto, c)
      BY <1>3, <2>4, ToGood DEF Decisions
    <3>3. c.at = "classify"
      <4>1. [r EXCEPT !.at = "classify"] \in Request /\ [r EXCEPT !.at = "classify"].at = "classify"
        BY DEF IsNew, Request
      <4> QED BY <4>1, CountIs DEF Decisions
    <3> HIDE DEF c
    <3>4. Threshold \in 0 .. Threshold
      BY Numbers DEF BudgetNat
    <3>5. /\ x \in Request /\ x.at = c.at /\ x.ask = c.ask /\ x.resp = c.resp
          /\ x.reply = c.reply /\ x.counted = c.counted
      BY <3>2, <3>4 DEF Good, Request
    <3> HIDE DEF x
    <3> QED BY <3>1, <3>2, <3>3, <3>5 DEF Good, Placed
  <2> QED BY <2>1, <2>2, <2>3, <2>4 DEF Question
<1> QED BY <1>1, <1>2, <1>3 DEF Question

(* Wherever a request goes next, it is sound there. *)
LEMMA GotoSound ==
    ASSUME NEW q, NEW r, Good(auto, r), goto(q, r)
    PROVE  \E x : Sound(auto, x) /\ req' = [req EXCEPT ![q] = x]
<1> DEFINE c == count(r, {"fakeip_attempt"})
           asking == [c EXCEPT !.prim = "run", !.stand = "wait", !.timer = Threshold]
           calling == [asking EXCEPT !.budget = circuitBudget, !.probe = ~closed]
<1>1. CASE r.at # "fakeip"
  BY <1>1 DEF goto, Sound, Asked
<1>2. CASE r.at = "fakeip"
  <2>1. /\ c \in Request /\ c.at = "fakeip" /\ c.ask = r.ask /\ c.resp = r.resp
        /\ c.reply = r.reply /\ c.counted = r.counted \cup {"fakeip_attempt"}
    BY <1>2, CountIs DEF Good, Decisions
  <2>2. (\/ req' = [req EXCEPT ![q] = calling]
         \/ req' = [req EXCEPT ![q] = primaryFailed(asking)])
    BY <1>2 DEF goto
  <2> HIDE DEF c
  <2>3. Threshold \in 0 .. Threshold /\ circuitBudget \in 0 .. Attempts * AttemptTime
    BY Numbers DEF BudgetNat, circuitBudget
  <2>4. /\ asking \in Request /\ asking.at = "fakeip" /\ asking.ask = r.ask
        /\ asking.resp = r.resp /\ asking.reply = r.reply /\ asking.stand = "wait"
        /\ asking.counted = r.counted \cup {"fakeip_attempt"}
    BY <2>1, <2>3 DEF Request
  <2>5. Sound(auto, asking)
    <3> HIDE DEF asking
    <3>1. Placed(auto, asking) /\ Asked(asking)
      BY <1>2, <2>4 DEF Good, Placed, Asked
    <3>2. ReplyAllowed(auto, asking.ask, asking.reply, asking.counted)
      BY <2>4 DEF Good, ReplyAllowed
    <3> QED BY <2>4, <3>1, <3>2 DEF Sound, Good
  <2>6. Sound(auto, primaryFailed(asking))
    BY <2>4, <2>5, FailedSound
  <2> HIDE DEF asking
  <2>7. /\ calling \in Request /\ calling.at = "fakeip" /\ calling.ask = asking.ask
        /\ calling.resp = asking.resp /\ calling.reply = asking.reply
        /\ calling.stand = "wait" /\ calling.counted = asking.counted
    BY <2>3, <2>4 DEF Request, closed
  <2> HIDE DEF calling
  <2>8. Sound(auto, calling)
    BY <2>4, <2>5, <2>7 DEF Sound, Good, Placed, Asked
  <2> QED BY <2>2, <2>6, <2>8
<1> QED BY <1>1, <1>2

(* Timers, flags and further decisions do not matter. *)
LEMMA SameSound ==
    ASSUME NEW on, NEW r, Sound(on, r), NEW x \in Request,
           x.at = r.at, x.ask = r.ask, x.resp = r.resp, x.reply = r.reply,
           x.stand = "run" => r.stand = "run", r.counted \subseteq x.counted
    PROVE  Sound(on, x)
<1>1. Placed(on, x) /\ Asked(x)
  BY DEF Sound, Good, Placed, Asked
<1>2. ReplyAllowed(on, x.ask, x.reply, x.counted)
  BY DEF Sound, Good, ReplyAllowed
<1> QED BY <1>1, <1>2 DEF Sound, Good

LEMMA IdleSound == \A on : Sound(on, Idle)
<1>1. /\ Idle \in Request /\ Idle.at = "idle" /\ Idle.resp = NoResp /\ Idle.reply = NoResp
  <2>1. NoResp \in Responses
    BY HandlerResponses
  <2>2. Idle.ask \in Question
    BY DEF Idle, Question
  <2>3. 0 \in 0 .. Threshold /\ 0 \in 0 .. QueryTimeout /\ 0 \in 0 .. Attempts * AttemptTime
    BY Numbers DEF BudgetNat, circuitBudget
  <2> QED BY <2>1, <2>2, <2>3 DEF Idle, Request
<1>2. \A on : Placed(on, Idle) /\ Asked(Idle)
  BY <1>1 DEF Placed, Asked
<1>3. \A on : ReplyAllowed(on, Idle.ask, Idle.reply, Idle.counted)
  BY <1>1, HandlerAllowed
<1> QED BY <1>1, <1>2, <1>3 DEF Sound, Good

LEMMA ArrivesNew ==
    ASSUME NEW a \in Question
    PROVE  LET r == [Idle EXCEPT !.ask = a, !.left = QueryTimeout]
           IN  IsNew(r) /\ r.ask \in Question
<1> DEFINE r == [Idle EXCEPT !.ask = a, !.left = QueryTimeout]
<1>1. Idle \in Request /\ Idle.resp = NoResp /\ Idle.reply = NoResp
  BY IdleSound DEF Sound, Good, Idle
<1>2. QueryTimeout \in 0 .. QueryTimeout
  BY Numbers DEF BudgetNat
<1> QED BY <1>1, <1>2 DEF IsNew, Request

-----------------------------------------------------------------------------
(* The inductive invariant and its steps.                                  *)

BreakerTyped ==
    state \in {"closed", "open", "halfopen"} /\ level \in 0 .. LevelCap /\ wait \in Nat

RequestsSound == req \in [Query -> Request] /\ \A q \in Query : Sound(auto, req[q])

IInv == auto \in BOOLEAN /\ BreakerTyped /\ RequestsSound

LEMMA InitIInv == Init => IInv
<1> SUFFICES ASSUME Init PROVE IInv
  OBVIOUS
<1>1. BreakerTyped
  BY TimeAssumption DEF Init, circuit!Init, BreakerTyped
<1>2. RequestsSound
  BY IdleSound DEF Init, RequestsSound, Sound, Good
<1> QED BY <1>1, <1>2 DEF Init, IInv

(* The circuit only takes the breaker's steps. *)
LEMMA OnlyBreakerSteps == Next => [circuit!Next]_breakerVars
<1> USE DEF breakerVars, circuit!Next
<1>1. ASSUME NEW q, NEW r, goto(q, r) PROVE [circuit!Next]_breakerVars
  BY <1>1 DEF goto, grant
<1>2. succeed => [circuit!Next]_breakerVars
  BY DEF succeed
<1>3. ASSUME NEW p, fail(p) PROVE [circuit!Next]_breakerVars
  BY <1>3 DEF fail
<1> QED
  BY <1>1, <1>2, <1>3
     DEF Next, Tick, Arrive, RecursiveReturns, EncryptedAnswers, EncryptedFails, StandbyStarts,
         MihomoAnswers, MihomoFails, CallEndsWithContext, DeadlinePasses, ClientLeaves, Forget

LEMMA BreakerStaysTyped == BreakerTyped /\ [circuit!Next]_breakerVars => BreakerTyped'
<1> SUFFICES ASSUME BreakerTyped, [circuit!Next]_breakerVars PROVE BreakerTyped'
  OBVIOUS
<1> USE TimeAssumption DEF BreakerTyped
<1>1. CASE circuit!Trip
  BY <1>1 DEF circuit!Trip
<1>2. CASE circuit!Probe
  BY <1>2 DEF circuit!Probe
<1>3. CASE circuit!Reopen
  <2>1. level' \in 1 .. LevelCap
    BY <1>3 DEF circuit!Reopen
  <2> QED BY <1>3, <2>1 DEF circuit!Reopen
<1>4. CASE circuit!Reset
  BY <1>4 DEF circuit!Reset
<1>5. CASE circuit!Elapse
  BY <1>5 DEF circuit!Elapse
<1>6. CASE UNCHANGED breakerVars
  BY <1>6 DEF breakerVars
<1> QED BY <1>1, <1>2, <1>3, <1>4, <1>5, <1>6 DEF circuit!Next

(* A step of request q that leaves it sound leaves all of them sound. *)
LEMMA OneRequest ==
    ASSUME RequestsSound, NEW q \in Query, auto' = auto,
           \E x : Sound(auto, x) /\ req' = [req EXCEPT ![q] = x]
    PROVE  RequestsSound'
BY DEF RequestsSound, Sound, Good

LEMMA LookupsKeepSound ==
    ASSUME IInv, NEW q \in Query,
           Arrive(q) \/ RecursiveReturns(q) \/ EncryptedAnswers(q) \/ EncryptedFails(q)
    PROVE  RequestsSound'
<1> DEFINE r == req[q]
<1>1. RequestsSound /\ Sound(auto, r) /\ Good(auto, r) /\ r \in Request
  BY DEF IInv, RequestsSound, Sound, Good
<1>2. saying(r) \subseteq {"cn", "foreign", "negative"}
  BY DEF saying
<1>3. CASE Arrive(q)
  <2>1. PICK a \in Asks[q] : goto(q, route([Idle EXCEPT !.ask = a, !.left = QueryTimeout]))
    BY <1>3 DEF Arrive
  <2>2. a \in Question
    BY <2>1, AskAssumption
  <2>3. Good(auto, route([Idle EXCEPT !.ask = a, !.left = QueryTimeout]))
    BY <2>2, ArrivesNew, RouteGood
  <2>4. auto' = auto
    BY <1>3 DEF Arrive
  <2> QED BY <1>1, <2>1, <2>3, <2>4, GotoSound, OneRequest
<1>4. CASE RecursiveReturns(q)
  <2>1. r.at = "classify" /\ auto' = auto
    BY <1>4 DEF RecursiveReturns
  <2>2. ASSUME NEW says \in saying(r), goto(q, classified(r, Resp("recursive", says)))
        PROVE  RequestsSound'
    <3>1. Good(auto, classified(r, Resp("recursive", says)))
      BY <1>1, <1>2, <2>1, <2>2, ClassifiedGood
    <3> QED BY <1>1, <2>1, <2>2, <3>1, GotoSound, OneRequest
  <2>3. ASSUME goto(q, primaryFailed(r)) PROVE RequestsSound'
    <3>1. Good(auto, primaryFailed(r))
      BY <1>1, FailedSound DEF Sound
    <3> QED BY <1>1, <2>1, <2>3, <3>1, GotoSound, OneRequest
  <2> QED BY <1>4, <2>2, <2>3 DEF RecursiveReturns
<1>5. CASE EncryptedAnswers(q)
  <2>1. PICK says \in saying(r) :
            goto(q, CASE r.at = "classify" -> classified(r, Resp("encrypted", says))
                      [] r.at = "encrypted" -> validated(r, Resp("encrypted", says))
                      [] OTHER -> over(r, Resp("encrypted", says)))
    BY <1>5 DEF EncryptedAnswers
  <2>2. auto' = auto /\ waitsForEncrypted(r)
    BY <1>5 DEF EncryptedAnswers
  <2>3. CASE r.at = "classify"
    <3>1. goto(q, classified(r, Resp("encrypted", says)))
      BY <2>1, <2>3
    <3>2. Good(auto, classified(r, Resp("encrypted", says)))
      BY <1>1, <1>2, <2>3, ClassifiedGood
    <3> QED BY <1>1, <2>2, <3>1, <3>2, GotoSound, OneRequest
  <2>4. CASE r.at = "encrypted"
    <3>1. goto(q, validated(r, Resp("encrypted", says)))
      BY <2>1, <2>4
    <3>2. Good(auto, validated(r, Resp("encrypted", says)))
      BY <1>1, <1>2, <2>4, ValidatedGood
    <3> QED BY <1>1, <2>2, <3>1, <3>2, GotoSound, OneRequest
  <2>5. CASE r.at \notin {"classify", "encrypted"}
    <3> DEFINE answer == Resp("encrypted", says)
    <3>1. goto(q, over(r, answer))
      BY <2>1, <2>5
    <3>2. answer \in Responses /\ answer.from = "encrypted" /\ answer.short = FALSE
      BY <1>2, RespIs
    <3>3. \/ ~Proxied(auto, r.ask)
          \/ "fakeip_attempt" \in r.counted /\ r.ask.name = "proxy"
      BY <1>1, <2>2, <2>5 DEF waitsForEncrypted, inFlight, Sound, Good, Placed, Asked, Request
    <3> HIDE DEF answer
    <3>4. ReplyAllowed(auto, r.ask, answer, r.counted)
      BY <3>2, <3>3 DEF ReplyAllowed
    <3>5. Good(auto, over(r, answer))
      BY <1>1, <3>2, <3>4, OverSound DEF Sound
    <3> QED BY <1>1, <2>2, <3>1, <3>5, GotoSound, OneRequest
  <2> QED BY <2>3, <2>4, <2>5
<1>6. CASE EncryptedFails(q)
  <2> DEFINE x == [r EXCEPT !.vital = TRUE]
             y == [x EXCEPT !.stand = "failed"]
  <2>1. /\ req' = [req EXCEPT ![q] = IF x.stand = "run" /\ x.prim = "run" THEN y
                                     ELSE over(x, ServFail)]
        /\ auto' = auto
    BY <1>6 DEF EncryptedFails
  <2>2. /\ x \in Request /\ x.at = r.at /\ x.ask = r.ask /\ x.resp = r.resp
        /\ x.reply = r.reply /\ x.stand = r.stand /\ x.counted = r.counted
    BY <1>1 DEF Request
  <2>3. /\ y \in Request /\ y.at = r.at /\ y.ask = r.ask /\ y.resp = r.resp
        /\ y.reply = r.reply /\ y.stand = "failed" /\ y.counted = r.counted
    BY <1>1 DEF Request
  <2> HIDE DEF x, y
  <2>4. Sound(auto, y)
    BY <1>1, <2>3, SameSound
  <2>5. Sound(auto, over(x, ServFail))
    BY <2>2, OverSound, HandlerAllowed, HandlerResponses
  <2> QED BY <1>1, <2>1, <2>4, <2>5, OneRequest
<1> QED BY <1>3, <1>4, <1>5, <1>6

LEMMA CircuitKeepsSound ==
    ASSUME IInv, NEW q \in Query,
           MihomoAnswers(q) \/ MihomoFails(q) \/ CallEndsWithContext(q)
    PROVE  RequestsSound'
<1> DEFINE r == req[q]
           done == circuitDone(r)
           fake == count(done, {"fakeip_answer"})
<1>1. RequestsSound /\ Sound(auto, r) /\ r \in Request
  BY DEF IInv, RequestsSound, Sound, Good
<1>2. /\ done \in Request /\ done.at = r.at /\ done.ask = r.ask /\ done.resp = r.resp
      /\ done.reply = r.reply /\ done.stand = r.stand /\ done.counted = r.counted
  <2>1. 0 \in 0 .. Attempts * AttemptTime
    BY Numbers DEF BudgetNat, circuitBudget
  <2> QED BY <1>1, <2>1 DEF circuitDone, Request
<1> HIDE DEF done
<1>3. /\ fake \in Request /\ fake.at = r.at /\ fake.ask = r.ask /\ fake.resp = r.resp
      /\ fake.reply = r.reply /\ fake.stand = r.stand /\ r.counted \subseteq fake.counted
  BY <1>2, CountIs DEF Decisions
<1> HIDE DEF fake
<1>4. Sound(auto, done) /\ Sound(auto, fake) /\ Sound(auto, primaryFailed(done))
  BY <1>1, <1>2, <1>3, SameSound, FailedSound
<1>5. CASE MihomoAnswers(q)
  <2>1. /\ auto' = auto /\ circuitRuns(r)
        /\ \/ req' = [req EXCEPT ![q] =
                        IF inFlight(r) THEN over(fake, Resp("mihomo", "foreign")) ELSE fake]
           \/ req' = [req EXCEPT ![q] = IF inFlight(r) THEN primaryFailed(done) ELSE done]
    BY <1>5 DEF MihomoAnswers, done, fake
  <2>2. ASSUME inFlight(r) PROVE Sound(auto, over(fake, Resp("mihomo", "foreign")))
    <3>1. /\ Resp("mihomo", "foreign") \in Responses
          /\ Resp("mihomo", "foreign").from = "mihomo"
      BY RespIs
    <3>2. Proxied(auto, fake.ask)
      BY <1>3, <2>1, <2>2, <1>1 DEF inFlight, circuitRuns, Sound, Good, Placed
    <3>3. ReplyAllowed(auto, fake.ask, Resp("mihomo", "foreign"), fake.counted)
      BY <3>1, <3>2 DEF ReplyAllowed
    <3> QED BY <1>3, <3>1, <3>3, OverSound
  <2> QED BY <1>1, <1>4, <2>1, <2>2, OneRequest
<1>6. CASE MihomoFails(q)
  <2>1. /\ auto' = auto
        /\ req' = [req EXCEPT ![q] = IF inFlight(r) THEN primaryFailed(done) ELSE done]
    BY <1>6 DEF MihomoFails, done
  <2> QED BY <1>1, <1>4, <2>1, OneRequest
<1>7. CASE CallEndsWithContext(q)
  <2>1. auto' = auto /\ req' = [req EXCEPT ![q] = done]
    BY <1>7 DEF CallEndsWithContext, done
  <2> QED BY <1>1, <1>4, <2>1, OneRequest
<1> QED BY <1>5, <1>6, <1>7

LEMMA TimersKeepSound ==
    ASSUME IInv, NEW q \in Query,
           StandbyStarts(q) \/ DeadlinePasses(q) \/ ClientLeaves(q) \/ Forget(q)
    PROVE  RequestsSound'
<1>1. RequestsSound /\ Sound(auto, req[q]) /\ req[q] \in Request
  BY DEF IInv, RequestsSound, Sound, Good
<1>2. /\ auto' = auto
      /\ \/ req' = [req EXCEPT ![q] = startStandby(req[q])]
         \/ req' = [req EXCEPT ![q] = over(req[q], ServFail)]
         \/ req' = [req EXCEPT ![q] = over(req[q], Gone)]
         \/ req' = [req EXCEPT ![q] = Idle]
  BY DEF StandbyStarts, DeadlinePasses, ClientLeaves, Forget
<1>3. Sound(auto, startStandby(req[q]))
  BY <1>1, StandbySound DEF Sound, Asked
<1>4. Sound(auto, over(req[q], ServFail)) /\ Sound(auto, over(req[q], Gone))
  BY <1>1, OverSound, HandlerAllowed, HandlerResponses
<1> QED BY <1>1, <1>2, <1>3, <1>4, IdleSound, OneRequest

LEMMA TickKeepsSound ==
    ASSUME IInv, Tick
    PROVE  RequestsSound'
<1> DEFINE after(q) == [req[q] EXCEPT !.timer = Less(@), !.budget = Less(@), !.left = Less(@),
                                      !.vital = @ \/ waitsForEncrypted(req[q])]
<1>1. req' = [q \in Query |-> after(q)] /\ auto' = auto
  BY DEF Tick
<1>2. ASSUME NEW q \in Query PROVE Sound(auto, after(q)) /\ after(q) \in Request
  <2> DEFINE r == req[q]
  <2>1. Sound(auto, r) /\ r \in Request
    BY DEF IInv, RequestsSound
  <2>2. /\ Less(r.timer) \in 0 .. Threshold
        /\ Less(r.budget) \in 0 .. Attempts * AttemptTime
        /\ Less(r.left) \in 0 .. QueryTimeout
    BY <2>1, Numbers DEF Request, Less, BudgetNat, circuitBudget
  <2>3. (r.vital \/ waitsForEncrypted(r)) \in BOOLEAN
    BY <2>1 DEF Request, waitsForEncrypted, inFlight
  <2>4. /\ after(q) \in Request /\ after(q).at = r.at /\ after(q).ask = r.ask
        /\ after(q).resp = r.resp /\ after(q).reply = r.reply
        /\ after(q).stand = r.stand /\ after(q).counted = r.counted
    BY <2>1, <2>2, <2>3 DEF Request
  <2> HIDE DEF after
  <2> QED BY <2>1, <2>4, SameSound
<1> HIDE DEF after
<1> QED BY <1>1, <1>2 DEF RequestsSound

LEMMA StepIInv == IInv /\ [Next]_vars => IInv'
<1> SUFFICES ASSUME IInv, [Next]_vars PROVE IInv'
  OBVIOUS
<1>1. CASE Next
  <2>1. auto' = auto
    BY <1>1 DEF Next, Tick, Arrive, RecursiveReturns, EncryptedAnswers, EncryptedFails,
                StandbyStarts, MihomoAnswers, MihomoFails, CallEndsWithContext, DeadlinePasses,
                ClientLeaves, Forget
  <2>2. BreakerTyped'
    BY <1>1, OnlyBreakerSteps, BreakerStaysTyped DEF IInv
  <2>3. RequestsSound'
    BY <1>1, LookupsKeepSound, CircuitKeepsSound, TimersKeepSound, TickKeepsSound DEF Next
  <2> QED BY <2>1, <2>2, <2>3 DEF IInv
<1>2. CASE UNCHANGED vars
  BY <1>2 DEF vars, breakerVars, IInv, BreakerTyped, RequestsSound
<1> QED BY <1>1, <1>2

LEMMA Invariance == Spec => []IInv
BY InitIInv, StepIInv, PTL DEF Spec

LEMMA IInvImplies == IInv => TypeOK /\ NoPlaintextAnswer /\ RoutedByPolicy
<1> SUFFICES ASSUME IInv PROVE TypeOK /\ NoPlaintextAnswer /\ RoutedByPolicy
  OBVIOUS
<1>1. TypeOK
  BY DEF IInv, BreakerTyped, RequestsSound, TypeOK
<1>2. \A q \in Query : ReplyAllowed(auto, req[q].ask, req[q].reply, req[q].counted)
  BY DEF IInv, RequestsSound, Sound, Good
<1>3. NoPlaintextAnswer
  BY <1>2 DEF NoPlaintextAnswer, ReplyAllowed
<1>4. RoutedByPolicy
  BY <1>2 DEF RoutedByPolicy, ReplyAllowed, Proxied
<1> QED BY <1>1, <1>3, <1>4

-----------------------------------------------------------------------------
(* Requests and circuit keep their types, whatever resolvers and clients   *)
(* do on the way through the sequences of config/mosdns.yaml.tmpl.         *)
THEOREM TypeCorrect == Spec => []TypeOK
BY Invariance, IInvImplies, PTL

(* classify_path never hands out what the recursive resolver said, except  *)
(* a CN address of an unknown name, however its branches end.              *)
THEOREM PlaintextOnlyClassifies == Spec => []NoPlaintextAnswer
BY Invariance, IInvImplies, PTL

(* foreign_path keeps the routing policy through every failure of Mihomo   *)
(* and of the circuit: fake IPs only where the policy wants them, and real *)
(* addresses in their place only after Mihomo was asked.                   *)
THEOREM PolicyAlwaysRoutes == Spec => []RoutedByPolicy
BY Invariance, IInvImplies, PTL

(***************************************************************************)
(* Time and counters.  The second invariant of a request follows its       *)
(* timers, so it needs the configured times (PaceAssumption).              *)
(***************************************************************************)

(* Which branches of a fallback run at which stage; the call of the        *)
(* circuit outlives a request only if the handler gave the request up.     *)
Branches(r) ==
    /\ r.at \in {"idle", "encrypted", "secure"} => r.prim = "off" /\ r.stand = "off"
    /\ r.at = "classify" =>
            \/ r.prim = "run" /\ r.stand \in {"wait", "run", "failed"}
            \/ r.prim = "failed" /\ r.stand = "run"
    /\ r.at = "fakeip" =>
            \/ r.prim = "run" /\ r.stand = "wait"
            \/ r.prim = "failed" /\ r.stand = "run"
    /\ r.at = "over" =>
            r.stand = "off" /\ (r.prim # "off" => r.prim = "run" /\ r.reply \in {ServFail, Gone})

(* The call of the circuit is over before the stand-by's timer fires. *)
Lasting(r) ==
    r.at = "fakeip" /\ r.prim = "run" =>
        r.timer = r.budget + (Threshold - circuitBudget)

(* Time left to a request for which the encrypted resolver was not slow. *)
Room(r) ==
    /\ r.at = "secure" => r.left > 0
    /\ r.at = "classify" /\ r.stand = "wait" => r.left >= r.timer + (QueryTimeout - Threshold)
    /\ r.at = "classify" /\ r.stand # "wait" => r.left >= QueryTimeout - Threshold
    /\ r.at = "encrypted" => r.left >= QueryTimeout - Threshold
    /\ r.at = "fakeip" /\ r.prim = "run" => r.left >= r.timer + (QueryTimeout - 2 * Threshold)
    /\ r.at = "fakeip" /\ r.prim # "run" =>
            r.left >= QueryTimeout - Threshold - circuitBudget

Vital(r) ==
    /\ ~r.vital => Room(r)
    /\ r.stand = "failed" \/ r.reply = ServFail => r.vital

(* The decisions that tell how a request to Mihomo ended. *)
Untold(counted) ==
    {"fakeip_answer", "fallback_reuse_real", "fallback_secure_lookup"} \cap counted = {}

(* What CountsTellReply says of one request. *)
CountsAgree(reply, counted) ==
    /\ "fakeip_answer" \in counted =>
            "fallback_reuse_real" \notin counted /\ "fallback_secure_lookup" \notin counted
    /\ reply.from = "mihomo" => "fakeip_answer" \in counted
    /\ reply.short <=> "fallback_reuse_real" \in counted

Told(r) ==
    /\ r.at # "over" => /\ r.reply = NoResp
                        /\ "fakeip_answer" \notin r.counted
                        /\ "fallback_reuse_real" \notin r.counted
    /\ r.at \notin {"fakeip", "over"} \/ r.prim = "run" => Untold(r.counted)
    /\ CountsAgree(r.reply, r.counted)

Paced(r) == r \in Request /\ Branches(r) /\ Lasting(r) /\ Vital(r) /\ Told(r)

-----------------------------------------------------------------------------
(* Fields.                                                                 *)

Paces ==
    /\ circuitBudget \in Nat /\ Threshold \in Nat /\ QueryTimeout \in Nat
    /\ circuitBudget < Threshold /\ Threshold + circuitBudget < QueryTimeout

LEMMA PaceNumbers == Paces
BY TimeAssumption, PaceAssumption DEF Paces, circuitBudget

LEMMA TimesTyped ==
    ASSUME NEW r \in Request
    PROVE  r.timer \in Nat /\ r.budget \in Nat /\ r.left \in Nat
BY Numbers DEF Request, BudgetNat, circuitBudget

LEMMA CountKeeps ==
    ASSUME NEW r \in Request, NEW d \in SUBSET Decisions
    PROVE  /\ count(r, d).timer = r.timer
           /\ count(r, d).budget = r.budget
           /\ count(r, d).probe = r.probe
           /\ count(r, d).left = r.left
           /\ count(r, d).vital = r.vital
BY DEF count, Request

LEMMA OverKeeps ==
    ASSUME NEW r \in Request, NEW answer \in Responses
    PROVE  /\ over(r, answer).stand = "off"
           /\ over(r, answer).probe = r.probe
           /\ over(r, answer).vital = r.vital
           /\ over(r, answer).prim = IF r.at = "fakeip" /\ r.prim = "run" THEN "run" ELSE "off"
BY DEF over, Request

-----------------------------------------------------------------------------
(* The sequences.                                                          *)

LEMMA OverPaced ==
    ASSUME NEW r \in Request, NEW answer \in Responses,
           CountsAgree(answer, r.counted),
           answer = ServFail => r.vital,
           r.at = "fakeip" /\ r.prim = "run" => answer \in {ServFail, Gone} /\ Untold(r.counted)
    PROVE  Paced(over(r, answer))
<1> DEFINE x == over(r, answer)
<1>1. /\ x \in Request /\ x.at = "over" /\ x.reply = answer /\ x.counted = r.counted
      /\ x.stand = "off" /\ x.vital = r.vital
      /\ x.prim = IF r.at = "fakeip" /\ r.prim = "run" THEN "run" ELSE "off"
  BY OverIs, OverKeeps
<1> HIDE DEF x
<1>2. Branches(x)
  BY <1>1 DEF Branches
<1>3. Lasting(x) /\ Vital(x)
  BY <1>1 DEF Lasting, Vital, Room
<1>4. Told(x)
  BY <1>1 DEF Told
<1> QED BY <1>1, <1>2, <1>3, <1>4 DEF Paced, x

(* A request whose primary branch just ended, or never began. *)
Ending(r) ==
    /\ r \in Request /\ Placed(auto, r)
    /\ r.at \in {"classify", "fakeip"} /\ r.reply = NoResp /\ Untold(r.counted)
    /\ r.at = "fakeip" => r.stand = "wait"
    /\ r.stand # "off" /\ (r.stand = "failed" => r.vital)
    /\ ~r.vital => r.left >= QueryTimeout - Threshold - (IF r.at = "fakeip" THEN circuitBudget ELSE 0)

LEMMA NothingTold ==
    ASSUME NEW counted, Untold(counted), NEW answer \in Responses,
           answer.from # "mihomo", answer.short = FALSE
    PROVE  CountsAgree(answer, counted)
BY DEF Untold, CountsAgree

LEMMA HandlerSays ==
    ASSUME NEW answer \in {NoResp, ServFail, Gone}
    PROVE  answer \in Responses /\ answer.from # "mihomo" /\ answer.short = FALSE
<1>1. answer \in Responses
  BY HandlerResponses
<1>2. answer.from # "mihomo" /\ answer.short = FALSE
  BY DEF NoResp, ServFail, Gone, Resp
<1> QED BY <1>1, <1>2

LEMMA ServFailIsNoOther == ServFail # NoResp /\ Gone # NoResp /\ Gone # ServFail
BY DEF NoResp, ServFail, Gone, Resp

LEMMA FailedPaced ==
    ASSUME NEW r, Ending(r)
    PROVE  Paced(primaryFailed(r))
<1> DEFINE f == [r EXCEPT !.prim = "failed"]
<1> USE PaceNumbers DEF Paces
<1>1. /\ f \in Request /\ f.at = r.at /\ f.resp = r.resp /\ f.stand = r.stand
      /\ f.reply = r.reply /\ f.counted = r.counted /\ f.vital = r.vital /\ f.left = r.left
      /\ f.prim = "failed" /\ f.timer = r.timer
  BY DEF Ending, Request
<1>2. /\ r.stand = "wait" => primaryFailed(r) = startStandby(f)
      /\ r.stand = "run" => primaryFailed(r) = f
      /\ r.stand \notin {"wait", "run"} => primaryFailed(r) = over(f, ServFail)
  BY DEF primaryFailed
<1> HIDE DEF f
<1>3. f.left \in Nat /\ CountsAgree(NoResp, f.counted) /\ CountsAgree(ServFail, f.counted)
  BY <1>1, TimesTyped, NothingTold, HandlerSays DEF Ending
<1>4. ASSUME r.at = "classify", NEW x \in Request, x.at = r.at, x.prim = "failed", x.stand = "run",
             x.reply = r.reply, x.counted = r.counted, x.vital = r.vital, x.left = r.left
      PROVE  Paced(x)
  <2>1. Branches(x) /\ Lasting(x)
    BY <1>4 DEF Branches, Lasting
  <2>2. Vital(x)
    BY <1>4, ServFailIsNoOther DEF Ending, Vital, Room
  <2>3. Told(x)
    BY <1>1, <1>3, <1>4 DEF Ending, Told, Untold
  <2> QED BY <2>1, <2>2, <2>3, <1>4 DEF Paced
<1>5. CASE r.stand = "wait" /\ r.at = "classify"
  <2> DEFINE x == [f EXCEPT !.stand = "run"]
  <2>1. primaryFailed(r) = x
    BY <1>1, <1>2, <1>5 DEF startStandby
  <2>2. /\ x \in Request /\ x.at = r.at /\ x.prim = "failed" /\ x.stand = "run"
        /\ x.reply = r.reply /\ x.counted = r.counted /\ x.vital = r.vital /\ x.left = r.left
    BY <1>1 DEF Request
  <2> HIDE DEF x
  <2> QED BY <1>4, <1>5, <2>1, <2>2
<1>6. CASE r.at = "fakeip" /\ r.resp # NoResp
  <2> DEFINE c == count(f, {"fallback_reuse_real"})
             answer == [r.resp EXCEPT !.short = TRUE]
  <2>1. primaryFailed(r) = over(c, answer)
    BY <1>1, <1>2, <1>6 DEF startStandby, Ending
  <2>2. /\ c \in Request /\ c.counted = r.counted \cup {"fallback_reuse_real"}
        /\ c.prim = "failed"
    BY <1>1, CountIs DEF Decisions
  <2>3. r.resp \in Responses /\ r.resp.from = "encrypted"
    BY <1>6 DEF Ending, Placed, Request
  <2>4. r.resp \in [from : {"recursive", "encrypted", "mihomo", "reject"},
                     says : {"cn", "foreign", "negative"}, short : BOOLEAN]
    BY <2>3 DEF Responses, NoResp, ServFail, Gone, Resp
  <2>5. answer \in Responses /\ answer.from = "encrypted" /\ answer.short = TRUE
    BY <2>3, <2>4 DEF Responses
  <2> HIDE DEF c, answer
  <2>6. CountsAgree(answer, c.counted)
    BY <2>2, <2>5 DEF CountsAgree, Untold, Ending
  <2>7. answer # ServFail
    BY <2>5, HandlerSays
  <2> QED BY <2>1, <2>2, <2>5, <2>6, <2>7, OverPaced
<1>7. CASE r.at = "fakeip" /\ r.resp = NoResp
  <2> DEFINE c == count(f, {"fallback_secure_lookup"})
             x == [c EXCEPT !.stand = "run"]
  <2>1. primaryFailed(r) = x
    BY <1>1, <1>2, <1>7 DEF startStandby, Ending
  <2>2. /\ c \in Request /\ c.at = "fakeip" /\ c.prim = "failed" /\ c.reply = r.reply
        /\ c.counted = r.counted \cup {"fallback_secure_lookup"}
        /\ c.vital = r.vital /\ c.left = r.left
    BY <1>1, <1>7, CountIs, CountKeeps DEF Decisions
  <2> HIDE DEF c
  <2>3. /\ x \in Request /\ x.at = "fakeip" /\ x.prim = "failed" /\ x.stand = "run"
        /\ x.reply = r.reply /\ x.counted = r.counted \cup {"fallback_secure_lookup"}
        /\ x.vital = r.vital /\ x.left = r.left
    BY <2>2 DEF Request
  <2> HIDE DEF x
  <2>4. Branches(x) /\ Lasting(x)
    BY <2>3 DEF Branches, Lasting
  <2>5. Vital(x)
    BY <1>7, <2>3, ServFailIsNoOther DEF Ending, Vital, Room
  <2>6. CountsAgree(NoResp, x.counted)
    BY <2>3, HandlerSays DEF Ending, CountsAgree, Untold
  <2>7. Told(x)
    BY <2>3, <2>6 DEF Ending, Told, Untold
  <2> QED BY <2>1, <2>3, <2>4, <2>5, <2>7 DEF Paced
<1>8. CASE r.at = "classify" /\ r.stand = "run"
  BY <1>1, <1>2, <1>4, <1>8
<1>9. CASE r.at = "classify" /\ r.stand = "failed"
  <2>1. primaryFailed(r) = over(f, ServFail) /\ f.vital
    BY <1>1, <1>2, <1>9 DEF Ending
  <2> QED BY <1>1, <1>3, <1>9, <2>1, HandlerSays, OverPaced
<1> QED BY <1>5, <1>6, <1>7, <1>8, <1>9 DEF Ending, Request

(* A request that goto may send on: in front of Mihomo nothing runs yet. *)
Ready(r) ==
    /\ r \in Request
    /\ r.at # "fakeip" => Paced(r)
    /\ r.at = "fakeip" => /\ r.reply = NoResp /\ Untold(r.counted)
                          /\ ~r.vital => r.left >= QueryTimeout - Threshold

LEMMA OverReady ==
    ASSUME NEW r \in Request, NEW answer \in Responses, Paced(over(r, answer))
    PROVE  Ready(over(r, answer))
BY OverIs DEF Ready

(* classify_path after its lookup. *)
LEMMA ClassifiedReady ==
    ASSUME NEW r, Paced(r), r.at = "classify",
           NEW from \in {"recursive", "encrypted"}, NEW says \in {"cn", "foreign", "negative"}
    PROVE  Ready(classified(r, Resp(from, says)))
<1> DEFINE answer == Resp(from, says)
<1> USE PaceNumbers DEF Paces
<1>1. /\ answer \in Responses /\ answer.from = from /\ answer.says = says
      /\ answer.short = FALSE
  BY RespIs
<1>2. /\ r \in Request /\ Untold(r.counted) /\ r.reply = NoResp
      /\ r.timer \in Nat /\ r.left \in Nat /\ ServFail # NoResp
  BY TimesTyped, ServFailIsNoOther DEF Paced, Told
<1> HIDE DEF answer
<1>3. CASE r.ask.qtype = "A" /\ says = "cn"
  <2> DEFINE c == count(r, {"classified_domestic"})
  <2>1. classified(r, answer) = over(c, answer)
    BY <1>1, <1>3 DEF classified
  <2>2. c \in Request /\ c.at = "classify" /\ c.counted = r.counted \cup {"classified_domestic"}
    BY <1>2, CountIs DEF Decisions
  <2> HIDE DEF c
  <2>3. Untold(c.counted)
    BY <1>2, <2>2 DEF Untold
  <2>4. CountsAgree(answer, c.counted)
    BY <1>1, <2>3, NothingTold
  <2>5. answer # ServFail
    BY <1>1, <1>3 DEF ServFail, Resp
  <2>6. Paced(over(c, answer))
    BY <1>1, <2>2, <2>4, <2>5, OverPaced
  <2> QED BY <1>1, <2>1, <2>2, <2>6, OverReady DEF answer
<1>4. CASE ~(r.ask.qtype = "A" /\ says = "cn")
  <2> DEFINE c == count(r, {"classified_overseas"})
             x == [c EXCEPT !.at = "encrypted", !.prim = "off", !.stand = "off", !.timer = 0]
  <2>1. classified(r, answer) = x
    BY <1>1, <1>4 DEF classified
  <2>2. /\ c \in Request /\ c.reply = r.reply /\ c.left = r.left /\ c.vital = r.vital
        /\ c.counted = r.counted \cup {"classified_overseas"}
    BY <1>2, CountIs, CountKeeps DEF Decisions
  <2> HIDE DEF c
  <2>3. /\ x \in Request /\ x.at = "encrypted" /\ x.prim = "off" /\ x.stand = "off"
        /\ x.reply = r.reply /\ x.left = r.left /\ x.vital = r.vital
        /\ x.counted = r.counted \cup {"classified_overseas"}
    <3>1. 0 \in 0 .. Threshold
      OBVIOUS
    <3> QED BY <2>2, <3>1 DEF Request
  <2> HIDE DEF x
  <2>4. Untold(x.counted)
    BY <1>2, <2>3 DEF Untold
  <2>5. Branches(x) /\ Lasting(x)
    BY <2>3 DEF Branches, Lasting
  <2>6. ~r.vital => r.left >= QueryTimeout - Threshold
    BY <1>2 DEF Paced, Vital, Room
  <2>7. Vital(x)
    BY <1>2, <2>3, <2>6 DEF Vital, Room
  <2>8. CountsAgree(x.reply, x.counted)
    BY <1>2, <2>3, <2>4, NothingTold, HandlerSays
  <2>9. Told(x)
    BY <1>2, <2>3, <2>4, <2>8 DEF Told, Untold
  <2> QED BY <2>1, <2>3, <2>5, <2>7, <2>9 DEF Ready, Paced, answer
<1> QED BY <1>3, <1>4

(* validated_foreign_path after the encrypted lookup. *)
LEMMA ValidatedReady ==
    ASSUME NEW r, Paced(r), r.at = "encrypted", NEW says \in {"cn", "foreign", "negative"}
    PROVE  Ready(validated(r, Resp("encrypted", says)))
<1> DEFINE answer == Resp("encrypted", says)
<1>1. /\ answer \in Responses /\ answer.from = "encrypted" /\ answer.says = says
      /\ answer.short = FALSE
  BY RespIs
<1>2. /\ r \in Request /\ Untold(r.counted) /\ r.reply = NoResp
      /\ ~r.vital => r.left >= QueryTimeout - Threshold
  BY DEF Paced, Told, Vital, Room
<1>3. answer # ServFail
  BY <1>1 DEF ServFail, Resp
<1> HIDE DEF answer
<1>4. ASSUME NEW c \in Request, c.at = "encrypted", Untold(c.counted)
      PROVE  Ready(over(c, answer))
  <2>1. CountsAgree(answer, c.counted)
    BY <1>1, <1>4, NothingTold
  <2>2. Paced(over(c, answer))
    BY <1>1, <1>3, <1>4, <2>1, OverPaced
  <2> QED BY <1>1, <2>2, OverReady
<1>5. CASE ~auto
  <2> DEFINE c == count(r, {"secure_non_cn"})
  <2>1. validated(r, answer) = over(c, answer)
    BY <1>5 DEF validated
  <2>2. c \in Request /\ c.at = "encrypted" /\ c.counted = r.counted \cup {"secure_non_cn"}
    BY <1>2, CountIs DEF Decisions
  <2> HIDE DEF c
  <2>3. Untold(c.counted)
    BY <1>2, <2>2 DEF Untold
  <2> QED BY <1>4, <2>1, <2>2, <2>3 DEF answer
<1>6. CASE auto /\ r.ask.qtype = "A" /\ says # "negative"
  <2> DEFINE c == count(r, {"validated_foreign"})
             x == [c EXCEPT !.at = "fakeip", !.resp = answer]
  <2>1. validated(r, answer) = x
    BY <1>1, <1>6 DEF validated
  <2>2. /\ c \in Request /\ c.reply = r.reply /\ c.left = r.left /\ c.vital = r.vital
        /\ c.counted = r.counted \cup {"validated_foreign"}
    BY <1>2, CountIs, CountKeeps DEF Decisions
  <2> HIDE DEF c
  <2>3. /\ x \in Request /\ x.at = "fakeip" /\ x.reply = r.reply /\ x.left = r.left
        /\ x.vital = r.vital /\ x.counted = r.counted \cup {"validated_foreign"}
    BY <1>1, <2>2 DEF Request
  <2> HIDE DEF x
  <2>4. Untold(x.counted)
    BY <1>2, <2>3 DEF Untold
  <2> QED BY <1>2, <2>1, <2>3, <2>4 DEF Ready, answer
<1>7. CASE auto /\ ~(r.ask.qtype = "A" /\ says # "negative")
  <2>1. validated(r, answer) = over(r, answer)
    BY <1>1, <1>7 DEF validated
  <2> QED BY <1>2, <1>4, <2>1 DEF answer
<1> QED BY <1>5, <1>6, <1>7

-----------------------------------------------------------------------------
(* The start of a request.                                                 *)

IsFresh(r) ==
    /\ r \in Request /\ r.ask \in Question /\ r.prim = "off" /\ r.stand = "off"
    /\ r.left = QueryTimeout /\ r.vital = FALSE /\ r.counted = {} /\ r.reply = NoResp

(* The decisions that routing counts. *)
RouteDecisions ==
    {"rejected_ipv6", "rejected_private", "direct", "proxy", "unknown", "secure_listener",
     "secure_listener_rejected_ipv6", "secure_foreign"}

(* main_sequence and secure_listener_path end in a rejection, or go on to  *)
(* a single lookup, to Mihomo or to the classifier.                        *)
LEMMA RouteIs ==
    ASSUME NEW r, r.ask \in Question
    PROVE  \/ \E d \in RouteDecisions :
                route(r) = over(count(r, {d}), Resp("reject", "negative"))
           \/ \E stage \in {"secure", "fakeip"}, d \in SUBSET RouteDecisions :
                route(r) = count([r EXCEPT !.at = stage], d)
           \/ route(r) = [count([r EXCEPT !.at = "classify"], {"unknown"}) EXCEPT
                            !.prim = "run", !.stand = "wait", !.timer = Threshold]
<1> DEFINE to(stage, d) == count([r EXCEPT !.at = stage], d)
           reject(d) == over(count(r, {d}), Resp("reject", "negative"))
           a == r.ask
           asked == [to("classify", {"unknown"}) EXCEPT
                        !.prim = "run", !.stand = "wait", !.timer = Threshold]
<1>1. \/ route(r) = reject("secure_listener_rejected_ipv6")
      \/ route(r) = to("secure", {"secure_listener"})
      \/ route(r) = reject("rejected_ipv6")
      \/ route(r) = reject("rejected_private")
      \/ route(r) = to("secure", {"direct"})
      \/ route(r) = to("secure", {"proxy", "secure_foreign"})
      \/ route(r) = to("secure", {"proxy"})
      \/ route(r) = to("fakeip", {"proxy"})
      \/ route(r) = asked
  <2> HIDE DEF a, to, reject, asked
  <2>1. a.listener \in {"main", "secure"} /\ a.qtype \in {"A", "AAAA", "other"}
        /\ a.name \in {"private", "direct", "proxy", "both", "unknown"}
    BY DEF Question, a
  <2>2. CASE a.listener = "secure"
    BY <2>2 DEF route, to, reject, a
  <2>3. CASE a.listener = "main" /\ a.qtype = "AAAA"
    BY <2>3 DEF route, to, reject, a
  <2>4. CASE a.listener = "main" /\ a.qtype # "AAAA" /\ a.name = "private"
    BY <2>4 DEF route, to, reject, a
  <2>5. CASE a.listener = "main" /\ a.qtype # "AAAA" /\ a.name \in {"direct", "both"}
    BY <2>5 DEF route, to, reject, a, explicitPath
  <2>6. CASE a.listener = "main" /\ a.qtype # "AAAA" /\ a.name = "proxy"
    BY <2>6 DEF route, to, reject, a, explicitPath
  <2>7. CASE a.listener = "main" /\ a.qtype # "AAAA" /\ a.name = "unknown"
    BY <2>7 DEF route, to, reject, a, asked, explicitPath
  <2> QED BY <2>1, <2>2, <2>3, <2>4, <2>5, <2>6, <2>7
<1>2. {"secure_listener"} \in SUBSET RouteDecisions /\ {"direct"} \in SUBSET RouteDecisions
      /\ {"proxy", "secure_foreign"} \in SUBSET RouteDecisions
      /\ {"proxy"} \in SUBSET RouteDecisions
  BY DEF RouteDecisions
<1>3. /\ "secure_listener_rejected_ipv6" \in RouteDecisions
      /\ "rejected_ipv6" \in RouteDecisions /\ "rejected_private" \in RouteDecisions
  BY DEF RouteDecisions
<1> HIDE DEF to, reject, asked
<1>4. \/ \E d \in RouteDecisions : route(r) = reject(d)
      \/ \E stage \in {"secure", "fakeip"}, d \in SUBSET RouteDecisions : route(r) = to(stage, d)
      \/ route(r) = asked
  BY <1>1, <1>2, <1>3
<1> QED BY <1>4 DEF to, reject, asked

(* A new request routed to a stage. *)
RoutedTo(x, stage, d) ==
    /\ x \in Request /\ x.at = stage /\ x.prim = "off" /\ x.stand = "off"
    /\ x.left = QueryTimeout /\ x.vital = FALSE /\ x.counted = d /\ x.reply = NoResp

LEMMA RouteReady ==
    ASSUME NEW r, IsFresh(r)
    PROVE  Ready(route(r))
<1> USE PaceNumbers DEF Paces
<1>1. \A d \in SUBSET RouteDecisions : d \in SUBSET Decisions /\ Untold(d)
  BY DEF RouteDecisions, Decisions, Untold
<1>2. ASSUME NEW d \in RouteDecisions, route(r) = over(count(r, {d}), Resp("reject", "negative"))
      PROVE  Ready(route(r))
  <2> DEFINE c == count(r, {d})
             answer == Resp("reject", "negative")
  <2>1. {d} \in SUBSET Decisions /\ Untold({d})
    BY <1>1
  <2>2. c \in Request /\ c.counted = {d} /\ c.prim = "off"
    BY <2>1, CountIs DEF IsFresh
  <2>3. /\ answer \in Responses /\ answer.from = "reject" /\ answer.short = FALSE
        /\ answer.says = "negative"
    BY RespIs
  <2>4. answer # ServFail
    BY <2>3 DEF ServFail, Resp
  <2> HIDE DEF c, answer
  <2>5. CountsAgree(answer, c.counted)
    BY <2>1, <2>2, <2>3, NothingTold
  <2>6. Paced(over(c, answer))
    BY <2>2, <2>3, <2>4, <2>5, OverPaced
  <2> QED BY <1>2, <2>2, <2>3, <2>6, OverReady DEF c, answer
<1>3. ASSUME NEW stage \in {"secure", "fakeip", "classify"}, NEW d \in SUBSET RouteDecisions
      PROVE  RoutedTo(count([r EXCEPT !.at = stage], d), stage, d)
  <2> DEFINE y == [r EXCEPT !.at = stage]
  <2>1. RoutedTo(y, stage, {})
    BY DEF IsFresh, Request, RoutedTo
  <2> HIDE DEF y
  <2>2. d \in SUBSET Decisions /\ {} \cup d = d
    BY <1>1
  <2>3. RoutedTo(count(y, d), stage, d)
    BY <2>1, <2>2, CountIs, CountKeeps DEF RoutedTo
  <2> QED BY <2>3 DEF y
<1>4. ASSUME NEW stage \in {"secure", "fakeip"}, NEW d \in SUBSET RouteDecisions,
             route(r) = count([r EXCEPT !.at = stage], d)
      PROVE  Ready(route(r))
  <2> DEFINE x == count([r EXCEPT !.at = stage], d)
  <2>1. RoutedTo(x, stage, d)
    BY <1>3
  <2> HIDE DEF x
  <2>2. Untold(x.counted)
    BY <1>1, <2>1 DEF RoutedTo
  <2>3. Branches(x) \/ stage = "fakeip"
    BY <2>1 DEF RoutedTo, Branches
  <2>4. (Lasting(x) /\ Vital(x)) \/ stage = "fakeip"
    BY <2>1, ServFailIsNoOther DEF RoutedTo, Lasting, Vital, Room
  <2>5. CountsAgree(x.reply, x.counted)
    BY <2>1, <2>2, NothingTold, HandlerSays DEF RoutedTo
  <2>6. Told(x)
    BY <2>1, <2>2, <2>5 DEF RoutedTo, Told, Untold
  <2> QED BY <1>4, <2>1, <2>2, <2>3, <2>4, <2>6 DEF RoutedTo, Ready, Paced, x
<1>5. ASSUME route(r) = [count([r EXCEPT !.at = "classify"], {"unknown"}) EXCEPT
                            !.prim = "run", !.stand = "wait", !.timer = Threshold]
      PROVE  Ready(route(r))
  <2> DEFINE c == count([r EXCEPT !.at = "classify"], {"unknown"})
             x == [c EXCEPT !.prim = "run", !.stand = "wait", !.timer = Threshold]
  <2>1. {"unknown"} \in SUBSET RouteDecisions
    BY DEF RouteDecisions
  <2>2. /\ c \in Request /\ c.at = "classify" /\ c.left = QueryTimeout /\ c.vital = FALSE
        /\ c.counted = {"unknown"} /\ c.reply = NoResp
    BY <1>3, <2>1 DEF RoutedTo
  <2> HIDE DEF c
  <2>3. /\ x \in Request /\ x.at = "classify" /\ x.left = QueryTimeout /\ x.vital = FALSE
        /\ x.counted = {"unknown"} /\ x.reply = NoResp
        /\ x.prim = "run" /\ x.stand = "wait" /\ x.timer = Threshold
    <3>1. Threshold \in 0 .. Threshold
      OBVIOUS
    <3> QED BY <2>2, <3>1 DEF Request
  <2> HIDE DEF x
  <2>4. Untold(x.counted)
    BY <1>1, <2>1, <2>3
  <2>5. Branches(x)
    BY <2>3 DEF Branches
  <2>6. Lasting(x) /\ Vital(x)
    BY <2>3, ServFailIsNoOther DEF Lasting, Vital, Room
  <2>7. CountsAgree(x.reply, x.counted)
    BY <2>3, <2>4, NothingTold, HandlerSays
  <2>8. Told(x)
    BY <2>3, <2>4, <2>7 DEF Told, Untold
  <2> QED BY <1>5, <2>3, <2>5, <2>6, <2>8 DEF Ready, Paced, x, c
<1>6. r.ask \in Question
  BY DEF IsFresh
<1> QED BY <1>2, <1>4, <1>5, <1>6, RouteIs

(* Wherever a request goes next, its timers and counters are right. *)
LEMMA GotoPaced ==
    ASSUME NEW q, NEW r, Ready(r), r.at = "fakeip" => Placed(auto, r), goto(q, r)
    PROVE  \E x : Paced(x) /\ req' = [req EXCEPT ![q] = x]
<1> DEFINE c == count(r, {"fakeip_attempt"})
           asking == [c EXCEPT !.prim = "run", !.stand = "wait", !.timer = Threshold]
           calling == [asking EXCEPT !.budget = circuitBudget, !.probe = ~closed]
<1> USE PaceNumbers DEF Paces
<1>1. CASE r.at # "fakeip"
  BY <1>1 DEF goto, Ready
<1>2. CASE r.at = "fakeip"
  <2>1. /\ c \in Request /\ c.at = "fakeip" /\ c.ask = r.ask /\ c.resp = r.resp
        /\ c.reply = NoResp /\ c.counted = r.counted \cup {"fakeip_attempt"}
        /\ c.left = r.left /\ c.vital = r.vital
    BY <1>2, CountIs, CountKeeps DEF Ready, Decisions
  <2>2. (\/ req' = [req EXCEPT ![q] = calling]
         \/ req' = [req EXCEPT ![q] = primaryFailed(asking)])
    BY <1>2 DEF goto
  <2> HIDE DEF c
  <2>3. Threshold \in 0 .. Threshold /\ circuitBudget \in 0 .. Attempts * AttemptTime
    BY DEF circuitBudget
  <2>4. /\ asking \in Request /\ asking.at = "fakeip" /\ asking.ask = r.ask
        /\ asking.resp = r.resp /\ asking.reply = NoResp /\ asking.prim = "run"
        /\ asking.stand = "wait" /\ asking.timer = Threshold
        /\ asking.counted = r.counted \cup {"fakeip_attempt"}
        /\ asking.left = r.left /\ asking.vital = r.vital
    BY <2>1, <2>3 DEF Request
  <2> HIDE DEF asking
  <2>5. /\ Untold(asking.counted) /\ asking.left \in Nat
        /\ ~asking.vital => asking.left >= QueryTimeout - Threshold
    BY <1>2, <2>4, TimesTyped DEF Ready, Untold
  <2>6. Placed(auto, asking)
    BY <1>2, <2>4 DEF Placed
  <2>7. Ending(asking)
    BY <2>4, <2>5, <2>6 DEF Ending
  <2>8. /\ calling \in Request /\ calling.at = "fakeip" /\ calling.reply = NoResp
        /\ calling.prim = "run" /\ calling.stand = "wait" /\ calling.timer = Threshold
        /\ calling.budget = circuitBudget /\ calling.counted = asking.counted
        /\ calling.left = asking.left /\ calling.vital = asking.vital
    BY <2>3, <2>4 DEF Request, closed
  <2> HIDE DEF calling
  <2>9. Branches(calling) /\ Lasting(calling)
    BY <2>8 DEF Branches, Lasting
  <2>10. Vital(calling)
    BY <2>5, <2>8, ServFailIsNoOther DEF Vital, Room
  <2>11. CountsAgree(calling.reply, calling.counted)
    BY <2>5, <2>8, NothingTold, HandlerSays
  <2>12. Told(calling)
    BY <2>5, <2>8, <2>11 DEF Told, Untold
  <2>13. Paced(calling) /\ Paced(primaryFailed(asking))
    BY <2>7, <2>8, <2>9, <2>10, <2>12, FailedPaced DEF Paced
  <2> QED BY <2>2, <2>13
<1> QED BY <1>1, <1>2

-----------------------------------------------------------------------------
(* The second inductive invariant and its steps.                           *)

RequestsPaced == \A q \in Query : Paced(req[q])

PInv == IInv /\ RequestsPaced

LEMMA IdlePaced == Paced(Idle)
<1>1. Idle \in Request
  BY IdleSound DEF Sound, Good
<1>2. Branches(Idle) /\ Lasting(Idle)
  BY DEF Idle, Branches, Lasting
<1>3. Vital(Idle)
  BY ServFailIsNoOther DEF Idle, Vital, Room
<1>4. Untold({}) /\ Idle.counted = {} /\ Idle.reply = NoResp /\ Idle.at = "idle"
  BY DEF Untold, Idle
<1>5. CountsAgree(Idle.reply, Idle.counted)
  BY <1>4, NothingTold, HandlerSays
<1>6. Told(Idle)
  BY <1>4, <1>5 DEF Told, Untold
<1> QED BY <1>1, <1>2, <1>3, <1>6 DEF Paced

LEMMA OnePaced ==
    ASSUME PInv, NEW q \in Query, \E x : Paced(x) /\ req' = [req EXCEPT ![q] = x]
    PROVE  RequestsPaced'
BY DEF PInv, IInv, RequestsSound, RequestsPaced

(* The facts about a request that the steps start from. *)
LEMMA RequestIs ==
    ASSUME PInv, NEW q \in Query
    PROVE  /\ Paced(req[q]) /\ Sound(auto, req[q]) /\ Good(auto, req[q])
           /\ Placed(auto, req[q]) /\ req[q] \in Request
BY DEF PInv, IInv, RequestsSound, RequestsPaced, Sound, Good

(* The step sends request q on by goto. *)
Sent(q) == \E r : Ready(r) /\ (r.at = "fakeip" => Placed(auto, r)) /\ goto(q, r)

LEMMA FailedAt ==
    ASSUME NEW r \in Request, r.at = "classify"
    PROVE  primaryFailed(r).at # "fakeip"
<1> DEFINE f == [r EXCEPT !.prim = "failed"]
           x == [f EXCEPT !.stand = "run"]
<1>1. f \in Request /\ f.at = "classify" /\ x.at = "classify"
  BY DEF Request
<1>2. startStandby(f) = x
  BY <1>1 DEF startStandby
<1>3. over(f, ServFail).at = "over"
  BY <1>1, OverIs, HandlerResponses
<1> HIDE DEF f, x
<1> QED BY <1>1, <1>2, <1>3 DEF primaryFailed, f

LEMMA FreshArrival ==
    ASSUME NEW a \in Question
    PROVE  IsFresh([Idle EXCEPT !.ask = a, !.left = QueryTimeout])
<1>1. Idle \in Request
  BY IdleSound DEF Sound, Good
<1>2. QueryTimeout \in 0 .. QueryTimeout
  BY Numbers DEF BudgetNat
<1>3. /\ Idle.prim = "off" /\ Idle.stand = "off" /\ Idle.vital = FALSE
      /\ Idle.counted = {} /\ Idle.reply = NoResp
  BY DEF Idle
<1> QED BY <1>1, <1>2, <1>3 DEF IsFresh, Request

LEMMA ArriveSent ==
    ASSUME PInv, NEW q \in Query, Arrive(q)
    PROVE  Sent(q)
<1>1. PICK a \in Asks[q] : goto(q, route([Idle EXCEPT !.ask = a, !.left = QueryTimeout]))
  BY DEF Arrive
<1>2. a \in Question
  BY <1>1, AskAssumption
<1> DEFINE r == [Idle EXCEPT !.ask = a, !.left = QueryTimeout]
<1>3. Good(auto, route(r))
  BY <1>2, ArrivesNew, RouteGood
<1>4. Ready(route(r))
  BY <1>2, FreshArrival, RouteReady
<1> QED BY <1>1, <1>3, <1>4 DEF Sent, Good

LEMMA RecursiveSent ==
    ASSUME PInv, NEW q \in Query, RecursiveReturns(q)
    PROVE  Sent(q)
<1> DEFINE r == req[q]
<1> USE PaceNumbers DEF Paces
<1>1. /\ Paced(r) /\ Sound(auto, r) /\ Good(auto, r) /\ Placed(auto, r) /\ r \in Request
      /\ r.at = "classify" /\ r.prim = "run"
  BY RequestIs DEF RecursiveReturns
<1>2. saying(r) \subseteq {"cn", "foreign", "negative"}
  BY DEF saying
<1>3. ASSUME NEW says \in saying(r), goto(q, classified(r, Resp("recursive", says)))
      PROVE  Sent(q)
  <2>1. Good(auto, classified(r, Resp("recursive", says)))
    BY <1>1, <1>2, <1>3, ClassifiedGood
  <2>2. Ready(classified(r, Resp("recursive", says)))
    BY <1>1, <1>2, <1>3, ClassifiedReady
  <2> QED BY <1>3, <2>1, <2>2 DEF Sent, Good
<1>4. ASSUME goto(q, primaryFailed(r)) PROVE Sent(q)
  <2>1. Good(auto, primaryFailed(r))
    BY <1>1, FailedSound DEF Sound
  <2>2. r.timer \in Nat /\ r.left \in Nat /\ r.stand # "off" /\ r.reply = NoResp /\ Untold(r.counted)
    BY <1>1, TimesTyped DEF Paced, Branches, Told
  <2>3. r.stand = "failed" => r.vital
    BY <1>1 DEF Paced, Vital
  <2>4. ~r.vital => r.left >= QueryTimeout - Threshold
    BY <1>1, <2>2 DEF Paced, Vital, Room
  <2>5. Ending(r)
    BY <1>1, <2>2, <2>3, <2>4 DEF Ending
  <2>6. Ready(primaryFailed(r))
    BY <1>1, <2>5, FailedPaced, FailedAt DEF Ready, Paced
  <2> QED BY <1>4, <2>1, <2>6 DEF Sent, Good
<1> QED BY <1>3, <1>4 DEF RecursiveReturns

LEMMA AnswersSent ==
    ASSUME PInv, NEW q \in Query, EncryptedAnswers(q)
    PROVE  Sent(q)
<1> DEFINE r == req[q]
<1>1. /\ Paced(r) /\ Sound(auto, r) /\ Good(auto, r) /\ r \in Request
  BY RequestIs
<1>2. saying(r) \subseteq {"cn", "foreign", "negative"}
  BY DEF saying
<1>3. PICK says \in saying(r) :
          goto(q, CASE r.at = "classify" -> classified(r, Resp("encrypted", says))
                    [] r.at = "encrypted" -> validated(r, Resp("encrypted", says))
                    [] OTHER -> over(r, Resp("encrypted", says)))
  BY DEF EncryptedAnswers
<1>4. CASE r.at = "classify"
  <2>1. goto(q, classified(r, Resp("encrypted", says)))
    BY <1>3, <1>4
  <2>2. Good(auto, classified(r, Resp("encrypted", says)))
    BY <1>1, <1>2, <1>4, ClassifiedGood
  <2>3. Ready(classified(r, Resp("encrypted", says)))
    BY <1>1, <1>2, <1>4, ClassifiedReady
  <2> QED BY <2>1, <2>2, <2>3 DEF Sent, Good
<1>5. CASE r.at = "encrypted"
  <2>1. goto(q, validated(r, Resp("encrypted", says)))
    BY <1>3, <1>5
  <2>2. Good(auto, validated(r, Resp("encrypted", says)))
    BY <1>1, <1>2, <1>5, ValidatedGood
  <2>3. Ready(validated(r, Resp("encrypted", says)))
    BY <1>1, <1>2, <1>5, ValidatedReady
  <2> QED BY <2>1, <2>2, <2>3 DEF Sent, Good
<1>6. CASE r.at \notin {"classify", "encrypted"}
  <2> DEFINE answer == Resp("encrypted", says)
  <2>1. goto(q, over(r, answer))
    BY <1>3, <1>6
  <2>2. /\ answer \in Responses /\ answer.from = "encrypted" /\ answer.short = FALSE
    BY <1>2, RespIs
  <2>3. answer # ServFail
    BY <2>2 DEF ServFail, Resp
  <2> HIDE DEF answer
  <2>4. r.at = "secure" \/ (r.at = "fakeip" /\ r.stand = "run")
    BY <1>1, <1>6 DEF EncryptedAnswers, waitsForEncrypted, inFlight, Request
  <2>5. ~(r.at = "fakeip" /\ r.prim = "run")
    BY <1>1, <2>4 DEF Paced, Branches
  <2>6. CountsAgree(answer, r.counted)
    BY <1>1, <2>2, <2>4 DEF Paced, Told, CountsAgree
  <2>7. Paced(over(r, answer)) /\ over(r, answer).at = "over"
    BY <1>1, <2>2, <2>3, <2>5, <2>6, OverPaced, OverIs
  <2>8. Ready(over(r, answer))
    BY <1>1, <2>2, <2>7, OverReady
  <2> QED BY <2>1, <2>7, <2>8 DEF Sent
<1> QED BY <1>4, <1>5, <1>6

LEMMA SentPaced ==
    ASSUME PInv, NEW q \in Query, Sent(q)
    PROVE  RequestsPaced'
BY GotoPaced, OnePaced DEF Sent

LEMMA FailsPaced ==
    ASSUME PInv, NEW q \in Query, EncryptedFails(q)
    PROVE  RequestsPaced'
<1> DEFINE r == req[q]
           x == [r EXCEPT !.vital = TRUE]
           y == [x EXCEPT !.stand = "failed"]
<1>1. Paced(r) /\ r \in Request
  BY RequestIs
<1>2. /\ req' = [req EXCEPT ![q] = IF x.stand = "run" /\ x.prim = "run" THEN y
                                   ELSE over(x, ServFail)]
      /\ waitsForEncrypted(x)
  BY DEF EncryptedFails
<1>3. /\ x \in Request /\ x.at = r.at /\ x.prim = r.prim /\ x.stand = r.stand
      /\ x.reply = r.reply /\ x.counted = r.counted /\ x.vital = TRUE
  BY <1>1 DEF Request
<1>4. /\ y \in Request /\ y.at = r.at /\ y.prim = r.prim /\ y.stand = "failed"
      /\ y.reply = r.reply /\ y.counted = r.counted /\ y.vital = TRUE
  BY <1>1 DEF Request
<1> HIDE DEF x, y
<1>5. r.at \in {"encrypted", "secure"} \/ (r.at \in {"classify", "fakeip"} /\ r.stand = "run")
  BY <1>1, <1>2, <1>3 DEF waitsForEncrypted, inFlight, Request
<1>6. ASSUME r.stand = "run", r.prim = "run" PROVE Paced(y)
  <2>1. r.at = "classify"
    BY <1>1, <1>5, <1>6 DEF Paced, Branches
  <2>2. Branches(y) /\ Lasting(y)
    BY <1>4, <1>6, <2>1 DEF Branches, Lasting
  <2>3. Vital(y) /\ Told(y)
    BY <1>1, <1>4, <1>6, <2>1 DEF Paced, Vital, Told
  <2> QED BY <1>4, <2>2, <2>3 DEF Paced
<1>7. Paced(over(x, ServFail))
  <2>1. ~(r.at = "fakeip" /\ r.prim = "run")
    BY <1>1, <1>5 DEF Paced, Branches
  <2>2. "fakeip_answer" \notin r.counted /\ "fallback_reuse_real" \notin r.counted
    BY <1>1, <1>5 DEF Paced, Told
  <2>3. CountsAgree(ServFail, x.counted)
    BY <1>3, <2>2, HandlerSays DEF CountsAgree
  <2> QED BY <1>3, <2>1, <2>3, HandlerSays, OverPaced
<1> QED BY <1>2, <1>3, <1>6, <1>7, OnePaced

LEMMA StandbyPaced ==
    ASSUME PInv, NEW q \in Query, StandbyStarts(q)
    PROVE  RequestsPaced'
<1> DEFINE r == req[q]
           x == [r EXCEPT !.stand = "run"]
<1> USE PaceNumbers DEF Paces
<1>1. Paced(r) /\ r \in Request /\ r.stand = "wait" /\ r.timer = 0
  BY RequestIs DEF StandbyStarts
<1>2. r.timer \in Nat /\ r.budget \in Nat /\ r.left \in Nat
  BY <1>1, TimesTyped
<1>3. r.at = "classify" /\ r.prim = "run"
  BY <1>1, <1>2 DEF Paced, Branches, Lasting, Request
<1>4. req' = [req EXCEPT ![q] = x]
  BY <1>3 DEF StandbyStarts, startStandby
<1>5. /\ x \in Request /\ x.at = "classify" /\ x.prim = "run" /\ x.stand = "run"
      /\ x.reply = r.reply /\ x.counted = r.counted /\ x.vital = r.vital /\ x.left = r.left
  BY <1>1, <1>3 DEF Request
<1> HIDE DEF x
<1>6. Branches(x) /\ Lasting(x)
  BY <1>5 DEF Branches, Lasting
<1>7. Vital(x)
  BY <1>1, <1>2, <1>3, <1>5 DEF Paced, Vital, Room
<1>8. Told(x)
  BY <1>1, <1>3, <1>5 DEF Paced, Told
<1>9. Paced(x)
  BY <1>5, <1>6, <1>7, <1>8 DEF Paced
<1> QED BY <1>4, <1>9, OnePaced

(* What becomes of a request whose circuit call has ended. *)
LEMMA CallDone ==
    ASSUME PInv, NEW q \in Query, circuitRuns(req[q])
    PROVE  LET r == req[q]
               done == circuitDone(r)
               fake == count(done, {"fakeip_answer"})
           IN  /\ inFlight(r) => /\ Paced(primaryFailed(done))
                                 /\ Paced(over(fake, Resp("mihomo", "foreign")))
               /\ ~inFlight(r) => Paced(done) /\ Paced(fake)
<1> DEFINE r == req[q]
           done == circuitDone(r)
           fake == count(done, {"fakeip_answer"})
           answer == Resp("mihomo", "foreign")
<1> USE PaceNumbers DEF Paces
<1>1. /\ Paced(r) /\ Placed(auto, r) /\ r \in Request
      /\ r.at \in {"fakeip", "over"} /\ r.prim = "run"
  BY RequestIs DEF circuitRuns
<1>2. r.timer \in Nat /\ r.budget \in Nat /\ r.left \in Nat
  BY <1>1, TimesTyped
<1>3. /\ done \in Request /\ done.at = r.at /\ done.ask = r.ask /\ done.resp = r.resp
      /\ done.prim = "off" /\ done.stand = r.stand /\ done.left = r.left
      /\ done.vital = r.vital /\ done.reply = r.reply /\ done.counted = r.counted
  <2>1. 0 \in 0 .. Attempts * AttemptTime
    BY DEF circuitBudget
  <2> QED BY <1>1, <2>1 DEF circuitDone, Request
<1> HIDE DEF done
<1>4. /\ fake \in Request /\ fake.at = r.at /\ fake.prim = "off" /\ fake.stand = r.stand
      /\ fake.vital = r.vital /\ fake.reply = r.reply
      /\ fake.counted = r.counted \cup {"fakeip_answer"}
  BY <1>3, CountIs, CountKeeps DEF Decisions
<1> HIDE DEF fake
<1>5. Untold(r.counted)
  BY <1>1 DEF Paced, Told
<1>6. ASSUME inFlight(r) PROVE Paced(primaryFailed(done)) /\ Paced(over(fake, answer))
  <2>1. r.at = "fakeip" /\ r.stand = "wait" /\ r.reply = NoResp
    BY <1>1, <1>6 DEF inFlight, Paced, Branches, Told
  <2>2. ~r.vital => r.left >= QueryTimeout - Threshold - circuitBudget
    BY <1>1, <1>2, <2>1 DEF Paced, Lasting, Vital, Room
  <2>3. Placed(auto, done)
    BY <1>1, <1>3 DEF Placed
  <2>4. Ending(done)
    BY <1>2, <1>3, <1>5, <2>1, <2>2, <2>3 DEF Ending
  <2>5. /\ answer \in Responses /\ answer.from = "mihomo" /\ answer.short = FALSE
    BY RespIs
  <2>6. answer # ServFail
    BY <2>5, HandlerSays
  <2> HIDE DEF answer
  <2>7. CountsAgree(answer, fake.counted)
    BY <1>4, <1>5, <2>5 DEF CountsAgree, Untold
  <2>8. Paced(over(fake, answer))
    BY <1>4, <2>5, <2>6, <2>7, OverPaced
  <2> QED BY <2>4, <2>8, FailedPaced
<1>7. ASSUME ~inFlight(r) PROVE Paced(done) /\ Paced(fake)
  <2>1. r.at = "over" /\ r.stand = "off"
    BY <1>1, <1>7 DEF inFlight, Paced, Branches
  <2>2. Branches(done) /\ Branches(fake)
    BY <1>3, <1>4, <2>1 DEF Branches
  <2>3. Lasting(done) /\ Lasting(fake)
    BY <1>3, <1>4, <2>1 DEF Lasting
  <2>4. Vital(done) /\ Vital(fake)
    BY <1>1, <1>3, <1>4, <2>1 DEF Paced, Vital, Room
  <2>5. Told(done)
    BY <1>1, <1>3, <2>1 DEF Paced, Told
  <2>6. CountsAgree(fake.reply, fake.counted)
    BY <1>1, <1>4, <1>5 DEF Paced, Told, CountsAgree, Untold
  <2>7. Told(fake)
    BY <1>4, <2>1, <2>6 DEF Told
  <2> QED BY <1>3, <1>4, <2>2, <2>3, <2>4, <2>5, <2>7 DEF Paced
<1> QED BY <1>6, <1>7 DEF fake, done

LEMMA CircuitPaced ==
    ASSUME PInv, NEW q \in Query,
           MihomoAnswers(q) \/ MihomoFails(q) \/ CallEndsWithContext(q)
    PROVE  RequestsPaced'
<1> DEFINE r == req[q]
           done == circuitDone(r)
           fake == count(done, {"fakeip_answer"})
           answer == Resp("mihomo", "foreign")
<1>1. circuitRuns(r)
  BY DEF MihomoAnswers, MihomoFails, CallEndsWithContext
<1>2. \/ /\ inFlight(r)
         /\ \/ req' = [req EXCEPT ![q] = over(fake, answer)]
            \/ req' = [req EXCEPT ![q] = primaryFailed(done)]
      \/ /\ ~inFlight(r)
         /\ \/ req' = [req EXCEPT ![q] = fake]
            \/ req' = [req EXCEPT ![q] = done]
  <2>1. CASE MihomoAnswers(q)
    BY <2>1 DEF MihomoAnswers
  <2>2. CASE MihomoFails(q)
    BY <2>2 DEF MihomoFails
  <2>3. CASE CallEndsWithContext(q)
    BY <2>3 DEF CallEndsWithContext, inFlight
  <2> QED BY <2>1, <2>2, <2>3
<1>3. /\ inFlight(r) => Paced(primaryFailed(done)) /\ Paced(over(fake, answer))
      /\ ~inFlight(r) => Paced(done) /\ Paced(fake)
  BY <1>1, CallDone
<1> HIDE DEF done, fake, answer
<1> QED BY <1>2, <1>3, OnePaced

LEMMA EndsPaced ==
    ASSUME PInv, NEW q \in Query, DeadlinePasses(q) \/ ClientLeaves(q) \/ Forget(q)
    PROVE  RequestsPaced'
<1> DEFINE r == req[q]
<1> USE PaceNumbers DEF Paces
<1>1. Paced(r) /\ r \in Request
  BY RequestIs
<1>2. r.timer \in Nat /\ r.budget \in Nat /\ r.left \in Nat
  BY <1>1, TimesTyped
<1>3. ASSUME inFlight(r)
      PROVE  /\ CountsAgree(ServFail, r.counted) /\ CountsAgree(Gone, r.counted)
             /\ r.prim = "run" => Untold(r.counted)
  <2>1. /\ "fakeip_answer" \notin r.counted /\ "fallback_reuse_real" \notin r.counted
        /\ r.prim = "run" => Untold(r.counted)
    BY <1>1, <1>3 DEF inFlight, Paced, Told
  <2> QED BY <2>1, HandlerSays DEF CountsAgree
<1>4. CASE DeadlinePasses(q)
  <2>1. inFlight(r) /\ r.left = 0 /\ req' = [req EXCEPT ![q] = over(r, ServFail)]
    BY <1>4 DEF DeadlinePasses
  <2>2. ASSUME ~r.vital PROVE FALSE
    <3>1. Room(r)
      BY <1>1, <2>2 DEF Paced, Vital
    <3>2. r.at \in {"classify", "encrypted", "secure", "fakeip"}
      BY <1>1, <2>1 DEF inFlight, Request
    <3> QED BY <1>1, <1>2, <2>1, <3>1, <3>2 DEF Paced, Lasting, Room
  <2>3. Paced(over(r, ServFail))
    BY <1>1, <1>3, <2>1, <2>2, HandlerSays, OverPaced
  <2> QED BY <2>1, <2>3, OnePaced
<1>5. CASE ClientLeaves(q)
  <2>1. inFlight(r) /\ req' = [req EXCEPT ![q] = over(r, Gone)]
    BY <1>5 DEF ClientLeaves
  <2>2. Paced(over(r, Gone))
    BY <1>1, <1>3, <2>1, HandlerSays, ServFailIsNoOther, OverPaced
  <2> QED BY <2>1, <2>2, OnePaced
<1>6. CASE Forget(q)
  BY <1>6, IdlePaced, OnePaced DEF Forget
<1> QED BY <1>4, <1>5, <1>6

LEMMA TickPaced ==
    ASSUME PInv, Tick
    PROVE  RequestsPaced'
<1> DEFINE after(q) == [req[q] EXCEPT !.timer = Less(@), !.budget = Less(@), !.left = Less(@),
                                      !.vital = @ \/ waitsForEncrypted(req[q])]
<1> USE PaceNumbers DEF Paces
<1>1. req' = [q \in Query |-> after(q)]
  BY DEF Tick
<1>2. ASSUME NEW q \in Query PROVE Paced(after(q))
  <2> DEFINE r == req[q]
             x == after(q)
  <2>1. Paced(r) /\ r \in Request /\ ~due(r)
    BY RequestIs DEF Tick
  <2>2. r.timer \in Nat /\ r.budget \in Nat /\ r.left \in Nat
    BY <2>1, TimesTyped
  <2>3. /\ Less(r.timer) \in 0 .. Threshold
        /\ Less(r.budget) \in 0 .. Attempts * AttemptTime
        /\ Less(r.left) \in 0 .. QueryTimeout
    BY <2>1, Numbers DEF Request, Less, BudgetNat, circuitBudget
  <2>4. (r.vital \/ waitsForEncrypted(r)) \in BOOLEAN
    BY <2>1 DEF Request, waitsForEncrypted, inFlight
  <2>5. /\ x \in Request /\ x.at = r.at /\ x.prim = r.prim /\ x.stand = r.stand
        /\ x.reply = r.reply /\ x.counted = r.counted
        /\ x.timer = Less(r.timer) /\ x.budget = Less(r.budget) /\ x.left = Less(r.left)
    BY <2>1, <2>3, <2>4 DEF Request
  <2>6. x.vital = (r.vital \/ waitsForEncrypted(r))
    BY <2>1, <2>4 DEF Request
  <2> HIDE DEF x
  <2>7. Branches(x) /\ Told(x)
    BY <2>1, <2>5 DEF Paced, Branches, Told
  <2>8. Lasting(x)
    <3>1. ASSUME r.at = "fakeip", r.prim = "run" PROVE r.timer > 0 /\ r.budget > 0
      BY <2>1, <2>2, <3>1 DEF Paced, Branches, due, circuitRuns
    <3> QED BY <2>1, <2>2, <2>5, <3>1 DEF Paced, Lasting, Less
  <2>9. r.stand = "failed" \/ r.reply = ServFail => x.vital
    BY <2>1, <2>6 DEF Paced, Vital
  <2>10. ASSUME ~x.vital PROVE Room(x)
    <3>1. Room(r) /\ ~waitsForEncrypted(r)
      BY <2>1, <2>6, <2>10 DEF Paced, Vital
    <3>2. /\ r.at \notin {"encrypted", "secure"}
          /\ r.at \in {"classify", "fakeip"} => r.stand # "run" /\ r.left > 0
      BY <2>1, <2>2, <3>1 DEF waitsForEncrypted, inFlight, due
    <3>3. r.at \in {"classify", "fakeip"} => r.stand = "wait" /\ r.prim = "run" /\ r.timer > 0
      <4>1. r.stand # "failed"
        BY <2>9, <2>10
      <4> QED BY <2>1, <2>2, <3>2, <4>1 DEF Paced, Branches, due
    <3> QED BY <2>2, <2>5, <3>1, <3>2, <3>3 DEF Room, Less
  <2>11. Vital(x)
    BY <2>5, <2>9, <2>10 DEF Vital
  <2> QED BY <2>5, <2>7, <2>8, <2>11 DEF Paced, x
<1> HIDE DEF after
<1> QED BY <1>1, <1>2 DEF RequestsPaced

LEMMA StepPInv == PInv /\ [Next]_vars => PInv'
<1> SUFFICES ASSUME PInv, [Next]_vars PROVE PInv'
  OBVIOUS
<1>1. IInv'
  BY StepIInv DEF PInv
<1>2. CASE Next
  BY <1>1, <1>2, ArriveSent, RecursiveSent, AnswersSent, SentPaced, FailsPaced, StandbyPaced,
     CircuitPaced, EndsPaced, TickPaced DEF Next, PInv
<1>3. CASE UNCHANGED vars
  BY <1>1, <1>3 DEF vars, PInv, RequestsPaced
<1> QED BY <1>2, <1>3

LEMMA InitPInv == Init => PInv
BY InitIInv, IdlePaced DEF Init, PInv, RequestsPaced

LEMMA PacedInvariance == Spec => []PInv
BY InitPInv, StepPInv, PTL DEF Spec

LEMMA PInvImplies == PInv => OnlyEncryptedIsVital /\ CountsTellReply
<1> SUFFICES ASSUME PInv PROVE OnlyEncryptedIsVital /\ CountsTellReply
  OBVIOUS
<1>1. OnlyEncryptedIsVital
  BY DEF PInv, RequestsPaced, Paced, Vital, OnlyEncryptedIsVital
<1>2. \A q \in Query : CountsAgree(req[q].reply, req[q].counted)
  BY DEF PInv, RequestsPaced, Paced, Told
<1>3. CountsTellReply
  BY <1>2 DEF CountsTellReply, CountsAgree
<1> QED BY <1>1, <1>3

-----------------------------------------------------------------------------
(* The probe of the circuit.                                               *)

Holds(r) == circuitRuns(r) /\ r.probe

(* A call that an open circuit lets through is its probe. *)
LEMMA GotoProbes ==
    ASSUME PInv, NEW q \in Query, NEW r, Ready(r), goto(q, r),
           state # "halfopen", state' = "halfopen"
    PROVE  Holds(req'[q])
<1> DEFINE c == count(r, {"fakeip_attempt"})
           asking == [c EXCEPT !.prim = "run", !.stand = "wait", !.timer = Threshold]
           calling == [asking EXCEPT !.budget = circuitBudget, !.probe = ~closed]
<1>1. r.at = "fakeip" /\ ~denied /\ grant /\ req' = [req EXCEPT ![q] = calling]
  BY DEF goto, breakerVars
<1>2. ~closed
  BY <1>1 DEF grant, breakerVars
<1>3. c \in Request /\ c.at = "fakeip"
  BY <1>1, CountIs DEF Ready, Decisions
<1> HIDE DEF c
<1>4. asking.at = "fakeip" /\ asking.prim = "run" /\ DOMAIN asking = DOMAIN c
  BY <1>3 DEF Request
<1>5. calling.at = "fakeip" /\ calling.prim = "run" /\ calling.probe = ~closed
  BY <1>3, <1>4 DEF Request
<1>6. req'[q] = calling
  BY <1>1 DEF PInv, IInv, RequestsSound
<1> HIDE DEF calling
<1> QED BY <1>2, <1>5, <1>6 DEF Holds, circuitRuns

(* If a half-open circuit loses its probe to a step of request q, q held it. *)
LEMMA LoserHeld ==
    ASSUME PInv, NEW q \in Query, NEW x, req' = [req EXCEPT ![q] = x],
           ProbeHeld, ~ProbeHeld', state = "halfopen"
    PROVE  q \in probesInFlight /\ Holds(req[q]) /\ ~Holds(x)
<1>1. PICK p \in Query : Holds(req[p])
  BY DEF ProbeHeld, probesInFlight, Holds
<1>2. \A p2 \in Query : ~Holds(req'[p2])
  BY DEF ProbeHeld, probesInFlight, Holds, circuitRuns
<1>3. p = q /\ req'[q] = x
  BY <1>1, <1>2 DEF PInv, IInv, RequestsSound
<1> QED BY <1>1, <1>2, <1>3 DEF probesInFlight, Holds

LEMMA ProbeStep ==
    ASSUME PInv, [Next]_vars, ProbeHeld, ~ProbeHeld'
    PROVE  \E q \in probesInFlight : req[q].vital \/ req[q].reply = Gone
<1> USE DEF breakerVars
<1>1. state' = "halfopen" /\ \A p \in Query : ~Holds(req'[p])
  BY DEF ProbeHeld, probesInFlight, Holds, circuitRuns
<1>2. ASSUME NEW q \in Query, Arrive(q) \/ RecursiveReturns(q) \/ EncryptedAnswers(q) PROVE FALSE
  <2>1. Sent(q)
    BY <1>2, ArriveSent, RecursiveSent, AnswersSent
  <2>2. PICK r : Ready(r) /\ (r.at = "fakeip" => Placed(auto, r)) /\ goto(q, r)
    BY <2>1 DEF Sent
  <2>3. PICK x : req' = [req EXCEPT ![q] = x]
    BY <2>2, GotoPaced
  <2>4. state = "halfopen"
    BY <1>1, <2>2, GotoProbes
  <2>5. Holds(req[q])
    BY <2>3, <2>4, LoserHeld
  <2>6. Paced(req[q])
    BY RequestIs
  <2>7. req[q].at \in {"idle", "classify"} \/ waitsForEncrypted(req[q])
    <3>1. CASE Arrive(q)
      BY <3>1 DEF Arrive, Idle
    <3>2. CASE RecursiveReturns(q)
      BY <3>2 DEF RecursiveReturns
    <3>3. CASE EncryptedAnswers(q)
      BY <3>3 DEF EncryptedAnswers
    <3> QED BY <1>2, <3>1, <3>2, <3>3
  <2>8. ~circuitRuns(req[q])
    BY <2>6, <2>7 DEF waitsForEncrypted, inFlight, circuitRuns, Paced, Branches
  <2> QED BY <2>5, <2>8 DEF Holds
<1>3. ASSUME NEW q \in Query, EncryptedFails(q) PROVE FALSE
  <2>1. PICK x : req' = [req EXCEPT ![q] = x]
    BY <1>3 DEF EncryptedFails
  <2>2. state = "halfopen"
    BY <1>1, <1>3 DEF EncryptedFails
  <2>3. Holds(req[q]) /\ Paced(req[q]) /\ req[q] \in Request
    BY <2>1, <2>2, LoserHeld, RequestIs
  <2> DEFINE y == [req[q] EXCEPT !.vital = TRUE]
  <2>4. waitsForEncrypted(y)
    BY <1>3 DEF EncryptedFails
  <2>5. y.at = req[q].at /\ y.stand = req[q].stand
    BY <2>3 DEF Request
  <2> HIDE DEF y
  <2> QED BY <2>3, <2>4, <2>5 DEF waitsForEncrypted, inFlight, Holds, circuitRuns, Paced, Branches
<1>4. ASSUME NEW q \in Query, StandbyStarts(q) PROVE FALSE
  <2>1. state = "halfopen" /\ req' = [req EXCEPT ![q] = startStandby(req[q])]
    BY <1>1, <1>4 DEF StandbyStarts
  <2>2. Holds(req[q]) /\ Paced(req[q]) /\ req[q] \in Request
    BY <2>1, LoserHeld, RequestIs
  <2>3. req[q].timer \in Nat /\ req[q].budget \in Nat
    BY <2>2, TimesTyped
  <2>4. req[q].stand = "wait" /\ req[q].timer = 0
    BY <1>4 DEF StandbyStarts
  <2>5. req[q].at = "fakeip" /\ req[q].prim = "run"
    BY <2>2, <2>4 DEF Holds, circuitRuns, Paced, Branches
  <2> QED BY <2>2, <2>3, <2>4, <2>5, PaceNumbers DEF Paces, Paced, Lasting
<1>5. ASSUME NEW q \in Query, MihomoAnswers(q) PROVE FALSE
  BY <1>1, <1>5 DEF MihomoAnswers, succeed, closed, circuit!Reset
<1>6. ASSUME NEW q \in Query, MihomoFails(q) PROVE FALSE
  <2>1. PICK x : req' = [req EXCEPT ![q] = x]
    BY <1>6 DEF MihomoFails
  <2>2. fail(req[q].probe)
    BY <1>6 DEF MihomoFails
  <2>3. state = "halfopen" /\ ~req[q].probe
    BY <1>1, <2>2 DEF fail, closed, circuit!Trip, circuit!Reopen
  <2> QED BY <2>1, <2>3, LoserHeld DEF Holds
<1>7. ASSUME NEW q \in Query, CallEndsWithContext(q)
      PROVE  \E p \in probesInFlight : req[p].vital \/ req[p].reply = Gone
  <2>1. /\ state = "halfopen" /\ req[q].at = "over" /\ req[q].prim = "run"
        /\ \E x : req' = [req EXCEPT ![q] = x]
    BY <1>1, <1>7 DEF CallEndsWithContext, circuitRuns
  <2>2. q \in probesInFlight /\ Paced(req[q])
    BY <2>1, LoserHeld, RequestIs
  <2>3. req[q].vital \/ req[q].reply = Gone
    BY <2>1, <2>2 DEF Paced, Branches, Vital
  <2> QED BY <2>2, <2>3
<1>8. ASSUME NEW q \in Query, NEW answer \in {ServFail, Gone}, inFlight(req[q]),
             req' = [req EXCEPT ![q] = over(req[q], answer)], state' = state
      PROVE  FALSE
  <2>1. Holds(req[q]) /\ ~Holds(over(req[q], answer)) /\ req[q] \in Request
    BY <1>1, <1>8, LoserHeld, RequestIs
  <2>2. answer \in Responses
    BY HandlerSays
  <2>3. req[q].at = "fakeip" /\ req[q].prim = "run"
    BY <1>8, <2>1 DEF Holds, circuitRuns, inFlight
  <2> QED BY <2>1, <2>2, <2>3, OverIs, OverKeeps DEF Holds, circuitRuns
<1>9. ASSUME NEW q \in Query, DeadlinePasses(q) \/ ClientLeaves(q) PROVE FALSE
  BY <1>8, <1>9 DEF DeadlinePasses, ClientLeaves
<1>10. ASSUME NEW q \in Query, Forget(q) PROVE FALSE
  BY <1>1, <1>10, LoserHeld DEF Forget, Holds
<1>11. ASSUME Tick PROVE FALSE
  <2>1. state = "halfopen"
    BY <1>1, <1>11 DEF Tick, circuit!Elapse
  <2>2. PICK p \in Query : Holds(req[p])
    BY <2>1 DEF ProbeHeld, probesInFlight, Holds
  <2>3. req'[p] = [req[p] EXCEPT !.timer = Less(@), !.budget = Less(@), !.left = Less(@),
                                 !.vital = @ \/ waitsForEncrypted(req[p])]
    BY <1>11 DEF Tick
  <2>4. req[p] \in Request
    BY RequestIs
  <2>5. req'[p].at = req[p].at /\ req'[p].prim = req[p].prim /\ req'[p].probe = req[p].probe
    BY <2>3, <2>4 DEF Request
  <2> QED BY <1>1, <2>2, <2>5 DEF Holds, circuitRuns
<1>12. ASSUME UNCHANGED vars PROVE FALSE
  BY <1>12 DEF vars, ProbeHeld, probesInFlight, circuitRuns
<1> QED BY <1>2, <1>3, <1>4, <1>5, <1>6, <1>7, <1>9, <1>10, <1>11, <1>12 DEF Next

-----------------------------------------------------------------------------
(* With the configured times, SERVFAIL reaches a client only if the        *)
(* encrypted resolver failed the request or was slow: the entry handler's  *)
(* deadline leaves room for the threshold of one stand-by and the attempts *)
(* of the circuit (config/mosdns.yaml.tmpl, foreign-mihomo.yaml.tmpl).     *)
THEOREM RefusedOnlyForEncrypted == Spec => []OnlyEncryptedIsVital
BY PacedInvariance, PInvImplies, PTL

(* The fallback in front of Mihomo never pre-empts a circuit call that is  *)
(* still trying, so veladns_decision counts an answer of Mihomo or a       *)
(* fallback, never both, and the reply is what was counted.                *)
THEOREM CountersTellTheReply == Spec => []CountsTellReply
BY PacedInvariance, PInvImplies, PTL

(* A step that leaves the circuit half-open without its probe is that of a *)
(* request whose client left, or which the encrypted resolver failed or    *)
(* kept waiting.                                                           *)
THEOREM ProbeSurvivesMihomo == Spec => ProbeLostOnlyIfSlowOrGone
<1>1. PInv /\ [Next]_vars =>
        [ProbeHeld /\ ~ProbeHeld' =>
            \E q \in probesInFlight : req[q].vital \/ req[q].reply = Gone]_vars
  BY ProbeStep
<1> QED BY <1>1, PacedInvariance, PTL DEF Spec, ProbeLostOnlyIfSlowOrGone

-----------------------------------------------------------------------------
(* A request that is over.                                                 *)

(* The request is forgotten, or its client keeps the reply it has. *)
Final(r, next) ==
    \/ next = Idle
    \/ next.at = "over" /\ next.ask = r.ask /\ next.reply = r.reply

LEMMA CallDoneFinal ==
    ASSUME NEW r \in Request, r.at = "over"
    PROVE  /\ Final(r, circuitDone(r))
           /\ Final(r, count(circuitDone(r), {"fakeip_answer"}))
<1>1. /\ circuitDone(r) \in Request /\ circuitDone(r).at = "over"
      /\ circuitDone(r).ask = r.ask /\ circuitDone(r).reply = r.reply
  <2>1. 0 \in 0 .. Attempts * AttemptTime
    BY PaceNumbers DEF Paces, circuitBudget
  <2> QED BY <2>1 DEF circuitDone, Request
<1>2. {"fakeip_answer"} \in SUBSET Decisions
  BY DEF Decisions
<1> QED BY <1>1, <1>2, CountIs DEF Final

(* Its lookups and timers are gone: only its circuit call can still step. *)
LEMMA OverStep ==
    ASSUME PInv, Next, NEW q \in Query, req[q].at = "over"
    PROVE  Final(req[q], req'[q])
<1>1. /\ req[q] \in Request /\ req[q].stand = "off" /\ ~inFlight(req[q])
      /\ ~waitsForEncrypted(req[q]) /\ req[q] # Idle
  BY RequestIs DEF Paced, Branches, inFlight, waitsForEncrypted, Idle
<1>2. req \in [Query -> Request]
  BY DEF PInv, IInv, RequestsSound
<1>3. CASE Tick
  <2>1. req'[q] = [req[q] EXCEPT !.timer = Less(@), !.budget = Less(@), !.left = Less(@),
                                 !.vital = @ \/ waitsForEncrypted(req[q])]
    BY <1>3, Zenon DEF Tick
  <2> QED BY <1>1, <2>1 DEF Final, Request
<1>4. ASSUME NEW p \in Query, p # q, NEW x, req' = [req EXCEPT ![p] = x]
      PROVE  Final(req[q], req'[q])
  BY <1>2, <1>4 DEF Final
<1>5. ASSUME NEW p \in Query, Arrive(p) PROVE Final(req[q], req'[q])
  <2>1. p # q
    BY <1>1, <1>5 DEF Arrive
  <2>2. \E x : req' = [req EXCEPT ![p] = x]
    BY <1>5 DEF Arrive, goto
  <2> QED BY <1>4, <2>1, <2>2
<1>6. ASSUME NEW p \in Query, RecursiveReturns(p) PROVE Final(req[q], req'[q])
  <2>1. p # q
    BY <1>6 DEF RecursiveReturns
  <2>2. \E x : goto(p, x)
    BY <1>6 DEF RecursiveReturns
  <2>3. \E x : req' = [req EXCEPT ![p] = x]
    BY <2>2 DEF goto
  <2> QED BY <1>4, <2>1, <2>3
<1>7. ASSUME NEW p \in Query, EncryptedAnswers(p) PROVE Final(req[q], req'[q])
  <2>1. p # q
    BY <1>1, <1>7 DEF EncryptedAnswers
  <2>2. \E x : goto(p, x)
    BY <1>7 DEF EncryptedAnswers
  <2>3. \E x : req' = [req EXCEPT ![p] = x]
    BY <2>2 DEF goto
  <2> QED BY <1>4, <2>1, <2>3
<1>8. ASSUME NEW p \in Query, EncryptedFails(p) PROVE Final(req[q], req'[q])
  <2> DEFINE y == [req[p] EXCEPT !.vital = TRUE]
  <2>1. waitsForEncrypted(y)
    BY <1>8 DEF EncryptedFails
  <2>2. p # q
    <3>1. req[p] \in Request
      BY <1>2
    <3>2. y.at = req[p].at /\ y.stand = req[p].stand
      BY <3>1 DEF Request
    <3> HIDE DEF y
    <3> QED BY <1>1, <2>1, <3>2 DEF waitsForEncrypted, inFlight
  <2>3. \E x : req' = [req EXCEPT ![p] = x]
    BY <1>8 DEF EncryptedFails
  <2> QED BY <1>4, <2>2, <2>3
<1>9. ASSUME NEW p \in Query, StandbyStarts(p) PROVE Final(req[q], req'[q])
  <2>1. p # q
    BY <1>1, <1>9 DEF StandbyStarts
  <2>2. \E x : req' = [req EXCEPT ![p] = x]
    BY <1>9 DEF StandbyStarts
  <2> QED BY <1>4, <2>1, <2>2
<1>10. ASSUME NEW p \in Query, MihomoAnswers(p) \/ MihomoFails(p) \/ CallEndsWithContext(p)
       PROVE  Final(req[q], req'[q])
  <2>1. CASE p # q
    <3>1. \E x : req' = [req EXCEPT ![p] = x]
      BY <1>10 DEF MihomoAnswers, MihomoFails, CallEndsWithContext
    <3> QED BY <1>4, <2>1, <3>1
  <2>2. CASE p = q
    <3>1. \E x \in {circuitDone(req[q]), count(circuitDone(req[q]), {"fakeip_answer"})} :
            req' = [req EXCEPT ![q] = x]
      BY <1>1, <1>10, <2>2 DEF MihomoAnswers, MihomoFails, CallEndsWithContext
    <3> QED BY <1>1, <1>2, <3>1, CallDoneFinal
  <2> QED BY <2>1, <2>2
<1>11. ASSUME NEW p \in Query, DeadlinePasses(p) \/ ClientLeaves(p)
       PROVE  Final(req[q], req'[q])
  <2>1. p # q
    BY <1>1, <1>11 DEF DeadlinePasses, ClientLeaves
  <2>2. \E x : req' = [req EXCEPT ![p] = x]
    BY <1>11 DEF DeadlinePasses, ClientLeaves
  <2> QED BY <1>4, <2>1, <2>2
<1>12. ASSUME NEW p \in Query, Forget(p) PROVE Final(req[q], req'[q])
  <2>1. req'[p] = Idle /\ \A r \in Query : r # p => req'[r] = req[r]
    BY <1>2, <1>12 DEF Forget
  <2> QED BY <2>1 DEF Final
<1> QED BY <1>3, <1>5, <1>6, <1>7, <1>8, <1>9, <1>10, <1>11, <1>12 DEF Next

(* A client is answered once: after the entry handler has replied, neither *)
(* a late branch of a fallback nor the circuit call that outlives its      *)
(* request starts another lookup or changes the reply.                     *)
THEOREM RepliedOnce ==
    Spec => [][\A q \in Query : req[q].at = "over" => Final(req[q], req'[q])]_vars
<1>1. PInv /\ [Next]_vars =>
        [\A q \in Query : req[q].at = "over" => Final(req[q], req'[q])]_vars
  BY OverStep
<1> QED BY <1>1, PacedInvariance, PTL DEF Spec
=============================================================================
