------------------------------- MODULE Throttle -------------------------------
(***************************************************************************)
(* The pacing of one rate-limited domain (crates/gripsack-fetch/src/       *)
(* throttle.rs over crates/gripsack-policy/src/rate_limit.rs): a token     *)
(* bucket that a command loads when it starts and saves when it ends, and  *)
(* in between asks for tokens.  A command is one thread; commands that     *)
(* overlap are not paced together (plan/0007, 4c) and are left out.        *)
(*                                                                         *)
(* A rate [n, p] is n tokens in p ticks.  Credits count a token as p, so   *)
(* that a tick earns n of them and the arithmetic is exact.  Waiting goes  *)
(* by the steady clock, refilling by the wall clock, which may be set      *)
(* back.                                                                   *)
(***************************************************************************)
EXTENDS Integers, FiniteSets

CONSTANTS
  Rates,       \* the rates the domain is declared with
  NoBucket,
  Patience,    \* ticks an operation has for all its waits
  MaxTime      \* bound: ticks of the behaviour

VARIABLES
  elapsed,     \* the steady clock
  wall,        \* the wall clock
  saved,       \* throttle.json: credits, their period and their time
  source,      \* who declared the domain to the command: "default", "user", "plugin"
  bucket,      \* the bucket the command has in memory
  ask,         \* what the command is doing about the domain
  ideal,       \* history: one bucket, of the most generous rate, for them all
  lost         \* history: why the commands do not share one budget

vars == <<elapsed, wall, saved, source, bucket, ask, ideal, lost>>

Least(a, b) == IF a < b THEN a ELSE b
Capacity(r) == r.n * r.p
Ratio(a, b) == (a + b - 1) \div b          \* rounded up

Grain == CHOOSE g \in 1..100 : \A r \in Rates : g % r.p = 0
Most(f(_)) == CHOOSE m \in {f(r) : r \in Rates} : \A r \in Rates : f(r) <= m
Burst == LET N(r) == r.n IN Most(N)
Earned == LET PerTick(r) == (r.n * Grain) \div r.p IN Most(PerTick)

Idle == [at |-> "idle", until |-> 0, deadline |-> 0]

TypeOK ==
  /\ elapsed \in 0..MaxTime /\ wall \in 0..(MaxTime + 1)
  /\ saved # NoBucket => saved.credits \in Nat /\ saved.updated \in 0..(MaxTime + 1)
  /\ source \in {"off", "default", "user", "plugin"}
  /\ bucket # NoBucket =>
       bucket.rate \in Rates /\ bucket.credits \in 0..Capacity(bucket.rate)
  /\ ask.at \in {"idle", "declare", "acquire"}
  /\ ideal \in 0..(Burst * Grain)
  /\ lost \subseteq {"forgotten", "undeclared"}

Init ==
  /\ elapsed = 0 /\ wall = 1 /\ saved = NoBucket
  /\ source = "off" /\ bucket = NoBucket /\ ask = Idle
  /\ ideal = Burst * Grain /\ lost = {}

Full(rate) == [rate |-> rate, credits |-> Capacity(rate), updated |-> wall]

\* rescale_capped: the balance survives a change of rate, rounded down.
Rescale(credits, period, rate) ==
  Least(Capacity(rate), (credits * rate.p) \div period)

Restored(rate) ==
  IF saved = NoBucket THEN Full(rate)
  ELSE [rate |-> rate, credits |-> Rescale(saved.credits, saved.period, rate),
        updated |-> saved.updated]

\* Throttle::new: only a domain that is known by then is restored.
Start ==
  /\ source = "off" /\ elapsed + Patience <= MaxTime
  /\ \E s \in {"default", "user", "plugin"}, rate \in Rates :
       /\ source' = s
       /\ bucket' = IF s = "plugin" THEN NoBucket ELSE Restored(rate)
       /\ lost' = lost \cup (IF s = "plugin" THEN {"undeclared"} ELSE {})
  /\ UNCHANGED <<elapsed, wall, saved, ask, ideal>>

\* acquire_url_until, acquire_declared_until
Ask ==
  /\ source # "off" /\ ask.at = "idle"
  /\ elapsed + Patience <= MaxTime
  /\ \E at \in {"declare", "acquire"} :
       ask' = [at |-> at, until |-> elapsed, deadline |-> elapsed + Patience]
  /\ UNCHANGED <<elapsed, wall, saved, source, bucket, ideal, lost>>

\* register_before: a plugin's rate replaces a default, never the user's.
Declare ==
  /\ ask.at = "declare"
  /\ LET inTime == elapsed < ask.deadline IN
     /\ ask' = IF inTime THEN [ask EXCEPT !.at = "acquire"] ELSE Idle
     /\ \E rate \in Rates :
          bucket' = CASE source = "user" \/ ~inTime -> bucket
                      [] bucket = NoBucket -> Full(rate)
                      [] OTHER -> [bucket EXCEPT !.rate = rate,
                                     !.credits = Rescale(@, bucket.rate.p, rate)]
  /\ UNCHANGED <<elapsed, wall, saved, source, ideal, lost>>

RefillAgain(b) ==   \* mutant: the interval is not closed
  IF wall < b.updated THEN b
  ELSE [b EXCEPT !.credits = Least(Capacity(b.rate), @ + b.rate.n * (wall - b.updated))]
\* Bucket::refill: nothing moves when the wall clock is behind.
Refill(b) ==
  IF wall < b.updated THEN b
  ELSE [b EXCEPT !.credits = Least(Capacity(b.rate), @ + b.rate.n * (wall - b.updated)),
                 !.updated = wall]

\* One round of acquire_before: a token, a wait that ends before the
\* deadline, or a refusal.
Attempt ==
  /\ ask.at = "acquire" /\ elapsed >= ask.until /\ bucket # NoBucket
  /\ LET b == Refill(bucket)
         inTime == elapsed < ask.deadline
         granted == inTime /\ b.credits >= b.rate.p
         wait == Ratio(b.rate.p - b.credits, b.rate.n) IN
     /\ bucket' = CASE granted -> [b EXCEPT !.credits = @ - b.rate.p]
                    [] inTime /\ ~granted -> b
                    [] OTHER -> bucket
     /\ ask' = IF ~granted /\ inTime /\ elapsed + wait < ask.deadline
               THEN [ask EXCEPT !.until = elapsed + wait] ELSE Idle
     /\ ideal' = IF granted /\ ideal >= Grain THEN ideal - Grain ELSE ideal
  /\ UNCHANGED <<elapsed, wall, saved, source, lost>>

\* A domain that nobody declared is not throttled.
PassUnknown ==
  /\ ask.at = "acquire" /\ bucket = NoBucket
  /\ ask' = Idle
  /\ UNCHANGED <<elapsed, wall, saved, source, bucket, ideal, lost>>

Ends ==
  /\ source' = "off" /\ bucket' = NoBucket
  /\ ask' = Idle
  /\ UNCHANGED <<elapsed, wall>>

\* save_global: the file is replaced by what this command has in memory.
Save ==
  /\ source # "off" /\ ask = Idle
  /\ saved' = IF bucket = NoBucket THEN NoBucket
              ELSE [credits |-> bucket.credits, period |-> bucket.rate.p,
                    updated |-> bucket.updated]
  /\ Ends /\ UNCHANGED <<ideal, lost>>

\* A command that is killed, or fails before its work began, does not save.
Forget ==
  /\ source # "off"
  /\ lost' = lost \cup {"forgotten"}
  /\ Ends /\ UNCHANGED <<saved, ideal>>

Tick ==
  /\ elapsed < MaxTime
  /\ elapsed' = elapsed + 1 /\ wall' = wall + 1
  /\ ideal' = Least(Burst * Grain, ideal + Earned)
  /\ UNCHANGED <<saved, source, bucket, ask, lost>>

\* The wall clock is set back, once.
SetBack ==
  /\ wall = elapsed + 1 /\ elapsed < MaxTime
  /\ wall' \in 0..(wall - 1)
  /\ UNCHANGED <<elapsed, saved, source, bucket, ask, ideal, lost>>

Asking == Declare \/ Attempt \/ PassUnknown

Next ==
  \/ Start \/ Ask \/ Asking \/ Save \/ Forget
  \/ Tick \/ SetBack

Granted ==
  /\ ask.at = "acquire" /\ ask' = Idle /\ elapsed < ask.deadline
  /\ bucket # NoBucket /\ bucket' # NoBucket
  /\ bucket'.credits < Refill(bucket).credits

\* Commands that follow each other and end with a save never take more than
\* one bucket of the most generous rate would give them, whatever rates they
\* declare and the wall clock does (throttle.rs: "back-to-back applies share
\* one budget").  What breaks the sharing is named in `lost'.
RunsArePaced ==
  [][Granted /\ lost = {} => ideal >= Grain]_vars

\* Whoever asks for a token is told, at the latest at the deadline of its
\* operation (throttle.rs, acquire_before).
EveryAskEnds == ask # Idle ~> ask = Idle

Fairness == WF_vars(Tick) /\ WF_vars(Asking)

Spec == Init /\ [][Next]_vars /\ Fairness
===============================================================================
