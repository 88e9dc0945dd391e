----------------------------- MODULE HttpOperation -----------------------------
(***************************************************************************)
(* The HTTP operations of one command (gripsack-fetch/src/http/request.rs, *)
(* with retry.rs, body.rs and gripsack-policy/src/retry_budget.rs), one    *)
(* after the other on one client: up to three attempts, the waits between  *)
(* them, the bytes they may read, the deadline of the whole, and what      *)
(* hosts have said about when to come back.                                *)
(***************************************************************************)
EXTENDS Integers

CONSTANTS
  Host,
  Allowance,     \* OPERATION_NANOSECONDS, in ticks
  Deadlines,     \* how long callers leave an operation, that or less
  WaitBudget,    \* RETRY_WAIT_NANOSECONDS
  Penalty,       \* the wait of a limit that names none
  Delays,        \* what a server may ask for
  Limit,         \* bytes that an operation may read
  MaxTime        \* bound: ticks of the behaviour

Attempts == 3          \* ATTEMPT_LIMIT
Backoff(n) == IF n = 1 THEN 1 ELSE 2
NoDelay == -1
Unknown == -2          \* a reset that is missing or cannot be read
Never   == MaxTime + Allowance + Penalty + 1

VARIABLES
  now,
  cooldown,    \* when each host may be asked again; 0: nothing is known
  op,          \* the operation under way, or the last one
  received,    \* history: bytes its attempts received
  notBefore,   \* history: when the last response allows the next attempt
  told         \* history: when the last limit of each host ends

vars == <<now, cooldown, op, received, notBefore, told>>

AtMost(a, b) == IF a < b THEN a ELSE b
AtLeast(a, b) == IF a > b THEN a ELSE b
Answer == [kind |-> "none", delay |-> NoDelay, from |-> CHOOSE h \in Host : TRUE, at |-> 0]
Fresh == [at |-> "done", host |-> CHOOSE h \in Host : TRUE, end |-> 0, attempts |-> 0,
          waited |-> 0, until |-> 0, left |-> Limit, answer |-> Answer,
          stop |-> "none"]

TypeOK ==
  /\ now \in 0..MaxTime
  /\ cooldown \in [Host -> 0..Never] /\ told \in [Host -> 0..Never]
  /\ op.at \in {"admit", "ready", "flying", "reading", "completing", "judging", "sleeping", "done"}
  /\ op.attempts \in 0..Attempts /\ op.waited \in 0..WaitBudget
  /\ op.end \in 0..MaxTime /\ op.left \in 0..Limit
  /\ op.stop \in {"none", "success", "NonRetryable", "AttemptLimit", "Deadline",
                  "WaitBudget", "ServerCooldown", "UnknownServerDelay", "TooLarge"}
  /\ received \in Nat

Init ==
  /\ now = 0 /\ cooldown = [h \in Host |-> 0] /\ op = Fresh
  /\ received = 0 /\ notBefore = 0 /\ told = [h \in Host |-> 0]

\* Nothing of an operation is kept but how it ended.
Stop(reason) == op' = [Fresh EXCEPT !.host = op.host, !.stop = reason]

-----------------------------------------------------------------------------
\* consume_at, up to its loop: a credential that would leave in the clear and a
\* host that is cooling down are refused before any attempt.
Begin ==
  /\ op.at = "done"
  /\ \E h \in Host, d \in Deadlines, secure \in BOOLEAN :
       /\ now + d < MaxTime
       /\ LET cooling == cooldown[h] > now
              started == [Fresh EXCEPT !.host = h, !.end = now + d] IN
          /\ op' = CASE ~secure -> [started EXCEPT !.stop = "NonRetryable"]
                     [] secure /\ cooling -> [started EXCEPT !.stop = "ServerCooldown"]
                     [] OTHER -> [started EXCEPT !.at = "admit"]
          /\ cooldown' = IF secure /\ ~cooling THEN [cooldown EXCEPT ![h] = 0] ELSE cooldown
  /\ received' = 0 /\ notBefore' = 0
  /\ UNCHANGED <<now, told>>

\* acquire_url_until: a token before the deadline, or none.
Admit ==
  /\ op.at = "admit"
  /\ IF now < op.end THEN op' = [op EXCEPT !.at = "ready", !.answer = Answer] ELSE Stop("Deadline")
  /\ UNCHANGED <<now, cooldown, received, notBefore, told>>

\* RequestBudget::begin over RetryBudget::begin.  It would also wait for the end
\* of the pause, which the sleep before it has already reached.
Launch ==
  /\ op.at = "ready"
  /\ CASE now >= op.end -> Stop("Deadline")
       [] now < op.end /\ op.attempts >= Attempts -> Stop("AttemptLimit")
       [] OTHER -> op' = [op EXCEPT !.at = "flying", !.attempts = @ + 1, !.until = 0]
  /\ UNCHANGED <<now, cooldown, received, notBefore, told>>

\* A response body is read against what the operation may still read.
Read(n) == AtMost(n, op.left)

Statuses == {"limited", "server", "client"}

\* request.call() returns: a body to read, a status, or a failed transport.
\* A redirect may have led to another host.
Respond ==
  /\ op.at = "flying"
  /\ \E kind \in {"body", "limited", "server", "client", "transient", "broken"},
        delay \in Delays \cup {NoDelay, Unknown}, h \in Host, n \in 0..1 :
       /\ kind \notin Statuses => delay = NoDelay /\ n = 0
       /\ op' = [op EXCEPT
            !.at = IF kind = "body" THEN "reading" ELSE "judging",
            !.left = IF kind = "body" THEN @ ELSE @ - Read(n),
            !.answer = [kind |-> kind, from |-> h, at |-> now,
                        delay |-> IF kind = "limited" /\ delay = NoDelay THEN Penalty ELSE delay]]
       /\ received' = IF kind = "body" THEN received ELSE received + Read(n)
  /\ UNCHANGED <<now, cooldown, notBefore, told>>

\* ResponseReader::read and the consumer: the body is whole, cut off, over the
\* limit, refused by the consumer, or too late.
Consume ==
  /\ op.at = "reading"
  /\ \E n \in 0..(op.left + 1), end \in {"whole", "cut", "refused"} :
       /\ received' = received + Read(n)
       /\ CASE now >= op.end ->
                 n = 0 /\ op' = [op EXCEPT !.at = "judging", !.answer.kind = "transient"]
            [] now < op.end /\ (n > op.left \/ end = "refused") -> Stop("NonRetryable")
            [] now < op.end /\ n <= op.left /\ end = "cut" ->
                 op' = [op EXCEPT !.at = "judging", !.answer.kind = "transient",
                                  !.left = @ - n]
            [] OTHER -> op' = [op EXCEPT !.at = "completing", !.left = @ - n]
  /\ UNCHANGED <<now, cooldown, notBefore, told>>

\* RequestBudget::complete, when the consumer has returned.
Complete ==
  /\ op.at = "completing"
  /\ Stop(IF now < op.end THEN "success" ELSE "Deadline")
  /\ UNCHANGED <<now, cooldown, received, notBefore, told>>

\* What the delay of an answer is still worth.
Wait(a) == IF a.delay < 0 THEN a.delay ELSE AtLeast(0, a.delay - (now - a.at))

\* Evidence counts for the host that gave it.
Cool(a) ==
  IF a.kind # "limited" THEN cooldown
  ELSE [cooldown EXCEPT ![a.from] = IF Wait(a) = Unknown THEN Never ELSE now + Wait(a)]

Retryable(kind) == kind \in {"limited", "server", "transient"}

BackoffOnly(a) == Backoff(op.attempts)   \* mutant: the server is not listened to
Pause(a) == AtLeast(Backoff(op.attempts), Wait(a))

Spare == WaitBudget - op.waited

\* RequestBudget::decide over RetryBudget::decide, and the match on it.
Judge ==
  /\ op.at = "judging"
  /\ LET a == op.answer
         pause == Pause(a)
         reason ==
           CASE Wait(a) = Unknown -> "UnknownServerDelay"
             [] now >= op.end -> "Deadline"
             [] ~Retryable(a.kind) -> "NonRetryable"
             [] op.attempts >= Attempts -> "AttemptLimit"
             [] pause > Spare -> "WaitBudget"
             [] now + pause >= op.end -> "Deadline"
             [] op.left = 0 -> "TooLarge"
             [] OTHER -> "none" IN
     /\ cooldown' = Cool(a)
     /\ told' = IF a.kind = "limited"
                THEN [told EXCEPT ![a.from] = IF a.delay = Unknown THEN Never
                                              ELSE a.at + a.delay] ELSE told
     /\ notBefore' = AtLeast(now + Backoff(op.attempts), a.at + a.delay)
     /\ IF reason # "none" THEN Stop(reason)
        ELSE op' = [op EXCEPT !.at = "sleeping", !.until = now + pause,
                              !.waited = @ + pause]
  /\ UNCHANGED <<now, received>>

Wake ==
  /\ op.at = "sleeping" /\ now >= op.until
  /\ op' = [op EXCEPT !.at = "admit"]
  /\ UNCHANGED <<now, cooldown, received, notBefore, told>>

\* A request carries the rest of the deadline as its timeout; a consumer may
\* take longer.
Tick ==
  /\ now < MaxTime
  /\ op.at = "flying" => now < op.end
  /\ now' = now + 1
  /\ UNCHANGED <<cooldown, op, received, notBefore, told>>

Work ==
  \/ Admit \/ Launch \/ Respond \/ Consume \/ Complete \/ Judge \/ Wake

Next == Begin \/ Work \/ Tick

Spec == Init /\ [][Next]_vars /\ WF_vars(Work) /\ WF_vars(Tick)

-----------------------------------------------------------------------------
\* No attempt is made before the backoff is over, nor before the time that the
\* last answer, or the last limit of the host, asked for: neither by the same
\* operation nor by a later one (plan/0044, "honor Retry-After/reset evidence
\* as a lower bound").
NoEarlyRequest ==
  [][op'.attempts > op.attempts => now >= notBefore /\ now >= told[op.host]]_vars

\* A host is refused unasked only for what it said itself, however many
\* redirects lie between (plan/0044: a failure "on another forge does not
\* globally block healthy hosts").
HealthyHostsAreServed ==
  [][op'.stop = "ServerCooldown" /\ op'.at = "done" /\ op # op' => told[op'.host] > now]_vars

\* An operation succeeds before its deadline and within its bytes, whatever its
\* attempts before spent of both (plan/0044, "count actual bytes across retries
\* against one acquisition budget").
SuccessIsWithinBudget ==
  [][op.stop = "none" /\ op'.stop = "success" => now < op.end /\ received <= Limit]_vars

\* Every operation comes to an end, under one deadline for all its attempts.
EveryOperationEnds == op.at # "done" ~> op.at = "done"
===============================================================================
