----------------------------- MODULE LlmGateway -----------------------------
(***************************************************************************)
(* Calls of language models (services/llm/gateway.py) with the quota of    *)
(* one organization (usage_quota_service.py), the provider chain           *)
(* (provider_service.py) and the circuit breaker of each provider          *)
(* (provider_circuit_breaker.py), which keeps its data in Redis and, as a  *)
(* fallback, in the memory of each process.                                *)
(*                                                                         *)
(* A step ends where a request awaits Redis, the database or the provider. *)
(* Redis may be out of reach, and may forget (expiry of a key, a restart). *)
(* Times count from 1; 0 is "never".  Calls are slots, used again.         *)
(* The rows of provider_configs and the routing policy do not change.      *)
(***************************************************************************)
EXTENDS Integers, Sequences, FiniteSets, SequencesExt

CONSTANTS
  Calls, Processes, Providers,
  Configs,       \* the configurations to start from
  Default,       \* settings.llm_provider
  Threshold,     \* provider_circuit_failure_threshold
  Recovery,      \* provider_circuit_recovery_seconds
  Quota,         \* daily_request_limit
  NoProvider,
  MaxTime,       \* bound on the clock
  MaxFailures,   \* bound on the recorded failures of each provider
  MaxFaults      \* bound on the faults of Redis and the processes

Rows == {"absent", "enabled", "disabled"}
ConfigRecords ==
  [policy : Seq(Providers),               \* <<>> without a policy
   organization : [Providers -> Rows],
   platform : [Providers -> Rows],
   configured : SUBSET Providers,         \* with credentials in the environment
   named : SUBSET Providers]              \* those that callers ask for by name

ASSUME GatewayAssumption ==
  /\ IsFiniteSet(Calls)
  /\ Configs \subseteq ConfigRecords
  /\ Default \in Providers /\ NoProvider \notin Providers
  /\ Threshold \in Nat \ {0} /\ Recovery \in Nat /\ Quota \in Nat \ {0}
  /\ MaxTime \in Nat \ {0} /\ MaxFailures \in [Providers -> Nat] /\ MaxFaults \in Nat

VARIABLES
  now, config,
  stored,      \* the breaker's data in Redis, for each provider
  memory,      \* its copy in each process
  reachable,   \* Redis answers
  faults,      \* how often Redis or a process failed
  failed,      \* failed calls of each provider that were recorded
  usage,       \* committed usage events of the day
  call         \* the requests in flight

breakerVars == <<stored, memory, reachable, faults, failed>>
gatewayVars == <<now, config, breakerVars, usage, call>>

Data == [state : {"closed", "open", "half_open"}, failures : Nat, openedAt : Nat]
NoData == [state |-> "closed", failures |-> 0, openedAt |-> 0]

(* chain: the providers a request has not finished with, loaded: the data  *)
(* it has loaded, outcome: of its provider call                            *)
RequestRecords ==
  [pc : {"idle", "choosing", "reopening", "probing", "calling", "saving", "writing", "answered"},
   process : Processes \cup {NoProvider}, kind : {"answer", "stream"},
   chain : Seq(Providers), loaded : Data,
   outcome : {"none", "success", "transient", "permanent"}]
NoCall == [pc |-> "idle", process |-> NoProvider, kind |-> "answer", chain |-> <<>>,
         loaded |-> NoData, outcome |-> "none"]

GatewayTypeOK ==
  /\ now \in 1..MaxTime
  /\ config \in Configs
  /\ stored \in [Providers -> Data \cup {NoProvider}]
  /\ memory \in [Processes -> [Providers -> Data]]
  /\ reachable \in BOOLEAN
  /\ faults \in 0..MaxFaults
  /\ failed \in [Providers -> Nat]
  /\ usage \in Nat
  /\ call \in [Calls -> RequestRecords]

GatewayInit ==
  /\ now = 1
  /\ config \in Configs
  /\ stored = [p \in Providers |-> NoProvider]
  /\ memory = [s \in Processes |-> [p \in Providers |-> NoData]]
  /\ reachable = TRUE
  /\ faults = 0
  /\ failed = [p \in Providers |-> 0]
  /\ usage = 0
  /\ call = [r \in Calls |-> NoCall]

At(r, label) == call[r].pc = label
Provider(r) == Head(call[r].chain)
Goto(r, label) == call' = [call EXCEPT ![r].pc = label]
Leave(r) == call' = [call EXCEPT ![r] = NoCall]

-----------------------------------------------------------------------------
(* resolve_provider_chain                                                  *)

(* Slips a change of this code could make, for the run to reject: an       *)
(* opening without its time, a limit off by one.                           *)
OpenUntimed(d) ==
  IF d.failures + 1 >= Threshold
    THEN [d EXCEPT !.state = "open", !.failures = @ + 1]
    ELSE [d EXCEPT !.state = "closed", !.failures = @ + 1]
QuotaInclusive == usage <= Quota

(* The policy's providers in order, each once, without the disabled ones;  *)
(* the default when nothing is left, whether it is disabled or not.        *)
PolicyChain ==
  LET Usable(p) == config.organization[p] # "disabled" /\ config.platform[p] # "disabled"
      resolved[n \in 0..Len(config.policy)] ==
        IF n = 0 THEN <<>>
        ELSE LET p == config.policy[n]
             IN IF Usable(p) /\ p \notin ToSet(resolved[n - 1])
                THEN Append(resolved[n - 1], p) ELSE resolved[n - 1]
      chain == resolved[Len(config.policy)]
  IN IF chain = <<>> THEN <<Default>> ELSE chain

(* A provider the caller names is refused only when the organization has   *)
(* disabled it: a supported name needs no row and no enabled platform row. *)
Refused(named) == config.organization[named] = "disabled"

-----------------------------------------------------------------------------
(* ProviderCircuitBreaker                                                  *)

Load(r, p) ==
  IF reachable /\ stored[p] # NoProvider THEN stored[p] ELSE memory[call[r].process][p]

(* _save writes the process's memory and then awaits Redis.                *)
SaveInMemory(r, d) ==
  /\ memory' = [memory EXCEPT ![call[r].process][Provider(r)] = d]
  /\ call' = [call EXCEPT ![r].pc = "writing", ![r].loaded = d]

(* The data that record_success and record_failure save *)
AfterSuccess(d) == [d EXCEPT !.state = "closed", !.failures = 0]
AfterFailure(d) ==
  IF d.failures + 1 >= Threshold
    THEN [state |-> "open", failures |-> d.failures + 1, openedAt |-> now]
    ELSE [d EXCEPT !.state = "closed", !.failures = @ + 1]

Recovered(d) == d.openedAt # 0 /\ now - d.openedAt >= Recovery

-----------------------------------------------------------------------------
(* Calls                                                                   *)

(* The requests that have passed the quota and not ended *)
Admitted == {r \in Calls : call[r].pc # "idle"}

WithinQuota == usage + 1 <= Quota

(* The provider had its turn: the next one is chosen. *)
Proceed(r) ==
  call' = [call EXCEPT ![r].pc = "choosing", ![r].chain = Tail(@),
                     ![r].loaded = NoData, ![r].outcome = "none"]

(* The request has its provider's answer, or the provider of its stream. *)
Answer(r) ==
  call' = [call EXCEPT ![r] =
    [NoCall EXCEPT !.pc = "answered", !.process = call[r].process, !.chain = <<Provider(r)>>]]

(* enforce_quotas and resolve_provider_chain, in any process; a request    *)
(* that is refused stays idle.                                             *)
Enter(r, s, k, named) ==
  /\ At(r, "idle")
  /\ WithinQuota
  /\ named # NoProvider => ~Refused(named)
  /\ call' = [call EXCEPT ![r] =
       [NoCall EXCEPT !.pc = "choosing", !.process = s, !.kind = k,
                    !.chain = IF named = NoProvider THEN PolicyChain ELSE <<named>>]]
  /\ UNCHANGED <<now, config, breakerVars, usage>>

(* is_open reads the state; when it is open it reads the data again.       *)
ReadState(r) ==
  /\ At(r, "choosing")
  /\ call[r].chain # <<>>
  /\ Goto(r, IF Load(r, Provider(r)).state = "open" THEN "reopening" ELSE "calling")
  /\ UNCHANGED <<now, config, breakerVars, usage>>

(* The second read: the provider is allowed after recovery, or skipped.    *)
ReadData(r) ==
  LET d == Load(r, Provider(r))
  IN /\ At(r, "reopening")
     /\ IF Recovered(d)
          THEN call' = [call EXCEPT ![r].pc = "probing", ![r].loaded = d]
          ELSE Proceed(r)
     /\ UNCHANGED <<now, config, breakerVars, usage>>

(* Every caller that finds the recovery time over saves half_open and may  *)
(* call the provider.                                                      *)
HalfOpen(r) ==
  /\ At(r, "probing")
  /\ SaveInMemory(r, [call[r].loaded EXCEPT !.state = "half_open"])
  /\ UNCHANGED <<now, config, stored, reachable, faults, failed, usage>>

(* No provider is left: LLMProviderError, and nothing is committed.        *)
Exhausted(r) ==
  /\ At(r, "choosing")
  /\ call[r].chain = <<>>
  /\ Leave(r)
  /\ UNCHANGED <<now, config, breakerVars, usage>>

(* build_provider raises for a provider without credentials: the request   *)
(* ends there, it does not fall back and records nothing.                  *)
Unconfigured(r) ==
  /\ At(r, "calling")
  /\ Provider(r) \notin config.configured
  /\ Leave(r)
  /\ UNCHANGED <<now, config, breakerVars, usage>>

(* provider.generate returns or raises, what routing retries elsewhere     *)
(* (transient) or what it raises again (permanent), and the breaker's data *)
(* is loaded.                                                              *)
Call(r, o) ==
  /\ At(r, "calling") /\ call[r].kind = "answer"
  /\ Provider(r) \in config.configured
  /\ o # "success" => failed[Provider(r)] < MaxFailures[Provider(r)]
  /\ call' = [call EXCEPT ![r].pc = "saving", ![r].outcome = o, ![r].loaded = Load(r, Provider(r))]
  /\ UNCHANGED <<now, config, breakerVars, usage>>

(* A stream is handed its provider: the breaker is told nothing of it.     *)
OpenStream(r) ==
  /\ At(r, "calling") /\ call[r].kind = "stream"
  /\ Provider(r) \in config.configured
  /\ Answer(r)
  /\ UNCHANGED <<now, config, breakerVars, usage>>

RecordSuccess(r) ==
  /\ At(r, "saving") /\ call[r].outcome = "success"
  /\ SaveInMemory(r, AfterSuccess(call[r].loaded))
  /\ UNCHANGED <<now, config, stored, reachable, faults, failed, usage>>

RecordFailure(r) ==
  LET p == Provider(r)
  IN /\ At(r, "saving") /\ call[r].outcome # "success"
     /\ failed[p] < MaxFailures[p]
     /\ SaveInMemory(r, AfterFailure(call[r].loaded))
     /\ failed' = [failed EXCEPT ![p] = @ + 1]
     /\ UNCHANGED <<now, config, stored, reachable, faults, usage>>

(* What was saved goes to Redis, if it can be reached, and the request on: *)
(* to the provider after half_open, to its answer, to the next provider    *)
(* after a transient failure, or to its end after a permanent one.         *)
WriteRedis(r) ==
  /\ At(r, "writing")
  /\ stored' = IF reachable THEN [stored EXCEPT ![Provider(r)] = call[r].loaded] ELSE stored
  /\ \/ /\ call[r].outcome = "none"
        /\ call' = [call EXCEPT ![r].pc = "calling", ![r].loaded = NoData]
     \/ call[r].outcome = "success" /\ Answer(r)
     \/ call[r].outcome = "transient" /\ Proceed(r)
     \/ call[r].outcome = "permanent" /\ Leave(r)
  /\ UNCHANGED <<now, config, memory, reachable, faults, failed, usage>>

(* record_llm_usage commits with the answer.                               *)
CommitUsage(r) ==
  /\ At(r, "answered")
  /\ usage' = usage + 1
  /\ Leave(r)
  /\ UNCHANGED <<now, config, breakerVars>>

(* A stream that is cancelled or fails, an exception after the call, a     *)
(* lost database: rolled back without a usage event.                       *)
Abort(r) ==
  /\ At(r, "answered")
  /\ Leave(r)
  /\ UNCHANGED <<now, config, breakerVars, usage>>

-----------------------------------------------------------------------------
(* The environment                                                         *)

Tick ==
  /\ now < MaxTime
  /\ now' = now + 1
  /\ UNCHANGED <<config, breakerVars, usage, call>>

(* daily_window_start moves on. *)
NextDay ==
  /\ usage' = 0
  /\ UNCHANGED <<now, config, breakerVars, call>>

Fault == faults < MaxFaults /\ faults' = faults + 1

RedisFails ==
  /\ reachable
  /\ Fault
  /\ reachable' = FALSE
  /\ UNCHANGED <<now, config, stored, memory, failed, usage, call>>

RedisReturns ==
  /\ ~reachable
  /\ reachable' = TRUE
  /\ UNCHANGED <<now, config, stored, memory, faults, failed, usage, call>>

(* A key expires, or Redis starts again without its data. *)
RedisForgets(p) ==
  /\ stored[p] # NoProvider
  /\ Fault
  /\ stored' = [stored EXCEPT ![p] = NoProvider]
  /\ UNCHANGED <<now, config, memory, reachable, failed, usage, call>>

(* A process ends with its memory and its requests, and another starts.    *)
Restart(s) ==
  /\ Fault
  /\ memory' = [memory EXCEPT ![s] = [p \in Providers |-> NoData]]
  /\ call' = [r \in Calls |-> IF call[r].process = s THEN NoCall ELSE call[r]]
  /\ UNCHANGED <<now, config, stored, reachable, failed, usage>>

-----------------------------------------------------------------------------
RequestNext(r) ==
  \/ ReadState(r) \/ ReadData(r) \/ HalfOpen(r) \/ Exhausted(r) \/ Unconfigured(r)
  \/ \E o \in {"success", "transient", "permanent"} : Call(r, o)
  \/ OpenStream(r) \/ RecordSuccess(r) \/ RecordFailure(r) \/ WriteRedis(r)
  \/ CommitUsage(r) \/ Abort(r)

GatewayNext ==
  \/ \E r \in Calls, s \in Processes, k \in {"answer", "stream"},
        named \in config.named \cup {NoProvider} : Enter(r, s, k, named)
  \/ \E r \in Calls : RequestNext(r)
  \/ Tick \/ NextDay \/ RedisFails \/ RedisReturns
  \/ \E p \in Providers : RedisForgets(p)
  \/ \E s \in Processes : Restart(s)

GatewaySpec == GatewayInit /\ [][GatewayNext]_gatewayVars

-----------------------------------------------------------------------------
(* Properties                                                              *)

(* The copies of a provider's breaker data, wherever they are *)
Copies(p) == {memory[s][p] : s \in Processes} \cup ({stored[p]} \ {NoProvider})

(* No circuit opens without cause: whatever saves overtook each other, and *)
(* whatever copies Redis and the processes are left with, a provider is    *)
(* skipped only after Threshold of its calls have failed.                  *)
OpenedByFailures ==
  \A p \in Providers : \A d \in Copies(p) : d.state = "open" => failed[p] >= Threshold

(* No circuit stays open for ever: an open one has a time to recover from, *)
(* and a closed one is below the threshold, so the next failures open it.  *)
OpenCanRecover ==
  \A p \in Providers : \A d \in Copies(p) :
    /\ d.state = "open" => d.openedAt \in 1..now
    /\ d.state = "closed" => d.failures < Threshold

(* Calls that overlap may exceed the quota, since it is checked before     *)
(* the call and charged after it, but never by more than those in flight.  *)
OvershootIsBounded == usage + Cardinality(Admitted) <= Quota + Cardinality(Calls) - 1
=============================================================================
