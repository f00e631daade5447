------------------------------ MODULE Webhooks ------------------------------
(***************************************************************************)
(* From a domain event to the webhooks of its user: the dispatcher routes  *)
(* and broadcasts the event and adds one job for every active hook that    *)
(* subscribes to its type; the webhook worker posts it.                    *)
(*                                                                         *)
(* The queues (BullMQ, external) run a job again after an error while it   *)
(* has attempts left, and once after its worker stalled or crashed; a job  *)
(* whose id was already added is not added again, finished or not.         *)
(***************************************************************************)
EXTENDS Integers

CONSTANTS
  Hooks,          \* webhook subscriptions of one user
  Events,         \* domain events of that user
  TypeOf,         \* the type of each event
  ValidEvents,    \* the types createWebhook lets a client ask for
  Asks,           \* the sets of types clients ask for
  Star,           \* the subscription to every type
  EventAttempts,  \* attempts of a domain event
  HookAttempts,   \* attempts of a webhook job
  MaxStalls,      \* stalls a job survives
  MaxHookBreaks   \* bound: errors and stalls

ASSUME WebhooksAssumption ==
  /\ Star \in ValidEvents /\ Star \notin {TypeOf[e] : e \in Events}
  /\ {EventAttempts, HookAttempts} \subseteq Nat \ {0}
  /\ {MaxStalls, MaxHookBreaks} \subseteq Nat

VARIABLES
  hookRows,   \* each hook: the types it subscribes to, {} when there is no row
  eventJobs,  \* the job of each event
  hookJobs,   \* the job of each hook and event
  posts,      \* history: how often the event was posted to the hook
  arrived,    \* history: the pairs whose receiver got the event
  owed,       \* history: the pairs dispatched for a hook that wants the event and is kept
  hookBreaks

webhooksVars == <<hookRows, eventJobs, hookJobs, posts, arrived, owed, hookBreaks>>

Pairs == Hooks \X Events

NoJob == [state |-> "none", errors |-> 0, stalls |-> 0]

WebhooksInit ==
  /\ hookRows = [h \in Hooks |-> {}] /\ hookJobs = [p \in Pairs |-> NoJob]
  /\ eventJobs = [e \in Events |-> [job |-> NoJob, rest |-> {}]]
  /\ posts = [p \in Pairs |-> 0] /\ arrived = {} /\ owed = {} /\ hookBreaks = 0

-----------------------------------------------------------------------------
\* WebhooksController.

\* Mutant: what a client asks for is taken as it is.
GrantedAsAsked(asked) == asked

\* Types that cannot be asked for are dropped, and a request without any left
\* subscribes to every type.
Granted(asked) ==
  IF asked \cap ValidEvents = {} THEN {Star} ELSE asked \cap ValidEvents

CreateWebhook(h) ==
  /\ hookRows[h] = {} /\ \A e \in Events : hookJobs[<<h, e>>] = NoJob
  /\ \E asked \in Asks : hookRows' = [hookRows EXCEPT ![h] = Granted(asked)]
  /\ UNCHANGED <<eventJobs, hookJobs, posts, arrived, owed, hookBreaks>>

DeleteWebhook(h) ==
  /\ hookRows[h] # {} /\ hookRows' = [hookRows EXCEPT ![h] = {}]
  /\ owed' = owed \ ({h} \X Events)
  /\ UNCHANGED <<eventJobs, hookJobs, posts, arrived, hookBreaks>>

Wants(h, e) == {TypeOf[e], Star} \cap hookRows[h] # {}

-----------------------------------------------------------------------------
\* Queues.

Broken == hookBreaks < MaxHookBreaks /\ hookBreaks' = hookBreaks + 1

InState(j, s) == [j EXCEPT !.state = s]

AfterError(j, attempts) ==
  [j EXCEPT !.errors = @ + 1, !.state = IF j.errors + 1 < attempts THEN "queued" ELSE "failed"]

AfterStall(j) ==
  [j EXCEPT !.stalls = @ + 1, !.state = IF j.stalls < MaxStalls THEN "queued" ELSE "failed"]

\* Mutant: a job that is finished may be added again.
AddedAgain(j) == IF j.state \in {"none", "done", "failed"} THEN InState(NoJob, "queued") ELSE j

\* The id of the job names the hook and the event.
Added(j) == IF j = NoJob THEN InState(j, "queued") ELSE j

-----------------------------------------------------------------------------
\* DomainEventDispatcherWorker.

Publish(e) ==
  /\ eventJobs[e].job = NoJob
  /\ eventJobs' = [eventJobs EXCEPT ![e].job = InState(@, "queued")]
  /\ UNCHANGED <<hookRows, hookJobs, posts, arrived, owed, hookBreaks>>

Listed(e) == {h \in Hooks : Wants(h, e)}

Dispatch(e) ==
  /\ eventJobs[e].job.state = "queued"
  /\ eventJobs' = [eventJobs EXCEPT ![e].job = InState(@, "routing")]
  /\ owed' = owed \cup (Listed(e) \X {e})
  /\ UNCHANGED <<hookRows, hookJobs, posts, arrived, hookBreaks>>

\* Routed and broadcast; a duplicate of a routed event goes on, too.  Then the
\* active hooks of the user are read.
ListHooks(e) ==
  /\ eventJobs[e].job.state = "routing"
  /\ eventJobs' =
       [eventJobs EXCEPT ![e] = [job |-> InState(@.job, "adding"), rest |-> Listed(e)]]
  /\ UNCHANGED <<hookRows, hookJobs, posts, arrived, owed, hookBreaks>>

AddJob(e, h) ==
  /\ eventJobs[e].job.state = "adding" /\ h \in eventJobs[e].rest
  /\ hookJobs' = [hookJobs EXCEPT ![<<h, e>>] = Added(@)]
  /\ eventJobs' = [eventJobs EXCEPT ![e].rest = @ \ {h}]
  /\ UNCHANGED <<hookRows, posts, arrived, owed, hookBreaks>>

Dispatched(e) ==
  /\ eventJobs[e].job.state = "adding" /\ eventJobs[e].rest = {}
  /\ eventJobs' = [eventJobs EXCEPT ![e].job = InState(@, "done")]
  /\ UNCHANGED <<hookRows, hookJobs, posts, arrived, owed, hookBreaks>>

\* Mutant: a dispatch that fails in the middle counts as done.
AfterDispatchError(j) ==
  IF j.state = "adding" THEN InState(j, "done") ELSE AfterError(j, EventAttempts)

\* An error anywhere before the end, or the worker stalls.
DispatchError(j) == AfterError(j, EventAttempts)

DispatchBreaks(e) ==
  /\ eventJobs[e].job.state \in {"routing", "adding"}
  /\ \E j \in {DispatchError(eventJobs[e].job), AfterStall(eventJobs[e].job)} :
       eventJobs' = [eventJobs EXCEPT ![e] = [job |-> j, rest |-> {}]]
  /\ Broken
  /\ UNCHANGED <<hookRows, hookJobs, posts, arrived, owed>>

-----------------------------------------------------------------------------
\* WebhookWorker.

\* The hook is read; one that is gone ends the job.
ReadHook(h, e) ==
  /\ hookJobs[<<h, e>>].state = "queued"
  /\ hookJobs' =
       [hookJobs EXCEPT ![<<h, e>>] = InState(@, IF hookRows[h] = {} THEN "done" ELSE "read")]
  /\ UNCHANGED <<hookRows, eventJobs, posts, arrived, owed, hookBreaks>>

Post(h, e) ==
  /\ hookJobs[<<h, e>>].state = "read"
  /\ hookJobs' = [hookJobs EXCEPT ![<<h, e>>] = InState(@, "posted")]
  /\ posts' = [posts EXCEPT ![<<h, e>>] = @ + 1]
  /\ UNCHANGED <<hookRows, eventJobs, arrived, owed, hookBreaks>>

\* The answer is a success; or it is not, or does not come within five seconds
\* though the event may have arrived.
Delivered(h, e) ==
  /\ hookJobs[<<h, e>>].state = "posted"
  /\ hookJobs' = [hookJobs EXCEPT ![<<h, e>>] = InState(@, "done")]
  /\ arrived' = arrived \cup {<<h, e>>}
  /\ UNCHANGED <<hookRows, eventJobs, posts, owed, hookBreaks>>

PostBreaks(h, e) ==
  /\ hookJobs[<<h, e>>].state \in {"read", "posted"}
  /\ \E j \in {AfterError(hookJobs[<<h, e>>], HookAttempts), AfterStall(hookJobs[<<h, e>>])} :
       hookJobs' = [hookJobs EXCEPT ![<<h, e>>] = j]
  /\ arrived' \in {arrived, arrived \cup {p \in {<<h, e>>} : hookJobs[p].state = "posted"}}
  /\ Broken
  /\ UNCHANGED <<hookRows, eventJobs, posts, owed>>

WebhooksNext ==
  \/ \E h \in Hooks : CreateWebhook(h) \/ DeleteWebhook(h)
  \/ \E e \in Events :
       Publish(e) \/ Dispatch(e) \/ ListHooks(e) \/ Dispatched(e) \/ DispatchBreaks(e)
  \/ \E h \in Hooks, e \in Events :
       AddJob(e, h) \/ ReadHook(h, e) \/ Post(h, e) \/ Delivered(h, e) \/ PostBreaks(h, e)

WebhooksSpec == WebhooksInit /\ [][WebhooksNext]_webhooksVars

-----------------------------------------------------------------------------
JobStates == {"none", "queued", "routing", "adding", "read", "posted", "done", "failed"}

Jobs == [state : JobStates, errors : Nat, stalls : Nat]

WebhooksTypeOK ==
  /\ hookRows \in [Hooks -> SUBSET ValidEvents]
  /\ eventJobs \in [Events -> [job : Jobs, rest : SUBSET Hooks]]
  /\ hookJobs \in [Pairs -> Jobs] /\ posts \in [Pairs -> Nat] /\ {arrived, owed} \subseteq SUBSET Pairs
  /\ hookBreaks \in 0 .. MaxHookBreaks

\* However often the dispatcher repeats an event, a hook is posted it as often
\* as its own job may run and no more: five attempts, and one for each stall
\* (the job id webhook_<hook>_<event> of the dispatcher).
PostsAreBounded ==
  \A p \in Pairs : posts[p] <= HookAttempts + MaxStalls

\* An event that was published while a hook wanted it reaches the hook, unless
\* the hook is deleted or one of the two jobs used up its attempts: a crash or
\* an error between two hooks of the dispatcher's loop loses none of them.
EventReachesEveryHook ==
  <>[](\A h \in Hooks, e \in Events :
         <<h, e>> \in owed \/ (eventJobs[e].job.state = "queued" /\ Wants(h, e))
           => <<h, e>> \in arrived \/ "failed" \in {eventJobs[e].job.state, hookJobs[<<h, e>>].state})
=============================================================================
