------------------------------ MODULE Transport ------------------------------
(***************************************************************************)
(* The in-memory transport (src/src/core/transport.cpp): a table of        *)
(* subscribers under a mutex, which several threads use.  publish copies   *)
(* the callbacks of its key under the mutex and calls them after giving it *)
(* back, one by one; a callback may itself subscribe, unsubscribe and      *)
(* publish.                                                                *)
(*                                                                         *)
(* A thread is the stack of its calls of publish.  User code runs in it    *)
(* when the stack is empty or the innermost publish is inside a callback.  *)
(* subscribe, remove and isActive take and give back the mutex in one      *)
(* step; they wait while another thread copies.  Handles are owned by user *)
(* code, never by a callback.                                              *)
(***************************************************************************)
EXTENDS TransportKeys, FiniteSets, SequencesExt

CONSTANTS
    Threads,
    Requests,                     \* the TransportKeyFields users build their keys from
    \* Bounds of the model:
    MaxId, MaxMessages, MaxDepth

ASSUME TransportAssumption ==
    /\ IsFiniteSet(Threads) /\ IsFiniteSet(Requests)
    /\ \A f \in Requests :
          f = [session_id |-> f.session_id, task_id |-> f.task_id,
               channel |-> f.channel, schema_id |-> f.schema_id]
    /\ MaxId \in Nat /\ MaxMessages \in Nat /\ MaxDepth \in Nat

VARIABLES
    subscribers,     \* subscribers_: key -> sequence of ids; no entry when there are none
    next_id,         \* next_id_
    mutex,           \* who holds mutex_, or NoThread
    alive,           \* the transport has not been destroyed
    frames,          \* thread -> its calls of publish, innermost last, each entering,
                     \* copying under the mutex, calling callbacks or running one
    handles,         \* the Subscription objects in use: <<key, id>>
    \* History:
    fields_of,       \* id -> the fields it was subscribed with
    messages,        \* the fields of every message published, in order
    called,          \* message -> the ids called with it, in order
    removed          \* the ids taken off the table

table == <<subscribers, next_id>>
history == <<fields_of, messages, called, removed>>
vars == <<table, mutex, alive, frames, handles, history>>

NoThread == "none"

-----------------------------------------------------------------------------
ids(key) == IF key \in DOMAIN subscribers THEN subscribers[key] ELSE << >>

\* Mutant: the subscriber that came last is left out.
callbacksButLast(key) == IF ids(key) = << >> THEN << >> ELSE Front(ids(key))

\* What publish copies.
callbacks(key) == ids(key)

innermost(t) == frames[t][Len(frames[t])]

at(t, stage) == frames[t] # << >> /\ innermost(t).stage = stage

inUserCode(t) == frames[t] = << >> \/ at(t, "running")

replaceInnermost(t, f) == [frames EXCEPT ![t][Len(frames[t])] = f]

Init ==
    /\ subscribers = [k \in {} |-> << >>]
    /\ next_id = 1
    /\ mutex = NoThread
    /\ alive = TRUE
    /\ frames = [t \in Threads |-> << >>]
    /\ handles = {}
    /\ fields_of = << >> /\ messages = << >> /\ called = << >>
    /\ removed = {}

\* subscribe with the key of these fields.  With an empty callback or a key that is not
\* valid it returns no handle and changes nothing.
subscribe(t, f) ==
    LET key == buildTaskSampleKey(f)
    IN  /\ alive /\ inUserCode(t) /\ mutex = NoThread /\ next_id <= MaxId
        /\ validateTaskSampleKey(key)
        /\ subscribers' = [k \in DOMAIN subscribers \cup {key} |->
                              IF k = key THEN Append(ids(key), next_id) ELSE subscribers[k]]
        /\ next_id' = next_id + 1
        /\ handles' = handles \cup {<<key, next_id>>}
        /\ fields_of' = Append(fields_of, f)
        /\ UNCHANGED <<mutex, alive, frames, messages, called, removed>>

\* Mutant: the subscriber removed is the oldest of the key.
remainingOldestGone(key, id) == IF ids(key) = << >> THEN << >> ELSE Tail(ids(key))

\* An id is given once, so the first subscriber that has it is the only one.
remaining(key, id) == RemoveFirst(ids(key), id)

\* The table without this subscriber; the entry of the key goes with the last one.
remove(key, id) ==
    [k \in {j \in DOMAIN subscribers : j = key => remaining(key, id) # << >>} |->
        IF k = key THEN remaining(key, id) ELSE subscribers[k]]

\* unsubscribe on a handle, which may be repeated, or its destruction, which ends it.
\* Both are without effect once the transport, or the subscriber, is gone.
unsubscribe(t, h, destroyed) ==
    /\ inUserCode(t) /\ mutex = NoThread
    /\ subscribers' = remove(h[1], h[2])
    /\ handles' = IF destroyed THEN handles \ {h} ELSE handles
    /\ removed' = removed \cup {h[2]}
    /\ UNCHANGED <<next_id, mutex, alive, frames, fields_of, messages, called>>

\* publish up to the mutex.  With a key that is not valid it returns false here.
publish(t, f) ==
    /\ alive /\ inUserCode(t)
    /\ Len(messages) < MaxMessages /\ Len(frames[t]) < MaxDepth
    /\ validateTaskSampleKey(buildTaskSampleKey(f))
    /\ frames' = [frames EXCEPT ![t] =
                     Append(@, [message |-> Len(messages) + 1, stage |-> "entering",
                                callbacks |-> << >>])]
    /\ messages' = Append(messages, f)
    /\ called' = Append(called, << >>)
    /\ UNCHANGED <<table, mutex, alive, handles, fields_of, removed>>

\* The callbacks of the key are copied under the mutex.
copyCallbacks(t) ==
    LET f == innermost(t)
    IN  /\ at(t, "entering") /\ mutex = NoThread
        /\ mutex' = t
        /\ frames' = replaceInnermost(t, [f EXCEPT !.stage = "copying",
                     !.callbacks = callbacks(buildTaskSampleKey(messages[f.message]))])
        /\ UNCHANGED <<table, alive, handles, history>>

\* Mutant: the mutex is not given back before the callbacks are called.
unlockLater(t) == mutex' = mutex

\* The end of the block that holds the lock_guard.
unlock(t) == mutex' = NoThread

leaveBlock(t) ==
    /\ at(t, "copying")
    /\ unlock(t)
    /\ frames' = replaceInnermost(t, [innermost(t) EXCEPT !.stage = "calling"])
    /\ UNCHANGED <<table, alive, handles, history>>

callback(t) ==
    LET f == innermost(t)
    IN  /\ at(t, "calling") /\ f.callbacks # << >>
        /\ frames' = replaceInnermost(t, [f EXCEPT !.stage = "running", !.callbacks = Tail(@)])
        /\ called' = [called EXCEPT ![f.message] = Append(@, Head(f.callbacks))]
        /\ UNCHANGED <<table, mutex, alive, handles, fields_of, messages, removed>>

\* The callback returns to publish (external: user code).
CallbackReturns(t) ==
    /\ at(t, "running")
    /\ frames' = replaceInnermost(t, [innermost(t) EXCEPT !.stage = "calling"])
    /\ UNCHANGED <<table, mutex, alive, handles, history>>

publishReturns(t) ==
    /\ at(t, "calling") /\ innermost(t).callbacks = << >>
    /\ frames' = [frames EXCEPT ![t] = Front(@)]
    /\ UNCHANGED <<table, mutex, alive, handles, history>>

\* The transport is destroyed, which its user may do when no call is under way.  The
\* handles stay; their weak pointer has no owner from now on.
destroy ==
    /\ alive /\ \A t \in Threads : frames[t] = << >>
    /\ alive' = FALSE
    /\ subscribers' = [k \in {} |-> << >>]
    /\ UNCHANGED <<next_id, mutex, frames, handles, history>>

Next ==
    \/ \E t \in Threads :
        \/ \E f \in Requests : subscribe(t, f) \/ publish(t, f)
        \/ \E h \in handles, destroyed \in BOOLEAN : unsubscribe(t, h, destroyed)
        \/ copyCallbacks(t) \/ leaveBlock(t) \/ callback(t)
        \/ CallbackReturns(t) \/ publishReturns(t)
    \/ destroy

Spec == Init /\ [][Next]_vars

\* A thread inside publish goes on when it can, and callbacks return.
FairSpec ==
    /\ Spec
    /\ \A t \in Threads :
          /\ WF_vars(copyCallbacks(t))
          /\ WF_vars(leaveBlock(t))
          /\ WF_vars(callback(t))
          /\ WF_vars(CallbackReturns(t))
          /\ WF_vars(publishReturns(t))

-----------------------------------------------------------------------------
(* Properties                                                              *)

\* While the transport lives its table holds exactly the subscribers that were not
\* removed, each under the key of the fields it asked for: no subscription is lost by the
\* removal of another, and none comes back (remove, ~Subscription).
TableMatchesHandles ==
    alive => \A id \in 1 .. next_id - 1 : \A k \in DOMAIN subscribers \cup
                                              {buildTaskSampleKey(fields_of[id])} :
        (id \in ToSet(ids(k))) <=>
            (id \notin removed /\ buildTaskSampleKey(fields_of[id]) = k)

\* The calls of publish for message m that have not returned: one or none.
framesOf(m) ==
    {f \in UNION {ToSet(frames[t]) : t \in Threads} : f.message = m}

\* The transport as its users see it.  A post is taken when its callbacks are copied, and
\* owed to the callbacks still to be called.
topics == {f \in Requests : validateTaskSampleKey(buildTaskSampleKey(f))}

membersNow == [f \in topics |-> ids(buildTaskSampleKey(f))]

postsNow ==
    [m \in DOMAIN messages |->
        [topic |-> messages[m],
         taken |-> \A f \in framesOf(m) : f.stage # "entering",
         owed  |-> IF framesOf(m) = {} THEN << >>
                   ELSE (CHOOSE f \in framesOf(m) : TRUE).callbacks,
         done  |-> called[m]]]

Users == INSTANCE Broadcast WITH
    Topics <- topics, members <- membersNow, posts <- postsNow

\* Every run of the threads is one of the broadcast: there is one instant between the
\* start and the end of a publish whose subscribers are called, all of them before it
\* returns, each once, and nothing that callbacks or other threads do to the table or to
\* other keys shows in it (publish copies under the mutex and calls without it).  Topics
\* are the four fields, so this holds for keys as docs/04_test_acceptance_standards.md:55
\* asks: "dispatches only to subscribers on the exact same key".
IsBroadcast == Users!Spec

\* Every publish returns: the mutex is not held while callbacks run, so a callback that
\* publishes or a thread that waits for its turn is not locked out.
EveryPublishReturns ==
    \A t \in Threads : (frames[t] # << >>) ~> (frames[t] = << >>)

=============================================================================
