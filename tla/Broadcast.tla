------------------------------ MODULE Broadcast ------------------------------
(***************************************************************************)
(* What the transport promises its users, without mutex, threads, handles  *)
(* or keys: a post on a topic goes to those who are members at one instant *)
(* between its start and its end, to each once and in the order in which   *)
(* they joined; what joins, leaves or is posted meanwhile, on this or any  *)
(* other topic, makes no difference to it.  Transport implements this      *)
(* module.                                                                 *)
(***************************************************************************)
EXTENDS Integers, Sequences, SequencesExt

CONSTANT Topics

VARIABLES
    members,     \* topic -> its members, in the order in which they joined
    posts        \* what was posted: [topic, taken, owed, done]

vars == <<members, posts>>

Init ==
    /\ members = [c \in Topics |-> << >>]
    /\ posts = << >>

\* Somebody who is a member nowhere joins one topic.
Join(c) ==
    /\ members'[c] # << >>
    /\ \A d \in Topics : Last(members'[c]) \notin ToSet(members[d])
    /\ members' = [members EXCEPT ![c] = Append(@, Last(members'[c]))]
    /\ UNCHANGED posts

Leave(c) ==
    /\ \E s \in ToSet(members[c]) :
          members' = [members EXCEPT ![c] = RemoveFirst(@, s)]
    /\ UNCHANGED posts

Post(c) ==
    /\ posts' = Append(posts, [topic |-> c, taken |-> FALSE, owed |-> << >>, done |-> << >>])
    /\ UNCHANGED members

\* The instant that decides who gets the post.
Take(m) ==
    /\ ~ posts[m].taken
    /\ posts' = [posts EXCEPT ![m].taken = TRUE, ![m].owed = members[posts[m].topic]]
    /\ UNCHANGED members

Hand(m) ==
    /\ posts[m].owed # << >>
    /\ posts' = [posts EXCEPT ![m].owed = Tail(@),
                              ![m].done = Append(@, Head(posts[m].owed))]
    /\ UNCHANGED members

\* Everybody leaves at once.
Close ==
    /\ members' = [c \in Topics |-> << >>]
    /\ UNCHANGED posts

Next ==
    \/ \E c \in Topics : Join(c) \/ Leave(c) \/ Post(c)
    \/ \E m \in DOMAIN posts : Take(m) \/ Hand(m)
    \/ Close

Spec == Init /\ [][Next]_vars

=============================================================================
