------------------------------- MODULE MCEdge -------------------------------
(* TLC instances of Edge: retries of one event, an id that two platforms   *)
(* use, subscribers, the limits of the intake, and digests.                *)
EXTENDS Edge

CONSTANTS W, D, group, number, topic, other, alice, bob

Ann == [platform |-> W, id |-> alice]
Bob == [platform |-> W, id |-> bob]

ShapeOf == (group :> W) @@ (number :> D) @@ (topic :> None) @@ (other :> W)
On(p, r) == [platform |-> p, remote |-> r]
Linked == ("one" :> {Ann}) @@ ("both" :> {Ann, Bob})
Seen == (Ann :> {group}) @@ (Bob :> {})

Event(name, id, rooms, platform, keys) ==
  [name |-> name, id |-> id, rooms |-> rooms, platform |-> platform, keys |-> keys, media |-> FALSE, account |-> None, signed |-> TRUE]
Media(name, id, account) == [Event(name, id, <<>>, None, {"src"}) EXCEPT !.media = TRUE, !.account = account]

Nothing == [faults |-> 0, commands |-> 0, stops |-> 0, crashes |-> 0, outages |-> 0, ticks |-> 0, meets |-> 0,
            polls |-> 0, fails |-> 0, items |-> 0, hours |-> 0, unwires |-> 0, restarts |-> 0]
Scene(events, sends, budget) == [events |-> events, sends |-> sends, conns |-> Conns, commands |-> {}, known |-> {}, left |-> budget @@ Nothing]

Retried == Scene({Event("push", "id1", <<group, other>>, None, {"src"})}, 3,
                 [faults |-> 1, crashes |-> 1, outages |-> 1, stops |-> 2, ticks |-> 1])

Shared == [Scene({Event("push", "id1", <<number>>, None, {"src"}), Event("build", "id2", <<topic, number>>, D, {"src"})}, 1,
                 [meets |-> 3, ticks |-> 0]) EXCEPT !.known = {On(W, number)}]

Unknown == Scene({Event("push", "id1", <<topic>>, None, {"src"}), Event("pull", None, <<group, number, other>>, None, {"src"})}, 2, [meets |-> 2, outages |-> 1])

Command(here, action, remote) == [here |-> here, action |-> action, remote |-> remote]
Subscribers ==
  [Scene({Media("added", None, "both"), Media("failed", "id7", "one"), Media("noise", "id8", None)}, 1, [commands |-> 3, faults |-> 1])
     EXCEPT !.commands = {Command(group, "add", group), Command(other, "add", group), Command(group, "remove", group)}]

Sources ==
  [Scene({Event("a", None, <<group>>, W, {"src", "ip"}), Event("b", None, <<group>>, W, {"src2", "ip"})}, 3, [ticks |-> 4]) EXCEPT !.conns = {1}]

Signed ==
  [Scene({Event("c", "id3", <<group>>, W, {"src3"}), [Event("d", "id3", <<group>>, W, {"src"}) EXCEPT !.signed = FALSE]}, 3, [ticks |-> 4]) EXCEPT !.conns = {1}]

Remembered == Scene({Event(e, e, <<group>>, W, {k}) : <<e, k>> \in {<<"a", "src">>, <<"b", "src2">>, <<"c", "src3">>}}, 2, [ticks |-> 1])

Daily == Scene({}, 0, [polls |-> 4, fails |-> 2, hours |-> 3, unwires |-> 1, restarts |-> 1])

Weekly ==
  [Scene({}, 0, [commands |-> 1, polls |-> 3, fails |-> 1, items |-> 1, hours |-> 5])
     EXCEPT !.commands = {Command(group, "add", group)}]

Nightly == {Daily}

Cast == {Retried, Shared, Unknown, Subscribers, Sources, Signed, Remembered, Daily, Weekly}

Configured == <<number>>
Old == {On(W, topic)}
TwoUsers == {Ann, Bob}
JustBob == {Bob}
=============================================================================
