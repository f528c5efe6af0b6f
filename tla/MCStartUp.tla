------------------------------- MODULE MCStartUp -------------------------------
(* Profiles for the run of StartUp.                                        *)
EXTENDS StartUp

Must == [retry |-> FALSE, exit |-> TRUE]
Should == [retry |-> TRUE, exit |-> FALSE]
Await == [retry |-> TRUE, exit |-> TRUE]

Info(class, id) == [class |-> class, id |-> id]
A1 == Info("a", 1)
A2 == Info("a", 2)
B1 == Info("b", 1)

Profile(infos, checks) ==
  [yaml |-> TRUE, parses |-> TRUE, matches |-> TRUE, decodes |-> TRUE, redfish |-> TRUE,
   infos |-> infos, checks |-> checks, dumps |-> <<[maxRetries |-> 3, budget |-> 2]>>]

Sound == Profile(<<A1, A2, B1>>, <<Must, Should>>)
Waiting == [Profile(<<A1>>, <<Await>>) EXCEPT !.redfish = FALSE]
Doubled == Profile(<<B1, A1, A2, A1>>, <<>>)
Split == Profile(<<A1, B1, A1>>, <<>>)
Greedy == [Profile(<<A1>>, <<>>) EXCEPT !.dumps = @ \o <<[maxRetries |-> 0, budget |-> 2]>>]
Stubborn == [Profile(<<A1>>, <<>>) EXCEPT !.dumps[1].maxRetries = 11]
Foreign == [Doubled EXCEPT !.matches = FALSE]
Opaque == [Sound EXCEPT !.decodes = FALSE]
Broken == [Sound EXCEPT !.parses = FALSE]
Note == [Sound EXCEPT !.yaml = FALSE]

Directories ==
  { <<Note, Broken, Sound>>, <<Foreign, Waiting>>, <<Doubled, Sound>>,
    <<Waiting, Sound>>, <<Split>>, <<Opaque, Sound>>,
    <<Greedy>>, <<Stubborn>>, <<Foreign>> }
================================================================================
