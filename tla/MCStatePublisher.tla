-------------------------- MODULE MCStatePublisher --------------------------
EXTENDS StatePublisher

CONSTANTS state, weld

VARIABLE traffic

MCUserCfgs == {[tag |-> Uninit, port |-> Uninit, checked |-> TRUE],
               [tag |-> 4, port |-> 11003, checked |-> TRUE]}
mcvars == <<vars, traffic>>

MCInit ==
  /\ PubInit /\ traffic \in BOOLEAN
  /\ ~traffic => \A t \in Tags : line[t].st = "idle" /\ port[t] = DefPort

\* Two slices of the behaviours: everything happens but the signals stand still,
\* or the signals change and, once the publisher is in its loop, nothing else
\* does.
Calm == {"auto", "servo", "relay", "ros"}
Startup == (PubStart \/ Main(Pub) \/ Configure(Pub) \/ Dial(Pub)) /\ ~InLoop

MCNext ==
  /\ Next /\ UNCHANGED traffic
  /\ IF traffic THEN env' \in {{}, Calm} ELSE UNCHANGED tagVars \/ Startup

MCSpec == MCInit /\ [][MCNext]_mcvars /\ Fairness
=============================================================================
