---------------------------- MODULE MCKeyService ----------------------------
(* Small instances of KeyService for TLC: two clients, with one assignment of *)
(* jobs for each unordered pair of them, as the clients are otherwise alike.  *)
EXTENDS KeyService, TLC, SequencesExt

CONSTANTS p1, p2, k1, k2, a, v, w

Job(method, data, port, conns, rpcs) ==
  [method |-> method, data |-> data, port |-> port, conns |-> conns, rpcs |-> rpcs]

\* The assignments of two jobs of a sequence, the first no later in it.
Unordered(jobs) ==
  {(k1 :> jobs[mn[1]] @@ k2 :> jobs[mn[2]]) :
     mn \in {q \in (DOMAIN jobs) \X (DOMAIN jobs) : q[1] <= q[2]}}

\* Readers and writers of one key on two ports.
StoreAssignments ==
  Unordered(<<Job("write", <<a, v>>, p1, 1, 1), Job("write", <<a, w>>, p2, 1, 1),
              Job("read", <<a>>, p1, 1, 1), Job("read", <<a>>, p2, 1, 1)>>)

\* What the client of this repository sends to one port, with several
\* connections and requests; and what another program on the same library may
\* send: a write that does not parse, an unknown method, a bad mark.
OwnJobs ==
  <<Job("ping", <<v>>, p1, 1, 2), Job("write", <<a, v>>, p1, 2, 1),
    Job("read", <<a>>, p1, 1, 1), Job("quit", <<>>, p1, 1, 2)>>

OtherJobs ==
  <<Job("write", <<a>>, p1, 1, 1), Job("other", <<v>>, p1, 1, 1),
    Job("badmark", <<v>>, p1, 1, 1)>>

\* One client at least is of this repository.
MethodAssignments ==
  {run \in Unordered(OwnJobs \o OtherJobs) : run[k1] \in Range(OwnJobs)}
=============================================================================
