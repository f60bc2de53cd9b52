------------------------------- MODULE MCZlib -------------------------------
(***************************************************************************)
(* The compression library on small instances.  part says which of its     *)
(* four machines a behaviour is about; the others rest.                    *)
(***************************************************************************)
EXTENDS Zstream, Gzfile

VARIABLE part

D == <<97, 98, 99, 97, 98, 99, 97, 98, 99, 100, 97, 98, 99, 97>>
R == [k \in 1 .. 26 |-> 200]

W(data, flush) == [op |-> "write", data |-> data, flush |-> flush]
Job(level, strategy, wrap, steps, hurts) ==
  [level |-> level, strategy |-> strategy, wrap |-> wrap, head |-> <<>>, dict |-> <<>>,
   tune |-> <<>>, prime |-> <<>>, steps |-> steps, hurts |-> hurts]
Header ==
  [text |-> TRUE, hcrc |-> TRUE, time |-> <<1, 2, 3, 4>>, os |-> 3, extra |-> <<7, 0, 7>>,
   name |-> <<110, 97>>, comment |-> <<99>>]

MCJobs ==
  { Job(6, 0, 1, <<W(D, Z_SYNC_FLUSH), W(R \o D, Z_FINISH)>>, {"none", "cut", "sum"}),
    [Job(1, 0, 2, <<W(D, Z_NO_FLUSH), W(D, Z_PARTIAL_FLUSH), W(R, Z_FINISH)>>, {"none", "sum"})
       EXCEPT !.head = <<Header>>],
    Job(0, 0, 1, <<W(R, Z_FULL_FLUSH), W(D, Z_FINISH)>>, {"none"}),
    Job(6, 2, 1, <<W(D \o R \o <<1>>, Z_NO_FLUSH), W(R, Z_FULL_FLUSH), W(D, Z_FINISH)>>, {"none"}),
    Job(6, 0, 0, <<W(D, Z_FULL_FLUSH), W(D, Z_FINISH)>>, {"none", "join"}),
    [Job(6, 0, 1, <<W(D, Z_FINISH)>>, {"none"}) EXCEPT !.dict = SubSeq(D, 1, 9)],
    [Job(6, 0, 0, <<W(D, Z_FINISH)>>, {"none"}) EXCEPT !.dict = SubSeq(D, 1, 5),
                                                       !.tune = <<8, 5, 4, 4>>],
    [Job(6, 1, 0, <<W(D \o D, Z_FINISH)>>, {"none"}) EXCEPT !.prime = <<3, 5>>],
    Job(1, 0, 1, <<W(D, Z_NO_FLUSH), [op |-> "params", level |-> 6, strategy |-> 0],
                   W(D \o D \o D, Z_FINISH)>>, {"none"}),
    Job(2, 0, 1, <<W(D \o D \o R \o D \o D, Z_FINISH)>>, {"none"}),
    Job(5, 0, 2, <<W(D \o D \o R \o D \o D, Z_FINISH)>>, {"none"}),
    Job(0, 0, 0, <<W(D \o R \o R, Z_NO_FLUSH), [op |-> "params", level |-> 6, strategy |-> 1],
                   W(D \o D \o R, Z_FINISH)>>, {"none"}),
    Job(9, 3, 2, <<W(R \o D, Z_NO_FLUSH), W(<<>>, Z_FINISH)>>, {"none"}),
    Job(4, 4, 1, <<W(D \o R \o D, Z_FINISH)>>, {"none"}) }


\* Data whose bytes are all different does not get shorter.
N == [k \in 1 .. 21 |-> (k * k * 7 + 11 * k) % 251]
L == <<97, 98, 99, 97, 98, 99, 97, 98, 99, 10, 97, 98, 99, 97>>
C(op, data) == [op |-> op, data |-> data]
Script(level, calls, media) ==
  [level |-> level, strategy |-> 0, calls |-> calls, media |-> media]

MCScripts ==
  { Script(6, <<C("write", L), C("flush", <<>>) @@ [flush |-> Z_SYNC_FLUSH],
                C("puts", N)>>, {"one", "two", "cut", "plain"}),
    Script(1, <<C("write", N), C("putc", <<5>>), C("seek", [k \in 1 .. 20 |-> 0]),
                C("printf", L)>>, {"one", "tail", "short"}),
    Script(0, <<C("write", N), C("params", <<>>) @@ [level |-> 6, strategy |-> 0],
                C("write", L \o N)>>, {"one", "two"}) }

MCStops == {<<0, 0>>} \cup (1 .. 4) \X {0, 1}
MCSources == {<<L, 6>>, <<SubSeq(N, 1, 6), 0>>, <<N, 9>>, <<L, 1>>}
MCPieces == {<<0>>, <<240>>, <<1, 2, 3>>, <<255, 0, 128, 7, 9>>, [k \in 1 .. 256 |-> 255]}

----------------------------------------------------------------------------
AJob == CHOOSE j \in MCJobs : j.level = 4
AScript == CHOOSE c \in MCScripts : c.level = 6

MCInit ==
  \/ part = "stream" /\ ZInit /\ GzInit /\ script = AScript /\ g.fail = 0 /\ ~ g.failed /\ DigestInit /\ CodesInit
  \/ part = "file" /\ GzInit /\ ZInit /\ job = AJob /\ room = Plenty /\ DigestInit /\ CodesInit
  \/ /\ part \in {"digest", "codes"} /\ DigestInit /\ CodesInit
     /\ ZInit /\ job = AJob /\ room = Plenty /\ GzInit /\ script = AScript /\ g.fail = 0 /\ ~ g.failed

MCNext ==
  /\ UNCHANGED part
  /\ \/ part = "stream" /\ ZNext /\ UNCHANGED <<gz_vars, digest_vars, code_vars>>
     \/ part = "file" /\ GzNext /\ UNCHANGED <<z_vars, digest_vars, code_vars>>
     \/ part = "digest" /\ DigestNext /\ UNCHANGED <<z_vars, gz_vars, code_vars>>
     \/ part = "codes" /\ CodesNext /\ UNCHANGED <<z_vars, gz_vars, digest_vars>>

MCSpec == MCInit /\ [][MCNext]_<<part, z_vars, gz_vars, digest_vars, code_vars>>
=============================================================================
