-------------------------- MODULE MCKnowledgeBase ---------------------------
(* KnowledgeBase for TLC. *)
EXTENDS KnowledgeBase, TLC

CONSTANTS a1, a2, o1, o2, o3, o4

MCTwo == {a1, a2}
MCFour == {o1, o2, o3, o4}
MCText == {"v1", "v2", ""}
MCBlank == ""

\* Three operations one after the other, in any order: an approval and two
\* others of any kind; texts that are never blank, embeddings that fail in
\* any way.
MCSerial ==
    {[plan |-> (o1 :> "approve") @@ (o2 :> k[1]) @@ (o3 :> k[2]),
      texts |-> {"v1", "v2"}, failures |-> {"down", "garbled"}, active |-> 1, edits |-> 1] :
        k \in {<<"approve", "approve">>, <<"approve", "reject">>, <<"approve", "ingest">>,
               <<"approve", "reingestAll">>, <<"reject", "reject">>, <<"reject", "ingest">>,
               <<"reject", "reingestAll">>, <<"ingest", "ingest">>,
               <<"ingest", "reingestAll">>, <<"reingestAll", "reingestAll">>}}

\* Two approvals and what may overlap with them, two at a time: a third one and
\* a rejection, two bulk ingestions, or one of them and an ingestion by name;
\* some articles are blank, the provider goes down or does not.
MCOverlapping ==
    {[plan |-> (o1 :> "approve") @@ (o2 :> "approve") @@ (o3 :> k[1]) @@ (o4 :> k[2]),
      texts |-> {"v1", ""}, failures |-> k[4], active |-> 2, edits |-> k[3]] :
        k \in {<<"approve", "reject", 1, {"down"}>>, <<"reingestAll", "reingestAll", 0, {}>>,
               <<"ingest", "reingestAll", 0, {"down"}>>}}

MCSettings == MCSerial \cup MCOverlapping
=============================================================================
