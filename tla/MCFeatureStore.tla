--------------------------- MODULE MCFeatureStore ---------------------------
(***************************************************************************)
(* Small instances of FeatureStore.  Two snapshots of different profiles   *)
(* share their raw bytes; d1 and d2 are datasets over the first; the run   *)
(* m1 scores both datasets and m2 only d1, so they share the report on d1. *)
(***************************************************************************)
EXTENDS FeatureStore

CONSTANTS s1, s2, d1, d2, m1, m2,
          raw, data1, data2, desc1, desc2, report1, report2, job1, job2,
          ingest1, ingest2, ingest3, build1, publish1, publish2

MCFiles ==
  [x \in Items |->
     CASE x \in Snapshots -> {raw}
       [] x = d1 -> {data1}
       [] x = d2 -> {data2}
       [] x = m1 -> {desc1, report1, report2} \cap Address
       [] x = m2 -> {desc2, report1}]

MCInputs ==
  [x \in Items |->
     CASE x \in Snapshots -> {}
       [] x \in Datasets -> {s1}
       [] x = m1 -> Datasets
       [] x = m2 -> {d1}]

\* Publishers have rows of their own, but for two ingests of the same file ...
MCTarget ==
  [p \in Publishers |->
     CASE p \in {ingest1, ingest3} -> s1 [] p = ingest2 -> s2 [] p = build1 -> d1
       [] p = publish1 -> m1 [] p = publish2 -> m2]

\* ... or publishers of a kind compete for one.
MCSameTarget ==
  [p \in Publishers |->
     CASE p \in Ingesters -> s1 [] p \in Builders -> d1 [] p \in ModelPublishers -> m1]

MCJobOf == [p \in Ingesters |-> IF p = ingest2 /\ job2 \in Jobs THEN job2 ELSE job1]

\* A bound for the runs about models: the removal of raw and dataset bytes,
\* which the source runs cover, never falls due.
ModelFocus ==
  /\ \A a \in SourceAddresses : ~elapsed[a]
  /\ \A c \in Cleaners : at[c] \subseteq ModelAddresses
=============================================================================
