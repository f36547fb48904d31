--------------------------- MODULE MCDatasetIngest ---------------------------
EXTENDS DatasetIngest, DatasetProducers

CONSTANT DatasetsPerProducer   \* bound: datasets looked at of a producer's list

\* The producer with the first datasets of its list, of so many items each.
WithItems(p, items) ==
    [p EXCEPT !.datasets =
        [i \in 1..(IF Len(@) < DatasetsPerProducer THEN Len(@) ELSE DatasetsPerProducer) |->
            [key |-> @[i].key, reads |-> @[i].reads, short |-> @[i].short, items |-> items]]]

\* Every producer alone: two periodic saves of the most frequent ones, one save and
\* an item after it of the others; and two producers of different kinds together.
Alone == {WithItems(p, IF Len(p.datasets) = 1 THEN 3 ELSE 2) : p \in MainProducers}
Together == {WithItems(process_am_if_r1_2pass, 2), WithItems(process_truthful_qa, 2)}

MCSubmitted == {{p} : p \in Alone} \union {Together}
=============================================================================
