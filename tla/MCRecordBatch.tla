--------------------------- MODULE MCRecordBatch ---------------------------
(* Batches of up to three records with few kinds of events, for the loop,    *)
(* and single messages with every kind of event, for the parser.             *)
EXTENDS RecordBatch

CONSTANTS id1, id2, j1

Sound == [eventName |-> "created", bucket |-> "documents", key |-> DocumentKey(j1),
          size |-> "positive", eTag |-> "text", sequencer |-> "text", versionId |-> "text"]

\* Some keys an object may have, canonical or not.
TheKeys ==
    [space : {"none", "before", "after"},
     path : {<<"documents", x, y>> : x \in Segments, y \in {"source.txt", "my-source.txt"}}
              \union {<<Empty>>, <<"documents", "source.txt">>, <<j1, j1, "source.txt">>,
                      <<"documents", j1, j1, "source.txt">>, <<"documents", j1, j1>>}]

TheRecords == {[Sound EXCEPT !.key = k] : k \in TheKeys}
              \union [eventName : {"created", "other", "invalid"},
                      bucket : {"documents", "other", "invalid"},
                      key : {DocumentKey(j1)},
                      size : {"zero", "positive", "negative", "boolean", "invalid"},
                      eTag : Optionals, sequencer : Optionals, versionId : Optionals]

FewRecords == {Sound, [Sound EXCEPT !.size = "negative"]}

BodiesOf(records) == {<<>>} \union {<<r>> : r \in records}
                            \union {<<r, s>> : r, s \in FewRecords}

QueueRecordsOf(records) == [id : MessageId \union {NoMessageId}, body : BodiesOf(records)]

TheBatch == UNION {[1 .. n -> QueueRecordsOf(FewRecords)] : n \in 0 .. 3}
              \union [{1} -> [id : {id1}, body : BodiesOf(TheRecords)]]
============================================================================
