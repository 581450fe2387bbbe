------------------------------ MODULE RemoteOutputs ------------------------------
(***************************************************************************)
(* The outputs that give the points to a service: influxdb, mongodb,       *)
(* elasticsearch, kwollect-output and opentelemetry send each buffer in    *)
(* one request; prometheus-exporter keeps the last values, which a server  *)
(* of its own encodes when it is asked, in another thread.                 *)
(***************************************************************************)
EXTENDS Integers, Sequences, SequencesExt, FiniteSets

CONSTANTS
    RemoteKinds,      \* outputs: a subset of those above
    RemoteKeys,       \* names of attributes, some those of columns of the services; "consumer"
                      \* is for the kinds and ids of the resource and of the consumer; none
                      \* begins with the prefix of the attributes that are renamed
    RemoteTags,       \* choices of the attributes that influxdb stores as tags
    RemoteBuffers,    \* buffers of points [metric, attrs, value]
    MaxRemoteWrites   \* bound: writes

\* A metric's name is no separator of the line protocol: they are escaped in it.
ASSUME RemoteAssumption ==
    /\ RemoteKinds \subseteq {"influxdb", "mongodb", "elasticsearch", "kwollect",
                              "opentelemetry", "prometheus"}
    /\ IsFiniteSet(RemoteKeys) /\ RemoteTags \subseteq SUBSET RemoteKeys
    /\ \A b \in RemoteBuffers :
          /\ b \in Seq({b[i] : i \in DOMAIN b})
          /\ \A i \in DOMAIN b : DOMAIN b[i].attrs \subseteq RemoteKeys /\ b[i].metric \notin {"space", "newline"}

VARIABLES
    remote,       \* kind of the output, state, and the attributes that are tags of influxdb or
                  \* labels of opentelemetry and prometheus
    remoteWrites,
    requests,     \* sequences of rows that the service has stored, with their points
    dropped,      \* points of requests that have failed
    prom,         \* gauges by series, points of the current write, the whole ones, the server
    scraped       \* what the last scrape has read, and the gauges after the last whole write

remoteVars == <<remote, remoteWrites, requests, dropped, prom, scraped>>

NoSeries == <<>>      \* the function without a series
NoProm == [gauges |-> NoSeries, todo |-> <<>>, whole |-> NoSeries, up |-> FALSE, locked |-> FALSE]

RemoteInit ==
    /\ remote \in [kind : RemoteKinds, state : {"new"}, tags : RemoteTags \union {{}, RemoteKeys}]
    /\ CASE remote.kind = "influxdb" -> remote.tags \in RemoteTags
         [] remote.kind \in {"opentelemetry", "prometheus"} -> remote.tags \in {{}, RemoteKeys}
         [] OTHER -> remote.tags = {}
    /\ remoteWrites = 0 /\ requests = <<>> /\ dropped = 0
    /\ prom = NoProm /\ scraped = <<NoSeries, NoSeries>>

-------------------------------------------------------------------------------
(* The rows: sequences of pairs, a column and its value; the reader of a       *)
(* document with the same key twice keeps the last one.  influxdb has two      *)
(* places for columns, the tags and the fields of a line, the others have one. *)

Place(k, tags, key) == IF k # "influxdb" THEN k ELSE IF key \in tags THEN "tag" ELSE "field"

\* Mutant of Reserved: the field of the value is not reserved.
ReservedTags(place) ==
    CASE place = "tag" -> {"consumer"} [] place = "mongodb" -> {"measurement", "consumer", "value"}
      [] place = "elasticsearch" -> {"timestamp", "consumer"} [] OTHER -> {}

\* RESERVED_TAGS and RESERVED_FIELD, RESERVED_FIELDS, RESERVED_KEYS: attributes with these
\* names are renamed.
Reserved(place) ==
    CASE place = "tag" -> {"consumer"} [] place = "field" -> {"value"}
      [] place = "mongodb" -> {"measurement", "consumer", "value"}
      [] place = "elasticsearch" -> {"timestamp", "consumer"} [] OTHER -> {}

\* ensure_valid_tag_key, ensure_valid_field_key and their likes.
Column(k, tags, key) ==
    LET place == Place(k, tags, key) IN
    <<place, IF key \in Reserved(place) THEN "renamed" ELSE "own", key>>

\* The attributes that are written: LineProtocolBuilder::tag leaves an empty tag out, and
\* opentelemetry has the attributes if its configuration says so.
Shown(k, tags, p) ==
    CASE k = "influxdb" -> {key \in DOMAIN p.attrs : key \in tags => p.attrs[key] # ""}
      [] k = "opentelemetry" -> DOMAIN p.attrs \intersect tags [] OTHER -> DOMAIN p.attrs

\* What is written of a value.
Text(k, value) == IF k = "opentelemetry" /\ value = "" THEN "empty" ELSE value

Attributes(k, tags, p) ==
    LET keys == SetToSeq(Shown(k, tags, p)) IN
    [i \in DOMAIN keys |-> <<Column(k, tags, keys[i]), Text(k, p.attrs[keys[i]])>>]

Own(place, column, value) == <<<<place, "own", column>>, value>>

Someone(place) == Own(place, "consumer", "someone")

\* InfluxDbOutput::write, tags and fields together.
InfluxRow(tags, p) ==
    <<Someone("tag")>> \o Attributes("influxdb", tags, p) \o <<Own("field", "value", p.value)>>

\* MongoDbOutput::write: an insertion into a document replaces the one with the same key.
MongoRow(tags, p) ==
    <<Own("mongodb", "measurement", p.metric), Someone("mongodb")>> \o Attributes("mongodb", tags, p)
        \o <<Own("mongodb", "value", p.value), Own("mongodb", "timestamp", "now")>>

\* DocMeasurement::serialize.
ElasticRow(tags, p) ==
    <<Own("elasticsearch", "timestamp", "now"), Someone("elasticsearch"),
      Own("elasticsearch", "value", p.value)>> \o Attributes("elasticsearch", tags, p)

\* The labels of a measure of kwollect; its value is apart from them.
KwollectLabels(tags, p) == <<Someone("kwollect")>> \o Attributes("kwollect", tags, p)

\* The attributes of a data point of opentelemetry; its value is apart from them.
OtelAttributes(tags, p) == <<Someone("opentelemetry")>> \o Attributes("opentelemetry", tags, p)

RowOf(k, tags, p) ==
    CASE k = "influxdb" -> InfluxRow(tags, p) [] k = "mongodb" -> MongoRow(tags, p)
      [] k = "elasticsearch" -> ElasticRow(tags, p) [] k = "kwollect" -> KwollectLabels(tags, p)
      [] OTHER -> OtelAttributes(tags, p)

ReadColumn(row, c) ==
    LET at == {i \in DOMAIN row : row[i][1] = c} IN
    IF at = {} THEN "none" ELSE row[CHOOSE i \in at : \A j \in at : j =< i][2]

-------------------------------------------------------------------------------
(* The line protocol of influxdb: sequences of tokens, three of which are the  *)
(* separators "comma", "space" and "newline".                                  *)

\* Mutant of Measurement: the flag of the first field is not cleared by the next line.
MeasurementNoReset(b, name) ==
    [buf |-> b.buf \o (IF b.field THEN <<"newline">> ELSE <<>>) \o <<name>>, field |-> b.field]

\* LineProtocolBuilder::measurement.
Measurement(b, name) ==
    [buf |-> b.buf \o (IF b.field THEN <<"newline">> ELSE <<>>) \o <<name>>, field |-> FALSE]

Tag(b) == [b EXCEPT !.buf = @ \o <<"comma", "tag">>]
Field(b) == [buf |-> b.buf \o (IF b.field THEN <<"comma">> ELSE <<"space">>) \o <<"field">>, field |-> TRUE]
TimestampOf(b) == [b EXCEPT !.buf = @ \o <<"space", "timestamp">>]

\* Loops that add n tags, or n fields.
Tags(b, n) == LET done[i \in 0..n] == IF i = 0 THEN b ELSE Tag(done[i - 1]) IN done[n]
Fields(b, n) == LET done[i \in 0..n] == IF i = 0 THEN b ELSE Field(done[i - 1]) IN done[n]

\* The line of a point: the consumer and some attributes as tags, the others and the value as
\* fields, and the timestamp.  An attribute as a tag has no empty value.
WriteLine(b, p) ==
    LET tags == {k \in DOMAIN p.attrs \intersect remote.tags : p.attrs[k] # ""}
        fields == DOMAIN p.attrs \ remote.tags
        tagged == Tags(Measurement(b, p.metric), Cardinality(tags) + 1)
    IN TimestampOf(Fields(tagged, Cardinality(fields) + 1))

\* InfluxDbOutput::write: the lines of the points.
LineProtocol(points) ==
    LET done[i \in 0..Len(points)] ==
            IF i = 0 THEN [buf |-> <<>>, field |-> FALSE] ELSE WriteLine(done[i - 1], points[i])
    IN done[Len(points)].buf

-------------------------------------------------------------------------------
(* The requests.                                                               *)

Started(state) ==
    /\ remote.state = "new"
    /\ remote' = [remote EXCEPT !.state = state]
    /\ UNCHANGED <<remoteWrites, requests, dropped, scraped>>

\* InfluxDbPlugin::start writes nothing, in order to test the connection.
StartInflux(answers) ==
    /\ remote.kind = "influxdb" /\ Started(IF answers THEN "runs" ELSE "refused")
    /\ UNCHANGED prom

\* MongoDbPlugin::start inserts an empty document, and unwraps the result.
StartMongo(answers) ==
    /\ remote.kind = "mongodb" /\ Started(IF answers THEN "runs" ELSE "panicked")
    /\ UNCHANGED prom

\* ElasticSearchPlugin::start creates the template of the indices.
StartElastic(answers) ==
    /\ remote.kind = "elasticsearch" /\ Started(IF answers THEN "runs" ELSE "refused")
    /\ UNCHANGED prom

\* KwollectPlugin::start and OpenTelemetryPlugin::start do not connect to anything.
StartUnchecked ==
    /\ remote.kind \in {"kwollect", "opentelemetry"} /\ Started("runs")
    /\ UNCHANGED prom

\* PrometheusPlugin::start spawns the thread of the server, which alone panics if the
\* address is not free.
StartPrometheus(free) ==
    /\ remote.kind = "prometheus" /\ Started("runs")
    /\ prom' = [prom EXCEPT !.up = free]

\* Output::write of a kind: one request; the state when it has failed depends on the error.
Send(k, points, lines, answer, after) ==
    /\ remote.state = "runs" /\ remote.kind = k /\ remoteWrites < MaxRemoteWrites
    /\ points = <<>> => k = "kwollect"      \* the others return before the request
    /\ remoteWrites' = remoteWrites + 1
    /\ IF answer = "ok"
       THEN /\ requests' = Append(requests, [points |-> points, lines |-> lines,
                               rows |-> [i \in DOMAIN points |-> RowOf(k, remote.tags, points[i])]])
            /\ UNCHANGED <<remote, dropped>>
       ELSE /\ dropped' = dropped + Len(points)
            /\ remote' = [remote EXCEPT !.state = after]
            /\ UNCHANGED requests
    /\ UNCHANGED <<prom, scraped>>

\* The error is one of those that can be retried: the output goes on with the next buffer.
SendInflux(points, answer) ==
    Send("influxdb", points, LineProtocol(points), answer, "runs")

\* The result of insert_many is unwrapped.
SendMongo(points, answer) ==
    Send("mongodb", points, <<>>, answer, "panicked")

\* bulk_insert_measurements: both errors are fatal.
SendElastic(points, answer) ==
    Send("elasticsearch", points, <<>>, answer, "fatal")

\* A request that is not sent panics, an answer other than 200 is only logged.
SendKwollect(points, answer) ==
    Send("kwollect", points, <<>>, answer, IF answer = "down" THEN "panicked" ELSE "runs")

\* The export by gRPC: both errors are fatal.
SendOtel(points, answer) ==
    Send("opentelemetry", points, <<>>, answer, "fatal")

-------------------------------------------------------------------------------
(* Prometheus.                                                                 *)

\* The labels of the consumer, and the attributes if the configuration says so.
Series(p) == <<p.metric, [key \in DOMAIN p.attrs \intersect remote.tags |-> p.attrs[key]]>>

\* The locks of the metrics and of the registry are held for the whole buffer.
PromWrite(points) ==
    /\ remote.state = "runs" /\ remote.kind = "prometheus" /\ prom.todo = <<>> /\ ~prom.locked
    /\ points # <<>>
    /\ remoteWrites < MaxRemoteWrites /\ remoteWrites' = remoteWrites + 1
    /\ prom' = [prom EXCEPT !.todo = points, !.locked = TRUE]
    /\ UNCHANGED <<remote, requests, dropped, scraped>>

\* Mutant of HoldsLock: the registry is locked to register a family only.
HoldsLockToRegister(p) == FALSE

\* The guard of the registry lives until the end of the write.
HoldsLock(p) == TRUE

\* The gauge of the series of the next point.
PromSet ==
    /\ prom.todo # <<>>
    /\ LET p == Head(prom.todo)
           gauges == [s \in DOMAIN prom.gauges \union {Series(p)} |->
                        IF s = Series(p) THEN p.value ELSE prom.gauges[s]]
       IN prom' = [prom EXCEPT !.gauges = gauges, !.todo = Tail(@),
                     !.locked = Len(prom.todo) > 1 /\ HoldsLock(p),
                     !.whole = IF Len(prom.todo) = 1 THEN gauges ELSE @]
    /\ UNCHANGED <<remote, remoteWrites, requests, dropped, scraped>>

\* GET /metrics.
Scrape ==
    /\ prom.up /\ ~prom.locked
    /\ scraped' = <<prom.gauges, prom.whole>>
    /\ UNCHANGED <<remote, remoteWrites, requests, dropped, prom>>

\* PrometheusPlugin::stop, after the end of the pipeline.
StopPrometheus ==
    /\ prom.up /\ prom.todo = <<>> /\ remoteWrites = MaxRemoteWrites
    /\ prom' = [prom EXCEPT !.up = FALSE]
    /\ UNCHANGED <<remote, remoteWrites, requests, dropped, scraped>>

SendPoints(points, answer) ==
    \/ SendInflux(points, answer) \/ SendMongo(points, answer) \/ SendElastic(points, answer)
    \/ SendKwollect(points, answer) \/ SendOtel(points, answer)

StartOutput(answers) ==
    \/ StartInflux(answers) \/ StartMongo(answers) \/ StartElastic(answers)
    \/ StartUnchecked \/ StartPrometheus(answers)

RemoteNext ==
    \/ \E answers \in BOOLEAN : StartOutput(answers)
    \/ \E points \in RemoteBuffers, answer \in {"ok", "down", "error"} : SendPoints(points, answer)
    \/ \E points \in RemoteBuffers : PromWrite(points)
    \/ PromSet \/ Scrape \/ StopPrometheus

RemoteSpec == RemoteInit /\ [][RemoteNext]_remoteVars

-------------------------------------------------------------------------------
(* Properties.                                                                 *)

\* Attributes with the name of a column that is not reserved: the row of such an attribute
\* hides the column, or is hidden by it.
Colliding(k) ==
    CASE k = "influxdb" -> {} [] k = "mongodb" -> {"timestamp"} [] k = "elasticsearch" -> {"value"}
      [] OTHER -> {"consumer"}

\* What a row tells of an attribute: a tag of influxdb with an empty value is not there,
\* opentelemetry writes "empty" for it, or nothing at all without add_attributes_to_labels.
Told(k, tags, key, value) ==
    CASE k = "influxdb" /\ key \in tags /\ value = "" -> "none"
      [] k = "opentelemetry" /\ key \notin tags -> "none"
      [] k = "opentelemetry" /\ key \in tags /\ value = "" -> "empty"
      [] OTHER -> value

\* From the row of a point, its value, its consumer and every attribute are read again,
\* whatever the names of the attributes: those of influxdb are kept apart from its own
\* columns both as tags and as fields.
RowsAreRight ==
    \A r \in Range(requests) : \A i \in DOMAIN r.points :
        LET p == r.points[i]
            k == remote.kind
        IN DOMAIN p.attrs \intersect Colliding(k) = {} =>
            /\ k \in {"mongodb", "elasticsearch"} => ReadColumn(r.rows[i], <<k, "own", "value">>) = p.value
            /\ k = "influxdb" => ReadColumn(r.rows[i], <<"field", "own", "value">>) = p.value
            /\ LET place == IF k = "influxdb" THEN "tag" ELSE k
               IN ReadColumn(r.rows[i], <<place, "own", "consumer">>) = "someone"
            /\ \A key \in DOMAIN p.attrs :
                 ReadColumn(r.rows[i], Column(k, remote.tags, key)) = Told(k, remote.tags, key, p.attrs[key])

\* The line protocol has one line for each point: after the measurement and its tags, a
\* space, the fields, a space, the timestamp.
LinesAreRight ==
    remote.kind = "influxdb" =>
        \A r \in Range(requests) :
            LET CountOf(c) == Cardinality({i \in DOMAIN r.lines : r.lines[i] = c}) IN
            CountOf("newline") = Len(r.points) - 1 /\ CountOf("space") = 2 * Len(r.points)

\* A scrape reads the values after a whole number of writes: it never mixes the points of
\* a buffer that is being written with those of the one before.
ScrapesAreWhole == scraped[1] = scraped[2]
================================================================================
