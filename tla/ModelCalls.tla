------------------------------ MODULE ModelCalls ------------------------------
(***************************************************************************)
(* The model calls of one ingest (ingest/pipeline.py): which images of a   *)
(* document are described, what their descriptions become, and how the     *)
(* units and the vectors that an endpoint returns are paired before a row  *)
(* is written; and the call that a host makes for the core, with its       *)
(* headers (http.py, fulfiller/).  Endpoints are external: a call may      *)
(* raise, a reply may be reordered, short, long, or malformed.             *)
(***************************************************************************)
EXTENDS Integers, Sequences, FiniteSets, FiniteSetsExt, SequencesExt, Selection

CONSTANTS
    Documents,      \* what may be ingested: [images, texts], texts counted
    MinAreaPercent, \* the share of its page that an image must cover
    MaxAspect,      \* how much longer than wide, or wider than long, it may be
    BatchSize,      \* texts to a request
    MaxAttempts,    \* how often the caller ingests again after a failure
    Env,            \* what a header's template stands for where the call is made
    Endpoints,      \* [headers, key, authHeader, ownClient]
    CallHeaders,    \* what the clients put on their calls
    Requests        \* what the core emits: [auth, body, sign]

VARIABLES doc, embedder, phase, requests, fulfilled, replies, units, vectors,
          rows, recorded, attempts, exchange

vars == <<doc, embedder, phase, requests, fulfilled, replies, units, vectors,
          rows, recorded, attempts, exchange>>

ASSUME BatchAssumption == BatchSize \in Nat \ {0} /\ MaxAttempts \in Nat

\* The page of an image has no area where its format has no pages.
NoArea == -1

\* A width or a height that is not known counts as none.
ASSUME DocumentAssumption ==
    /\ MinAreaPercent \in Nat /\ MaxAspect \in Nat
    /\ \A d \in Documents :
         /\ d.texts \in Nat
         /\ d.images \in Seq({d.images[i] : i \in DOMAIN d.images})
         /\ \A i \in DOMAIN d.images :
              LET image == d.images[i]
              IN  /\ image.width \in Nat /\ image.height \in Nat
                  /\ image.pageArea \in Nat \cup {NoArea}
                  /\ image.bytes \in {"stored", "unreadable", "none"}

\* A value of the environment is no template: it is put in once.
ASSUME EnvAssumption == \A t \in DOMAIN Env : Env[t] \notin DOMAIN Env \cup {"[REDACTED]"}

-----------------------------------------------------------------------------
(* Headers: functions from names to values, a value a text or a template *)

Expand(value) == IF value \in DOMAIN Env THEN Env[value] ELSE value

\* {**under, **over}.
Over(over, under) ==
    [name \in DOMAIN over \cup DOMAIN under |-> IF name \in DOMAIN over THEN over[name] ELSE under[name]]

Only(name, value) == [n \in {name} |-> value]

Expanded(headers) == [name \in DOMAIN headers |-> Expand(headers[name])]

\* build_headers: what the call says wins over the client's own.
BuildHeaders(own, call) == Over(call, Over(own, Only("agent", "citenexus")))

\* build_transport: with a key, the endpoint's own header replaces what the call
\* had to authorize it; a transport of the caller's gets the endpoint's headers too.
Sent(endpoint, call) ==
    LET merged == IF endpoint.ownClient THEN call ELSE Over(call, endpoint.headers)
        keyed  == IF endpoint.key = "" THEN merged
                  ELSE Over(Only(endpoint.authHeader, endpoint.key),
                            [name \in DOMAIN merged \ {"Authorization"} |-> merged[name]])
    IN  IF endpoint.ownClient THEN Expanded(BuildHeaders(endpoint.headers, keyed)) ELSE keyed

\* The values of the templates that a request's headers refer to.
ReferencedEnvValues(headers) ==
    {Env[t] : t \in {headers[n] : n \in DOMAIN headers} \cap DOMAIN Env} \ {""}

AuthKeys == {"authorization"}

\* Only what is named like a header of authorization.
ScrubNamed(response, secrets) == [k \in DOMAIN response |-> IF k \in AuthKeys THEN "[REDACTED]" ELSE response[k]]

\* _scrub: what is named like a header of authorization, or is a secret, is redacted.
Scrub(response, secrets) ==
    [k \in DOMAIN response |-> IF k \in AuthKeys \/ response[k] \in secrets THEN "[REDACTED]" ELSE response[k]]

\* fulfill: a request that holds a secret it refers to is refused before it is sent;
\* a signer names the secrets it adds. The endpoint answers with anything it was sent.
Fulfill(request, answer) ==
    LET secrets == ReferencedEnvValues(request.auth)
        signed  == secrets \cup (IF request.sign = "none" THEN {} ELSE {"signature"})
        sent    == request.body \cup signed \cup {"data"}
        echo    == [k \in DOMAIN answer |-> IF answer[k] \in sent THEN answer[k] ELSE "data"]
    IN  IF request.body \cap secrets # {} \/ request.sign = "unknown" THEN [sent |-> {}, body |-> <<>>]
        ELSE [sent |-> sent, body |-> Scrub(echo, signed)]

-----------------------------------------------------------------------------
(* Images *)

\* decide: by the page the image is on, where its format has pages, and whether it
\* is a scan of text.
Decide(image, ocrTextDense) ==
    LET area   == image.width * image.height
        small  == \/ image.pageArea = 0 /\ MinAreaPercent > 0
                  \/ area * 100 < MinAreaPercent * image.pageArea
        strip  == \/ image.width > MaxAspect * image.height
                  \/ image.height > MaxAspect * image.width
    IN  IF image.pageArea = NoArea THEN "text"
        ELSE IF small \/ (area > 0 /\ strip) THEN "skip"
        ELSE IF ocrTextDense THEN "ocr" ELSE "vision"

\* _persist_image_bytes: an image without bytes gets no key to load them by.
Persisted(image) == image.bytes # "none"

\* _image_bytes: loading them may fail.
Loadable(image) == Persisted(image) /\ image.bytes # "unreadable"

\* _emit_vision_requests: every image that passes, or whose format has no pages,
\* if its bytes were stored and can be loaded.
EmitVisionRequests(images) ==
    Within([i \in 1..Len(images) |-> i],
           {i \in DOMAIN images : /\ images[i].pageArea # NoArea => Decide(images[i], FALSE) = "vision"
                                  /\ Loadable(images[i])})

\* What describing may come to: prose becomes the caption, anything that is no mapping
\* raises, as does the endpoint.
Descriptions == {"record", "prose", "blank", "raises"}

RecordText(reply, i) == IF reply = "blank" THEN <<>> ELSE <<reply, i>>

\* A request that raises would take those before it along.
JoinAllOrNone(i, reply) == IF reply = "raises" THEN <<>> ELSE Over(Only(i, RecordText(reply, i)), fulfilled)

\* fulfill_vision_requests: one that raises is left out.
Join(i, reply) == IF reply = "raises" THEN fulfilled ELSE Over(Only(i, RecordText(reply, i)), fulfilled)

\* build_vision_units: a unit for every request that was answered with some text,
\* citing the page the image is on.
VisionUnits ==
    LET said == Within(requests, {i \in DOMAIN fulfilled : fulfilled[i] # <<>>})
    IN  [k \in 1..Len(said) |-> [id |-> <<"img", said[k]>>, page |-> doc.images[said[k]].page,
                                text |-> fulfilled[said[k]]]]

-----------------------------------------------------------------------------
(* Vectors: [of, shape], of the unit whose text was embedded *)

Shapes == {"short", "non_vector", "empty", "non_finite", "zero"}

\* In the order of the wire.
EmbedAsSent(reply) == reply

\* An order of the items by index.
ByIndex(reply, p) == \A i, j \in DOMAIN reply : i < j => reply[p[i]].index <= reply[p[j]].index

\* embed: put in order by index, where every item carries one.
Embed(reply) ==
    IF \A k \in DOMAIN reply : reply[k].index # -1
    THEN LET p == CHOOSE p \in Bijection(DOMAIN reply, DOMAIN reply) : ByIndex(reply, p)
         IN  [k \in DOMAIN reply |-> reply[p[k]]]
    ELSE reply

CheckBatchArity(texts, returned) == texts = returned

\* check_vector: the first vector of the run defines the dimension.
CheckVector(v, first) ==
    /\ v.shape \notin {"non_vector", "empty", "non_finite", "zero"}
    /\ v.shape = "short" <=> first.shape = "short"

CheckBatch(labels, found) ==
    /\ CheckBatchArity(Len(labels), Len(found))
    /\ \A k \in DOMAIN found : CheckVector(found[k], found[1])

Batch(k) == SubSeq(units, k, IF k + BatchSize - 1 < Len(units) THEN k + BatchSize - 1 ELSE Len(units))

Item(texts, k, indexed) == [index |-> IF indexed THEN k ELSE -1, of |-> texts[k].id, shape |-> "ok"]

InSomeOrder(texts) ==
    LET n == Len(texts)
    IN  {[k \in 1..n |-> Item(texts, k, FALSE)]}
          \cup {[k \in 1..n |-> Item(texts, p[k], TRUE)] : p \in Bijection(1..n, 1..n)}

OneMore(r) ==
    Append(r, [index |-> IF r[1].index = -1 THEN -1 ELSE Len(r) + 1, of |-> <<"none", 0>>, shape |-> "ok"])

OneLess(r) == {RemoveAt(r, k) : k \in DOMAIN r}

OneOfNoUse(r) == {[r EXCEPT ![k].shape = s] : k \in DOMAIN r, s \in Shapes}

\* What an endpoint may return for a batch: in any order with an index, in order
\* without; one item too few or one too many; one vector of no use.
Replies(texts) == UNION {{r, OneMore(r)} \cup OneLess(r) \cup OneOfNoUse(r) : r \in InSomeOrder(texts)}

-----------------------------------------------------------------------------
(* Ingest *)

TextUnits == [k \in 1..doc.texts |-> [id |-> <<"text", k>>, page |-> 0, text |-> <<"block", k>>]]

Init ==
    /\ doc \in Documents /\ embedder \in {"batch", "single", "none"}
    /\ phase = "emit" /\ requests = <<>> /\ fulfilled = <<>> /\ replies = <<>>
    /\ units = <<>> /\ vectors = <<>> /\ rows = {} /\ recorded = FALSE /\ attempts = 0
    /\ exchange = [kind |-> "none"]

\* _vision_units: without a describer, or a request, there are only texts.
EmitRequests ==
    /\ phase = "emit"
    /\ \E vision \in BOOLEAN :
         requests' = IF vision THEN EmitVisionRequests(doc.images) ELSE <<>>
    /\ phase' = "describe"
    /\ fulfilled' = <<>> /\ replies' = <<>>
    /\ UNCHANGED <<doc, embedder, units, vectors, rows, recorded, attempts, exchange>>

\* One request after the other.
FulfillNext ==
    /\ phase = "describe" /\ Len(replies) < Len(requests)
    /\ \E reply \in Descriptions :
         /\ replies' = Append(replies, reply)
         /\ fulfilled' = Join(requests[Len(replies) + 1], reply)
    /\ UNCHANGED <<doc, embedder, phase, requests, units, vectors, rows, recorded, attempts, exchange>>

Assemble ==
    /\ phase = "describe" /\ Len(replies) = Len(requests)
    /\ units' = TextUnits \o VisionUnits
    /\ vectors' = <<>>
    /\ phase' = "embed"
    /\ UNCHANGED <<doc, embedder, requests, fulfilled, replies, rows, recorded, attempts, exchange>>

\* An ingest that raises writes no row and records nothing.
Fail == phase' = "failed" /\ UNCHANGED vectors

\* embed_in_batches: every batch must return as many vectors as it has texts.
EmbedBatch ==
    /\ phase = "embed" /\ embedder = "batch" /\ Len(vectors) < Len(units)
    /\ \/ Fail
       \/ \E reply \in Replies(Batch(Len(vectors) + 1)) :
            LET found == Embed(reply)
                texts == Batch(Len(vectors) + 1)
            IN  IF CheckBatchArity(Len(texts), Len(found))
                THEN vectors' = vectors \o found /\ UNCHANGED phase
                ELSE Fail
    /\ UNCHANGED <<doc, embedder, requests, fulfilled, replies, units, rows, recorded, attempts, exchange>>

\* The older seam, one text to a call.
EmbedSingle ==
    /\ phase = "embed" /\ embedder = "single" /\ Len(vectors) < Len(units)
    /\ \/ Fail
       \/ \E s \in Shapes \cup {"ok"} :
            /\ vectors' = Append(vectors, [index |-> -1, of |-> units[Len(vectors) + 1].id, shape |-> s])
            /\ UNCHANGED phase
    /\ UNCHANGED <<doc, embedder, requests, fulfilled, replies, units, rows, recorded, attempts, exchange>>

Placeholder == [index |-> -1, of |-> <<"none", 0>>, shape |-> "placeholder"]

\* _embed_texts, the upsert of all rows, and the record of the ingest; without an
\* embedder a placeholder stands in every row and is not checked.
Write ==
    /\ phase = "embed" /\ (embedder = "none" \/ Len(vectors) >= Len(units))
    /\ LET found == IF embedder = "none" THEN [k \in DOMAIN units |-> Placeholder] ELSE vectors
       IN  IF embedder # "none" /\ ~CheckBatch(units, found)
           THEN phase' = "failed" /\ UNCHANGED <<rows, recorded>>
           ELSE /\ rows' = {[unit |-> units[k], vector |-> found[k]] : k \in DOMAIN units}
                /\ recorded' = TRUE
                /\ phase' = "done"
    /\ UNCHANGED <<doc, embedder, requests, fulfilled, replies, units, vectors, attempts, exchange>>

\* The caller may ingest the document again.
Retry ==
    /\ phase = "failed" /\ attempts < MaxAttempts
    /\ phase' = "emit" /\ attempts' = attempts + 1
    /\ units' = <<>> /\ vectors' = <<>>
    /\ UNCHANGED <<doc, embedder, requests, fulfilled, replies, rows, recorded, exchange>>

\* A request that the core emitted, fulfilled by the host.
HostCall ==
    /\ phase = "emit" /\ attempts = 0
    /\ \E request \in Requests, auth, note \in {"data", "secret", "signature"} :
         LET done == Fulfill(request, [authorization |-> auth, message |-> note])
         IN  exchange' = [kind |-> "host", request |-> request, body |-> done.body, sent |-> done.sent]
    /\ phase' = "answered"
    /\ UNCHANGED <<doc, embedder, requests, fulfilled, replies, units, vectors, rows, recorded, attempts>>

\* A call of a model client through its endpoint.
EndpointCall ==
    /\ phase = "emit" /\ attempts = 0
    /\ \E endpoint \in Endpoints, call \in CallHeaders :
         exchange' = [kind |-> "call", endpoint |-> endpoint, call |-> call, sent |-> Sent(endpoint, call)]
    /\ phase' = "answered"
    /\ UNCHANGED <<doc, embedder, requests, fulfilled, replies, units, vectors, rows, recorded, attempts>>

Next ==
    \/ EmitRequests \/ FulfillNext \/ Assemble
    \/ EmbedBatch \/ EmbedSingle \/ Write
    \/ Retry \/ HostCall \/ EndpointCall

Spec == Init /\ [][Next]_vars

-----------------------------------------------------------------------------
(* Properties *)

\* However an endpoint with honest indexes replies, a row carries the vector of its own
\* text, all of them of one dimension and of use; every unit of the ingest has its row or none
\* has (contracts.py, embed/batcher.py).
RowsCarryTheirOwnVectors ==
    /\ rows # {} => {r.unit : r \in rows} = Range(units)
    /\ embedder # "none" => \A r, s \in rows :
         /\ r.vector.of = r.unit.id
         /\ r.vector.shape \notin Shapes \ {"short"}
         /\ r.vector.shape = s.vector.shape
    /\ recorded <=> phase = "done"

\* A figure is cited exactly if its image passes, could be loaded and was described:
\* by its own description, on its own page. Another image whose description fails
\* costs it nothing (vision/, ingest/pipeline.py).
FiguresCited ==
    phase \in {"embed", "done"} =>
      /\ \A i \in DOMAIN doc.images :
           LET image == doc.images[i]
               meant == /\ image.bytes = "stored"
                        /\ \/ image.pageArea = NoArea
                           \/ /\ MinAreaPercent > 0 => image.pageArea > 0
                              /\ image.width * image.height * 100 >= MinAreaPercent * image.pageArea
                              /\ image.width > 0 /\ image.height > 0 =>
                                   image.width <= MaxAspect * image.height /\ image.height <= MaxAspect * image.width
               at    == {k \in DOMAIN requests : requests[k] = i}
               told  == {replies[k] : k \in at} \cap {"record", "prose"}
               cited == {u \in Range(units) : u.id = <<"img", i>>}
           IN  /\ at # {} => meant
               /\ requests # <<>> /\ meant => Cardinality(at) = 1
               /\ cited = {[id |-> <<"img", i>>, page |-> image.page, text |-> <<t, i>>] : t \in told}
      /\ {u \in Range(units) : u.id[1] = "text"} = Range(TextUnits)

\* A call is made with the headers it was given, over those of the endpoint, except
\* that the endpoint's own key is what authorizes it; no template is sent as it is
\* by the client of this library (http.py).
AuthWins ==
    exchange.kind = "call" =>
      LET endpoint == exchange.endpoint  call == exchange.call  sent == exchange.sent
          own == IF endpoint.key = "" THEN {} ELSE {endpoint.authHeader}
          as(value) == IF endpoint.ownClient THEN Expand(value) ELSE value
      IN  /\ \A n \in own : sent[n] = as(endpoint.key)
          /\ \A n \in DOMAIN call \ own :
               ~(endpoint.key # "" /\ n = "Authorization") =>
                 sent[n] = as(call[n])
          /\ DOMAIN endpoint.headers \ (IF endpoint.ownClient THEN {} ELSE {"Authorization"}) \subseteq DOMAIN sent
          /\ endpoint.ownClient => \A n \in DOMAIN sent : sent[n] \notin DOMAIN Env

\* A secret that was used to make a call is in nothing that the core gets back, and
\* a request that holds one is never sent (fulfiller/host.py).
SecretsStayOutside ==
    exchange.kind = "host" =>
      LET request == exchange.request
          secrets == ReferencedEnvValues(request.auth) \cup (IF request.sign = "none" THEN {} ELSE {"signature"})
      IN  /\ \A k \in DOMAIN exchange.body : exchange.body[k] \notin secrets
          /\ request.body \cap ReferencedEnvValues(request.auth) # {} => exchange.sent = {}

\* Whatever the endpoint and the caller put there, a call goes out with the headers
\* that count, and what authorized it does not come back with the answer.
HeadersGuarded == AuthWins /\ SecretsStayOutside
=============================================================================
