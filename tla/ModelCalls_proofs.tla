--------------------------- MODULE ModelCalls_proofs ---------------------------
(***************************************************************************)
(* What holds of the model calls of an ingest for any documents, batch     *)
(* size, limits on images, endpoints and headers: the headers that are     *)
(* sent, the figures that are cited and the vectors that rows carry; and,  *)
(* for any configuration, of the client that makes them.                   *)
(*                                                                         *)
(* The later sections are about what surrounds them, for inputs of any     *)
(* length: crawls, folders of code and schemas; scopes; the layers a plugin*)
(* makes stale; the settings; the chunks of a text; its tokens.            *)
(***************************************************************************)
EXTENDS MCDocuments, Foundations

-----------------------------------------------------------------------------
(* Headers *)

\* What Over and Expanded are, name by name.
LEMMA OverFacts ==
    ASSUME NEW over, NEW under
    PROVE  /\ DOMAIN Over(over, under) = DOMAIN over \cup DOMAIN under
           /\ \A n \in DOMAIN over : Over(over, under)[n] = over[n]
           /\ \A n \in DOMAIN under \ DOMAIN over : Over(over, under)[n] = under[n]
BY DEF Over

\* One header by itself.
LEMMA OnlyFacts == ASSUME NEW name, NEW value
                   PROVE  DOMAIN Only(name, value) = {name} /\ Only(name, value)[name] = value
BY DEF Only

\* Expanding keeps the names.
LEMMA ExpandedFacts ==
    ASSUME NEW headers
    PROVE  /\ DOMAIN Expanded(headers) = DOMAIN headers
           /\ \A n \in DOMAIN headers : Expanded(headers)[n] = Expand(headers[n])
BY DEF Expanded

\* What is put in for a template is none.
LEMMA NoTemplate == ASSUME NEW value PROVE Expand(value) \notin DOMAIN Env
BY EnvAssumption DEF Expand

\* The headers of an endpoint with a key.
Keyed(merged, header, key) ==
    IF key = "" THEN merged
    ELSE Over(Only(header, key), [name \in DOMAIN merged \ {"Authorization"} |-> merged[name]])

\* They carry the key, and what is not the key's.
Carries(keyed, merged, header, key) ==
    /\ header \in DOMAIN keyed /\ keyed[header] = key
    /\ \A n \in DOMAIN merged : n # "Authorization" /\ n # header => n \in DOMAIN keyed /\ keyed[n] = merged[n]

\* A key that is put in is what they carry.
LEMMA KeyedFacts ==
    ASSUME NEW merged, NEW header, NEW key, key # ""
    PROVE  Carries(Keyed(merged, header, key), merged, header, key)
<1> DEFINE rest  == [name \in DOMAIN merged \ {"Authorization"} |-> merged[name]]
           only  == Only(header, key)
           keyed == Keyed(merged, header, key)
<1>1. keyed = Over(only, rest)
  BY DEF Keyed
<1>2. DOMAIN rest = DOMAIN merged \ {"Authorization"} /\ \A n \in DOMAIN rest : rest[n] = merged[n]
  OBVIOUS
<1>3. DOMAIN only = {header} /\ only[header] = key
  BY OnlyFacts
<1> HIDE DEF rest, only, keyed
<1>4. /\ DOMAIN Over(only, rest) = DOMAIN only \cup DOMAIN rest
      /\ \A n \in DOMAIN only : Over(only, rest)[n] = only[n]
      /\ \A n \in DOMAIN rest \ DOMAIN only : Over(only, rest)[n] = rest[n]
  BY OverFacts
<1>5. /\ DOMAIN keyed = {header} \cup DOMAIN rest
      /\ keyed[header] = key
      /\ \A n \in DOMAIN rest \ {header} : keyed[n] = rest[n]
  BY <1>1, <1>3, <1>4
<1> QED
  BY <1>2, <1>5 DEF keyed, Carries

\* The headers that count are the ones sent.
AuthOK(endpoint, call, sent) ==
    LET own == IF endpoint.key = "" THEN {} ELSE {endpoint.authHeader}
        as(value) == IF endpoint.ownClient THEN Expand(value) ELSE value
    IN  /\ \A n \in own : sent[n] = as(endpoint.key)
        /\ \A n \in DOMAIN call \ own :
             ~(endpoint.key # "" /\ n = "Authorization") => sent[n] = as(call[n])
        /\ DOMAIN endpoint.headers \ (IF endpoint.ownClient THEN {} ELSE {"Authorization"}) \subseteq DOMAIN sent
        /\ endpoint.ownClient => \A n \in DOMAIN sent : sent[n] \notin DOMAIN Env

\* Every call goes out with them.
LEMMA SentFacts == ASSUME NEW endpoint, NEW call PROVE AuthOK(endpoint, call, Sent(endpoint, call))
<1> DEFINE merged == IF endpoint.ownClient THEN call ELSE Over(call, endpoint.headers)
           keyed  == Keyed(merged, endpoint.authHeader, endpoint.key)
           built  == BuildHeaders(endpoint.headers, keyed)
           sent   == Sent(endpoint, call)
           own    == IF endpoint.key = "" THEN {} ELSE {endpoint.authHeader}
           as(value) == IF endpoint.ownClient THEN Expand(value) ELSE value
           key    == endpoint.key
           header == endpoint.authHeader
<1>1. /\ key # "" => header \in DOMAIN keyed /\ keyed[header] = key
      /\ \A n \in DOMAIN merged : (key # "" => n # "Authorization" /\ n # header) =>
            n \in DOMAIN keyed /\ keyed[n] = merged[n]
  <2>1. CASE key = ""
    <3>1. keyed = merged
      BY <2>1 DEF Keyed
    <3> QED
      BY <2>1, <3>1
  <2>2. CASE key # ""
    <3>1. keyed = Keyed(merged, header, key)
      OBVIOUS
    <3> HIDE DEF merged, keyed, key, header
    <3>2. Carries(keyed, merged, header, key)
      BY <2>2, <3>1, KeyedFacts
    <3> QED
      BY <2>2, <3>2 DEF Carries
  <2> QED
    BY <2>1, <2>2
<1>2. /\ DOMAIN call \subseteq DOMAIN merged /\ \A n \in DOMAIN call : merged[n] = call[n]
      /\ ~endpoint.ownClient => DOMAIN endpoint.headers \subseteq DOMAIN merged
  <2> DEFINE headers == endpoint.headers
             over    == Over(call, headers)
  <2>1. DOMAIN over = DOMAIN call \cup DOMAIN headers /\ \A n \in DOMAIN call : over[n] = call[n]
    <3> HIDE DEF headers
    <3> QED
      BY OverFacts
  <2> QED
    BY <2>1
<1>3. sent = IF endpoint.ownClient THEN Expanded(built) ELSE keyed
  BY DEF Sent, Keyed
<1> HIDE DEF merged, keyed, sent
<1>4. /\ DOMAIN keyed \subseteq DOMAIN built /\ \A n \in DOMAIN keyed : built[n] = keyed[n]
      /\ DOMAIN endpoint.headers \subseteq DOMAIN built
  <2> DEFINE headers == endpoint.headers
             under   == Over(headers, Only("agent", "citenexus"))
  <2>1. DOMAIN headers \subseteq DOMAIN under
    <3> DEFINE only == Only("agent", "citenexus")
    <3> HIDE DEF only, headers
    <3> QED
      BY OverFacts
  <2>2. built = Over(keyed, under)
    BY DEF BuildHeaders
  <2>3. /\ DOMAIN Over(keyed, under) = DOMAIN keyed \cup DOMAIN under
        /\ \A n \in DOMAIN keyed : Over(keyed, under)[n] = keyed[n]
    <3> HIDE DEF under
    <3> QED
      BY OverFacts
  <2> QED
    BY <2>1, <2>2, <2>3
<1> HIDE DEF built
<1>5. \A n \in DOMAIN keyed : n \in DOMAIN sent /\ sent[n] = as(keyed[n])
  BY <1>3, <1>4, ExpandedFacts
<1>6. \A n \in own : sent[n] = as(endpoint.key)
  BY <1>1, <1>5
<1>7. ASSUME NEW n \in DOMAIN call \ own, ~(endpoint.key # "" /\ n = "Authorization")
      PROVE  sent[n] = as(call[n])
  BY <1>1, <1>2, <1>5, <1>7
<1>8. ASSUME NEW n \in DOMAIN endpoint.headers \ (IF endpoint.ownClient THEN {} ELSE {"Authorization"})
      PROVE  n \in DOMAIN sent
  <2>1. CASE endpoint.ownClient
    BY <2>1, <1>3, <1>4, ExpandedFacts
  <2>2. CASE ~endpoint.ownClient
    BY <2>2, <1>1, <1>2, <1>5
  <2> QED
    BY <2>1, <2>2
<1>9. ASSUME endpoint.ownClient, NEW n \in DOMAIN sent PROVE sent[n] \notin DOMAIN Env
  <2>1. n \in DOMAIN built /\ sent[n] = Expand(built[n])
    BY <1>3, <1>9, ExpandedFacts
  <2> QED
    BY <2>1, NoTemplate
<1> QED
  BY <1>6, <1>7, <1>8, <1>9 DEF sent, AuthOK

\* What a host returns holds no secret the call was made with, and a request that
\* holds one is not sent.
LEMMA FulfillFacts ==
    ASSUME NEW request, NEW answer
    PROVE  LET done    == Fulfill(request, answer)
               secrets == ReferencedEnvValues(request.auth)
                            \cup (IF request.sign = "none" THEN {} ELSE {"signature"})
           IN  /\ \A k \in DOMAIN done.body : done.body[k] \notin secrets
               /\ request.body \cap ReferencedEnvValues(request.auth) # {} => done.sent = {}
<1> DEFINE refs   == ReferencedEnvValues(request.auth)
           signed == refs \cup (IF request.sign = "none" THEN {} ELSE {"signature"})
           sent   == request.body \cup signed \cup {"data"}
           echo   == [k \in DOMAIN answer |-> IF answer[k] \in sent THEN answer[k] ELSE "data"]
           done   == Fulfill(request, answer)
<1>1. done = IF request.body \cap refs # {} \/ request.sign = "unknown" THEN [sent |-> {}, body |-> <<>>]
             ELSE [sent |-> sent, body |-> Scrub(echo, signed)]
  BY DEF Fulfill
<1>2. "[REDACTED]" \notin signed
  <2>1. "[REDACTED]" \notin refs
    BY EnvAssumption DEF ReferencedEnvValues
  <2> QED
    BY <2>1
<1> HIDE DEF refs, signed, sent, done, echo
<1>3. \A k \in DOMAIN Scrub(echo, signed) : Scrub(echo, signed)[k] \notin signed
  BY <1>2 DEF Scrub
<1>4. CASE request.body \cap refs # {} \/ request.sign = "unknown"
  <2>1. done.body = <<>> /\ done.sent = {}
    BY <1>1, <1>4
  <2>2. DOMAIN done.body = {}
    BY <2>1
  <2> QED
    BY <2>1, <2>2 DEF done
<1>5. CASE ~(request.body \cap refs # {} \/ request.sign = "unknown")
  <2>1. done.body = Scrub(echo, signed)
    BY <1>1, <1>5
  <2> QED
    BY <2>1, <1>3, <1>5 DEF done, signed, refs
<1> QED
  BY <1>4, <1>5

\* HeadersGuarded holds in every state, whatever endpoints, headers, requests and
\* templates there are: the headers that count are sent, the endpoint's key authorizes
\* its calls, and no secret of a request comes back (http.py, fulfiller/host.py).
THEOREM HeadersStayGuarded == Spec => []HeadersGuarded
<1>1. Init => HeadersGuarded
  BY DEF Init, HeadersGuarded, AuthWins, SecretsStayOutside
<1>2. ASSUME HeadersGuarded, [Next]_vars PROVE HeadersGuarded'
  <2>1. CASE exchange' = exchange
    <3>1. AuthWins'
      BY <2>1, <1>2 DEF HeadersGuarded, AuthWins
    <3>2. SecretsStayOutside'
      BY <2>1, <1>2 DEF HeadersGuarded, SecretsStayOutside
    <3> QED
      BY <3>1, <3>2 DEF HeadersGuarded
  <2>2. CASE HostCall
    <3>1. PICK request, answer :
            exchange' = [kind |-> "host", request |-> request,
                         body |-> Fulfill(request, answer).body, sent |-> Fulfill(request, answer).sent]
      BY <2>2 DEF HostCall
    <3>2. exchange'.kind = "host" /\ exchange'.request = request
          /\ exchange'.body = Fulfill(request, answer).body /\ exchange'.sent = Fulfill(request, answer).sent
      BY <3>1
    <3>3. SecretsStayOutside'
      BY <3>2, FulfillFacts DEF SecretsStayOutside
    <3>4. AuthWins'
      BY <3>2 DEF AuthWins
    <3> QED
      BY <3>3, <3>4 DEF HeadersGuarded
  <2>3. CASE EndpointCall
    <3>1. PICK endpoint \in Endpoints, call \in CallHeaders :
            exchange' = [kind |-> "call", endpoint |-> endpoint, call |-> call, sent |-> Sent(endpoint, call)]
      BY <2>3 DEF EndpointCall
    <3>2. exchange'.kind = "call" /\ exchange'.endpoint = endpoint /\ exchange'.call = call
          /\ exchange'.sent = Sent(endpoint, call)
      BY <3>1
    <3>3. AuthWins'
      <4>1. AuthOK(exchange'.endpoint, exchange'.call, exchange'.sent)
        BY <3>2, SentFacts
      <4> QED
        BY <4>1 DEF AuthWins, AuthOK
    <3>4. SecretsStayOutside'
      BY <3>2 DEF SecretsStayOutside
    <3> QED
      BY <3>3, <3>4 DEF HeadersGuarded
  <2> QED
    BY <1>2, <2>1, <2>2, <2>3 DEF Next, vars, EmitRequests, FulfillNext, Assemble, EmbedBatch, EmbedSingle, Write, Retry
<1> QED
  BY <1>1, <1>2, PTL DEF Spec

-----------------------------------------------------------------------------
(* Lists in order *)

\* No element twice.
Distinct(s) == \A i, j \in DOMAIN s : s[i] = s[j] => i = j

\* What Within keeps of a list without repetition has none.
LEMMA WithinDistinct ==
    ASSUME NEW X, NEW s \in Seq(X), NEW S, Distinct(s)
    PROVE  Distinct(Within(s, S))
<1>1. PICK kept : /\ Within(s, S) = kept[Len(s)]
                  /\ kept[0] = <<>>
                  /\ \A i \in 1..Len(s) : kept[i] = IF s[i] \in S THEN Append(kept[i - 1], s[i])
                                                                 ELSE kept[i - 1]
  BY WithinUnfolds
<1> DEFINE Good(m) == /\ kept[m] \in Seq(X)
                      /\ Distinct(kept[m])
                      /\ \A j \in DOMAIN kept[m] : \E i \in 1..m : kept[m][j] = s[i]
           T == {m \in Nat : m <= Len(s) => Good(m)}
<1>2. 0 \in T
  <2>1. kept[0] = <<>> /\ DOMAIN <<>> = {} /\ <<>> \in Seq(X)
    BY <1>1
  <2> QED
    BY <2>1 DEF Distinct
<1>3. ASSUME NEW m \in Nat, m \in T PROVE m + 1 \in T
  <2> SUFFICES ASSUME m + 1 <= Len(s) PROVE Good(m + 1)
    OBVIOUS
  <2> DEFINE k == kept[m]
  <2>1. m + 1 \in 1..Len(s) /\ (m + 1) - 1 = m /\ Good(m)
    BY <1>3
  <2>2. kept[m + 1] = IF s[m + 1] \in S THEN Append(k, s[m + 1]) ELSE k
    BY <2>1, <1>1
  <2>3. k \in Seq(X) /\ Distinct(k) /\ \A j \in DOMAIN k : \E i \in 1..m : k[j] = s[i]
    BY <2>1
  <2> HIDE DEF k
  <2>4. CASE s[m + 1] \in S
    <3> DEFINE t == Append(k, s[m + 1])
    <3>1. /\ t \in Seq(X) /\ DOMAIN t = 1..(Len(k) + 1) /\ DOMAIN k = 1..Len(k) /\ Len(k) \in Nat
          /\ \A j \in 1..Len(k) : t[j] = k[j]
          /\ t[Len(k) + 1] = s[m + 1]
      BY <2>1, <2>3
    <3> HIDE DEF t
    <3>2. \A j \in 1..Len(k) : t[j] # s[m + 1]
      <4> SUFFICES ASSUME NEW j \in 1..Len(k), t[j] = s[m + 1] PROVE FALSE
        OBVIOUS
      <4>1. PICK i \in 1..m : k[j] = s[i]
        BY <2>3, <3>1
      <4>2. s[i] = s[m + 1] /\ i \in DOMAIN s /\ m + 1 \in DOMAIN s /\ i # m + 1
        BY <4>1, <3>1, <2>1
      <4> QED
        BY <4>2 DEF Distinct
    <3>3. Distinct(t)
      <4> SUFFICES ASSUME NEW a \in DOMAIN t, NEW b \in DOMAIN t, t[a] = t[b] PROVE a = b
        BY DEF Distinct
      <4>1. CASE a \in 1..Len(k) /\ b \in 1..Len(k)
        BY <4>1, <3>1, <2>3 DEF Distinct
      <4>2. CASE a = Len(k) + 1 \/ b = Len(k) + 1
        BY <4>2, <3>1, <3>2
      <4> QED
        BY <4>1, <4>2, <3>1
    <3>4. ASSUME NEW j \in DOMAIN t PROVE \E i \in 1..(m + 1) : t[j] = s[i]
      <4>1. CASE j = Len(k) + 1
        BY <4>1, <3>1
      <4>2. CASE j \in 1..Len(k)
        <5>1. PICK i \in 1..m : k[j] = s[i]
          BY <4>2, <2>3, <3>1
        <5>2. i \in 1..(m + 1)
          OBVIOUS
        <5> QED
          BY <5>1, <5>2, <4>2, <3>1
      <4> QED
        BY <4>1, <4>2, <3>1
    <3>5. kept[m + 1] = t
      BY <2>2, <2>4 DEF t
    <3> QED
      BY <3>1, <3>3, <3>4, <3>5
  <2>5. CASE s[m + 1] \notin S
    <3>1. kept[m + 1] = k
      BY <2>2, <2>5
    <3>2. ASSUME NEW j \in DOMAIN k PROVE \E i \in 1..(m + 1) : k[j] = s[i]
      <4>1. PICK i \in 1..m : k[j] = s[i]
        BY <2>3
      <4>2. i \in 1..(m + 1)
        OBVIOUS
      <4> QED
        BY <4>1, <4>2
    <3> QED
      BY <3>1, <3>2, <2>3
  <2> QED
    BY <2>4, <2>5
<1>4. \A m \in Nat : m \in T
  <2> HIDE DEF T
  <2> QED BY <1>2, <1>3, Induct
<1>5. Good(Len(s))
  <2> HIDE DEF Good
  <2>1. Len(s) \in Nat OBVIOUS
  <2> QED BY <2>1, <1>4
<1> QED
  BY <1>1, <1>5

\* A list of the first numbers that never falls and repeats none is in order.
LEMMA InSteps ==
    ASSUME NEW n \in Nat, NEW f \in [1..n -> 1..n],
           \A i, j \in 1..n : i < j => f[i] < f[j]
    PROVE  \A i \in 1..n : f[i] = i
<1> DEFINE Up   == {m \in Nat : m + 1 <= n => m + 1 <= f[m + 1]}
           Down == {m \in Nat : m < n => f[n - m] <= n - m}
<1>1. \A m \in Nat : m \in Up
  <2>1. 0 \in Up
    BY DEF Up
  <2>2. ASSUME NEW m \in Nat, m \in Up PROVE m + 1 \in Up
    <3> SUFFICES ASSUME (m + 1) + 1 <= n PROVE (m + 1) + 1 <= f[(m + 1) + 1]
      OBVIOUS
    <3>1. m + 1 \in 1..n /\ (m + 1) + 1 \in 1..n /\ m + 1 < (m + 1) + 1 /\ m + 1 <= f[m + 1]
      BY <2>2
    <3>2. f[m + 1] < f[(m + 1) + 1] /\ f[m + 1] \in 1..n /\ f[(m + 1) + 1] \in 1..n
      BY <3>1
    <3> QED
      BY <3>1, <3>2
  <2> HIDE DEF Up
  <2> QED
    BY <2>1, <2>2, Induct
<1>2. \A m \in Nat : m \in Down
  <2>1. 0 \in Down
    BY DEF Down
  <2>2. ASSUME NEW m \in Nat, m \in Down PROVE m + 1 \in Down
    <3> SUFFICES ASSUME m + 1 < n PROVE f[n - (m + 1)] <= n - (m + 1)
      OBVIOUS
    <3>1. n - m \in 1..n /\ n - (m + 1) \in 1..n /\ n - (m + 1) < n - m /\ f[n - m] <= n - m
      BY <2>2
    <3>2. f[n - (m + 1)] < f[n - m] /\ f[n - (m + 1)] \in 1..n /\ f[n - m] \in 1..n
      BY <3>1
    <3> QED
      BY <3>1, <3>2
  <2> HIDE DEF Down
  <2> QED
    BY <2>1, <2>2, Induct
<1> SUFFICES ASSUME NEW i \in 1..n PROVE f[i] = i
  OBVIOUS
<1>3. i - 1 \in Up /\ n - i \in Down
  <2> HIDE DEF Up, Down
  <2>1. i - 1 \in Nat /\ n - i \in Nat
    OBVIOUS
  <2> QED
    BY <1>1, <1>2, <2>1
<1>4. (i - 1) + 1 = i /\ n - (n - i) = i /\ f[i] \in 1..n
  OBVIOUS
<1> QED
  BY <1>3, <1>4

\* The items of r carry the indexes q, each of 1 to n once.
ByPlace(n, r, q) ==
    DOMAIN r = 1..n /\ q \in Bijection(1..n, 1..n) /\ \A k \in 1..n : r[k].index = q[k]

\* Embed puts them in the order of those indexes.
Sorted(n, r, q) ==
    DOMAIN Embed(r) = 1..n /\ \A k \in 1..n : \E j \in 1..n : Embed(r)[k] = r[j] /\ q[j] = k

\* The order that Embed puts a reply in whose indexes are those of the request.
LEMMA SortedReply ==
    ASSUME NEW n \in Nat, NEW reply, NEW q, ByPlace(n, reply, q)
    PROVE  Sorted(n, reply, q)
<1>0. DOMAIN reply = 1..n /\ q \in Bijection(1..n, 1..n) /\ \A k \in 1..n : reply[k].index = q[k]
  BY DEF ByPlace
<1>1. /\ q \in [1..n -> 1..n]
      /\ \A i, j \in 1..n : q[i] = q[j] => i = j
      /\ \A k \in 1..n : \E j \in 1..n : q[j] = k
  BY <1>0 DEF Bijection, Injection, Surjection, IsInjective
<1>2. ASSUME NEW k \in DOMAIN reply PROVE reply[k].index # -1
  <2>1. k \in 1..n /\ reply[k].index = q[k]
    BY <1>0
  <2>2. q[k] \in 1..n
    BY <1>1, <2>1
  <2>3. q[k] # -1
    BY <2>2
  <2> QED
    BY <2>1, <2>3
<1> DEFINE D == DOMAIN reply
           P == Bijection(D, D)
           p == CHOOSE x \in P : ByIndex(reply, x)
<1>3. \E x \in P : ByIndex(reply, x)
  <2> DEFINE r == [k \in 1..n |-> CHOOSE j \in 1..n : q[j] = k]
  <2>1. \A k \in 1..n : r[k] \in 1..n /\ q[r[k]] = k
    BY <1>1
  <2>2. r \in [1..n -> 1..n]
    BY <2>1
  <2> HIDE DEF r
  <2>3. \A i, j \in 1..n : r[i] = r[j] => i = j
    BY <2>1
  <2>4. \A k \in 1..n : r[q[k]] = k
    BY <1>1, <2>1
  <2>5. r \in P
    <3>1. r \in [D -> D] /\ DOMAIN r = D
      BY <2>2, <1>0
    <3>2. ASSUME NEW k \in D PROVE \E j \in D : r[j] = k
      <4>1. q[k] \in D /\ r[q[k]] = k
        BY <2>4, <1>1, <1>0
      <4> QED
        BY <4>1
    <3> QED
      BY <3>1, <3>2, <2>3, <1>0 DEF Bijection, Injection, Surjection, IsInjective
  <2>6. ByIndex(reply, r)
    <3> SUFFICES ASSUME NEW i \in 1..n, NEW j \in 1..n, i < j
                 PROVE  reply[r[i]].index <= reply[r[j]].index
      BY <1>0 DEF ByIndex
    <3>1. reply[r[i]].index = i /\ reply[r[j]].index = j
      BY <2>1, <1>0
    <3> QED
      BY <3>1
  <2> QED
    BY <2>5, <2>6
<1>4. p \in P /\ ByIndex(reply, p)
  <2> HIDE DEF P
  <2> QED
    BY <1>3
<1>5. Embed(reply) = [k \in D |-> reply[p[k]]]
  BY <1>2 DEF Embed
<1> HIDE DEF p
<1>6. p \in [1..n -> 1..n] /\ \A i, j \in 1..n : p[i] = p[j] => i = j
  BY <1>4, <1>0 DEF Bijection, Injection, Surjection, IsInjective
<1> DEFINE f == [k \in 1..n |-> q[p[k]]]
<1>7. f \in [1..n -> 1..n]
  BY <1>1, <1>6
<1>8. \A i, j \in 1..n : i < j => f[i] < f[j]
  <2> SUFFICES ASSUME NEW i \in 1..n, NEW j \in 1..n, i < j PROVE f[i] < f[j]
    OBVIOUS
  <2>1. reply[p[i]].index <= reply[p[j]].index
    BY <1>4, <1>0 DEF ByIndex
  <2>0. p[i] \in 1..n /\ p[j] \in 1..n /\ p[i] # p[j]
    BY <1>6
  <2>2. q[p[i]] <= q[p[j]] /\ q[p[i]] # q[p[j]]
    <3>1. reply[p[i]].index = q[p[i]] /\ reply[p[j]].index = q[p[j]]
      BY <2>0, <1>0
    <3> QED
      BY <2>0, <2>1, <3>1, <1>1
  <2>3. q[p[i]] \in 1..n /\ q[p[j]] \in 1..n
    BY <1>1, <1>6
  <2> QED
    BY <2>2, <2>3
<1>9. \A k \in 1..n : f[k] = k
  <2> HIDE DEF f
  <2> QED
    BY <1>7, <1>8, InSteps
<1> QED
  BY <1>0, <1>5, <1>6, <1>9 DEF Sorted

-----------------------------------------------------------------------------
(* What comes back from an embedder *)

\* Of a text, of an image, of nothing that was asked.
Ids == {"text", "img", "none"} \X Nat

Vectors == [index : Int, of : Ids, shape : Shapes \cup {"ok"}]

\* The items of a reply are those of its request: in the same order, or in some order
\* with their indexes.
Pairs(texts, n, r) ==
    \/ \A k \in 1..n : r[k].index = -1 /\ r[k].of = texts[k].id
    \/ \E q \in Bijection(1..n, 1..n) : \A k \in 1..n : r[k].index = q[k] /\ r[k].of = texts[q[k]].id

\* A reply as long as its request.
Answers(texts, n, r) == r \in Seq(Vectors) /\ Len(r) = n /\ Pairs(texts, n, r)

\* Putting a reply in order keeps its length.
LEMMA EmbedLength ==
    ASSUME NEW r \in Seq(Vectors)
    PROVE  Len(Embed(r)) = Len(r)
<1> DEFINE D == DOMAIN r
           P == Bijection(D, D)
           p == CHOOSE x \in P : ByIndex(r, x)
           e == [k \in D |-> r[p[k]]]
<1>1. D = 1..Len(r) /\ Len(r) \in Nat
  OBVIOUS
<1>2. Embed(r) = r \/ Embed(r) = e
  BY DEF Embed
<1>3. e \in Seq({e[k] : k \in D}) /\ DOMAIN e = 1..Len(r)
  <2>1. e \in [1..Len(r) -> {e[k] : k \in D}]
    BY <1>1
  <2> HIDE DEF e
  <2> QED
    BY <1>1, <2>1
<1>4. Len(e) = Len(r)
  <2> HIDE DEF e
  <2> QED
    BY <1>1, <1>3
<1> QED
  BY <1>2, <1>4

\* Put in order, such a reply has each vector where its text is.
LEMMA AnswersInOrder ==
    ASSUME NEW texts, NEW n \in Nat \ {0}, NEW r, Answers(texts, n, r)
    PROVE  Embed(r) \in Seq(Vectors) /\ \A k \in 1..n : Embed(r)[k].of = texts[k].id
<1>1. r \in Seq(Vectors) /\ Len(r) = n /\ DOMAIN r = 1..n /\ \A k \in 1..n : r[k] \in Vectors
  BY DEF Answers
<1>2. CASE \A k \in 1..n : r[k].index = -1 /\ r[k].of = texts[k].id
  <2>1. 1 \in DOMAIN r /\ r[1].index = -1
    BY <1>1, <1>2
  <2>2. Embed(r) = r
    BY <2>1 DEF Embed
  <2> QED
    BY <1>1, <1>2, <2>2
<1>3. CASE \E q \in Bijection(1..n, 1..n) : \A k \in 1..n : r[k].index = q[k] /\ r[k].of = texts[q[k]].id
  <2>1. PICK q \in Bijection(1..n, 1..n) : \A k \in 1..n : r[k].index = q[k] /\ r[k].of = texts[q[k]].id
    BY <1>3
  <2>2. DOMAIN Embed(r) = 1..n /\ \A k \in 1..n : \E j \in 1..n : Embed(r)[k] = r[j] /\ q[j] = k
    <3>1. ByPlace(n, r, q)
      BY <1>1, <2>1 DEF ByPlace
    <3>2. n \in Nat
      OBVIOUS
    <3>3. Sorted(n, r, q)
      BY <3>1, <3>2, SortedReply
    <3> QED
      BY <3>3 DEF Sorted
  <2> DEFINE e == Embed(r)
  <2>3. ASSUME NEW k \in 1..n PROVE e[k] \in Vectors /\ e[k].of = texts[k].id
    <3>1. PICK j \in 1..n : e[k] = r[j] /\ q[j] = k
      BY <2>2
    <3> QED
      BY <3>1, <1>1, <2>1
  <2>4. e \in Seq(Vectors)
    <3>0. Embed(r) = [k \in DOMAIN r |-> Embed(r)[k]]
      <4> DEFINE D == DOMAIN r
                 p == CHOOSE x \in Bijection(D, D) : ByIndex(r, x)
      <4>1. r = [k \in D |-> r[k]]
        BY <1>1
      <4>2. Embed(r) = r \/ Embed(r) = [k \in D |-> r[p[k]]]
        BY DEF Embed
      <4> HIDE DEF p
      <4> QED
        BY <4>1, <4>2
    <3>1. e \in [1..n -> Vectors]
      <4> HIDE DEF e
      <4>1. e = [k \in 1..n |-> e[k]]
        BY <3>0, <1>1 DEF e
      <4> QED
        BY <2>3, <4>1
    <3> HIDE DEF e
    <3> QED
      BY <3>1
  <2> QED
    BY <2>3, <2>4
<1> QED
  BY <1>2, <1>3 DEF Answers, Pairs

\* A vector made useless stays whose it was.
LEMMA WorseAnswers ==
    ASSUME NEW texts, NEW n \in Nat, NEW r, Answers(texts, n, r), NEW k \in 1..n, NEW s \in Shapes
    PROVE  Answers(texts, n, [r EXCEPT ![k].shape = s])
<1> DEFINE w == [r EXCEPT ![k].shape = s]
<1>1. r \in Seq(Vectors) /\ Len(r) = n /\ DOMAIN r = 1..n /\ \A j \in 1..n : r[j] \in Vectors
  BY DEF Answers
<1>2. r[k] \in Vectors
  BY <1>1
<1>3. [r[k] EXCEPT !.shape = s] \in Vectors /\ [r[k] EXCEPT !.shape = s].index = r[k].index
      /\ [r[k] EXCEPT !.shape = s].of = r[k].of
  BY <1>2 DEF Vectors
<1>4. w = [r EXCEPT ![k] = [r[k] EXCEPT !.shape = s]]
  BY <1>1
<1> DEFINE v == [r[k] EXCEPT !.shape = s]
<1> HIDE DEF w, v
<1>5. w \in Seq(Vectors) /\ Len(w) = n /\ \A j \in 1..n : w[j] = IF j = k THEN v ELSE r[j]
  BY <1>1, <1>3, <1>4 DEF v
<1>6. \A j \in 1..n : w[j].index = r[j].index /\ w[j].of = r[j].of
  BY <1>3, <1>5 DEF v
<1>7. Pairs(texts, n, r) => Pairs(texts, n, w)
  BY <1>6 DEF Pairs
<1> QED
  BY <1>5, <1>7 DEF Answers, w

\* However an endpoint with honest indexes replies, a reply of the request's length has
\* each vector where its text is.
LEMMA ReplyFacts ==
    ASSUME NEW texts, NEW n \in Nat \ {0}, Len(texts) = n, \A k \in 1..n : texts[k].id \in Ids,
           NEW reply \in Replies(texts), Len(Embed(reply)) = n
    PROVE  Embed(reply) \in Seq(Vectors) /\ \A k \in 1..n : Embed(reply)[k].of = texts[k].id
<1>1. PICK r \in InSomeOrder(texts) : reply \in {r, OneMore(r)} \cup OneLess(r) \cup OneOfNoUse(r)
  BY DEF Replies
<1>2. \A k \in 1..n, indexed \in BOOLEAN :
         /\ Item(texts, k, indexed) \in Vectors
         /\ Item(texts, k, indexed).of = texts[k].id
         /\ Item(texts, k, indexed).index = IF indexed THEN k ELSE -1
  BY DEF Item, Vectors, Shapes
<1>3. Answers(texts, n, r)
  <2>1. CASE r = [k \in 1..n |-> Item(texts, k, FALSE)]
    <3>1. r \in [1..n -> Vectors] /\ \A k \in 1..n : r[k].index = -1 /\ r[k].of = texts[k].id
      BY <1>2, <2>1
    <3>2. r \in Seq(Vectors) /\ Len(r) = n
      BY <3>1
    <3> QED
      BY <3>1, <3>2 DEF Answers, Pairs
  <2>2. ASSUME NEW q \in Bijection(1..n, 1..n), r = [k \in 1..n |-> Item(texts, q[k], TRUE)]
        PROVE  Answers(texts, n, r)
    <3>1. q \in [1..n -> 1..n]
      BY DEF Bijection, Injection
    <3>2. \A k \in 1..n : r[k] = Item(texts, q[k], TRUE)
      BY <3>1, <2>2
    <3>3. \A k \in 1..n : r[k] \in Vectors /\ r[k].index = q[k] /\ r[k].of = texts[q[k]].id
      BY <3>1, <3>2, <1>2
    <3>4. r \in [1..n -> Vectors]
      BY <3>3, <2>2
    <3>5. r \in Seq(Vectors) /\ Len(r) = n
      BY <3>4
    <3> QED
      BY <3>3, <3>5 DEF Answers, Pairs
  <2> QED
    BY <2>1, <2>2, <1>1 DEF InSomeOrder
<1>4. r \in Seq(Vectors) /\ Len(r) = n /\ DOMAIN r = 1..n
  BY <1>3 DEF Answers
<1>5. CASE reply = r
  BY <1>3, <1>5, AnswersInOrder
<1>6. CASE reply = OneMore(r)
  <2>1. reply \in Seq(Vectors) /\ Len(reply) = n + 1
    <3> DEFINE item == [index |-> IF r[1].index = -1 THEN -1 ELSE n + 1, of |-> <<"none", 0>>, shape |-> "ok"]
    <3>1. item \in Vectors
      BY DEF Vectors, Ids, Shapes
    <3> HIDE DEF item
    <3> QED
      BY <1>4, <1>6, <3>1 DEF item, OneMore
  <2> QED
    BY <2>1, EmbedLength
<1>7. CASE reply \in OneLess(r)
  <2>1. PICK k \in 1..n : reply = SubSeq(r, 1, k - 1) \o SubSeq(r, k + 1, n)
    BY <1>4, <1>7 DEF RemoveAt, OneLess
  <2>2. /\ SubSeq(r, 1, k - 1) \in Seq(Vectors) /\ Len(SubSeq(r, 1, k - 1)) = k - 1
        /\ SubSeq(r, k + 1, n) \in Seq(Vectors) /\ Len(SubSeq(r, k + 1, n)) = n - k
    BY <1>4
  <2>3. reply \in Seq(Vectors) /\ Len(reply) = n - 1
    BY <2>1, <2>2
  <2> QED
    BY <2>3, EmbedLength
<1>8. CASE reply \in OneOfNoUse(r)
  <2>1. PICK k \in 1..n, s \in Shapes : reply = [r EXCEPT ![k].shape = s]
    BY <1>4, <1>8 DEF OneOfNoUse
  <2>2. Answers(texts, n, reply)
    BY <1>3, <2>1, WorseAnswers
  <2> QED
    BY <2>2, AnswersInOrder
<1> QED
  BY <1>1, <1>5, <1>6, <1>7, <1>8

-----------------------------------------------------------------------------
(* Which images are asked about *)

\* The images that a request is emitted for.
Passing(images) ==
    {i \in DOMAIN images : /\ images[i].pageArea # NoArea => Decide(images[i], FALSE) = "vision"
                           /\ Loadable(images[i])}

\* What FiguresCited says of an image that is to be cited.
Meant(image) ==
    /\ image.bytes = "stored"
    /\ \/ image.pageArea = NoArea
       \/ /\ MinAreaPercent > 0 => image.pageArea > 0
          /\ image.width * image.height * 100 >= MinAreaPercent * image.pageArea
          /\ image.width > 0 /\ image.height > 0 =>
               image.width <= MaxAspect * image.height /\ image.height <= MaxAspect * image.width

\* An area is none exactly if a side is.
LEMMA Products ==
    ASSUME NEW a \in Nat, NEW b \in Nat
    PROVE  /\ a * b \in Nat
           /\ a * b > 0 <=> a > 0 /\ b > 0
<1>1. a * b \in Nat
  OBVIOUS
<1>2. CASE a = 0 \/ b = 0
  BY <1>2
<1>3. CASE a > 0 /\ b > 0
  BY <1>3
<1> QED
  BY <1>1, <1>2, <1>3

\* The images that pass are those meant to be cited: the rule of decide, turned round.
LEMMA PassingIs ==
    ASSUME NEW d \in Documents, NEW i \in DOMAIN d.images
    PROVE  i \in Passing(d.images) <=> Meant(d.images[i])
<1> DEFINE image == d.images[i]
           w == image.width
           h == image.height
           p == image.pageArea
<1>1. /\ w \in Nat /\ h \in Nat /\ p \in Nat \cup {NoArea}
      /\ image.bytes \in {"stored", "unreadable", "none"}
      /\ MinAreaPercent \in Nat /\ MaxAspect \in Nat
  BY DocumentAssumption
<1>2. Loadable(image) <=> image.bytes = "stored"
  BY <1>1 DEF Loadable, Persisted
<1>3. p # NoArea =>
        (Decide(image, FALSE) = "vision" <=>
           /\ ~(p = 0 /\ MinAreaPercent > 0) /\ ~(w * h * 100 < MinAreaPercent * p)
           /\ ~(w * h > 0 /\ (w > MaxAspect * h \/ h > MaxAspect * w)))
  BY DEF Decide
<1>4. i \in Passing(d.images) <=> /\ p # NoArea => Decide(image, FALSE) = "vision"
                                  /\ Loadable(image)
  BY DEF Passing
<1>5. /\ w * h \in Nat /\ (w * h > 0 <=> w > 0 /\ h > 0)
      /\ MaxAspect * h \in Nat /\ MaxAspect * w \in Nat
  BY <1>1, Products
<1>6. Meant(image) <=>
        /\ image.bytes = "stored"
        /\ \/ p = NoArea
           \/ /\ MinAreaPercent > 0 => p > 0
              /\ w * h * 100 >= MinAreaPercent * p
              /\ w > 0 /\ h > 0 => w <= MaxAspect * h /\ h <= MaxAspect * w
  BY DEF Meant
<1>7. CASE p = NoArea
  BY <1>2, <1>4, <1>6, <1>7
<1>8. CASE p # NoArea
  <2>1. p \in Nat /\ MinAreaPercent * p \in Nat /\ w * h * 100 \in Nat
    BY <1>1, <1>8, <1>5, Products
  <2>2. /\ ~(p = 0 /\ MinAreaPercent > 0) <=> (MinAreaPercent > 0 => p > 0)
        /\ ~(w * h * 100 < MinAreaPercent * p) <=> w * h * 100 >= MinAreaPercent * p
    BY <1>1, <2>1
  <2>3. ~(w * h > 0 /\ (w > MaxAspect * h \/ h > MaxAspect * w)) <=>
          (w > 0 /\ h > 0 => w <= MaxAspect * h /\ h <= MaxAspect * w)
    BY <1>1, <1>5
  <2> HIDE DEF image, w, h, p
  <2> QED
    BY <1>2, <1>3, <1>4, <1>6, <1>8, <2>2, <2>3 DEF image
<1> QED
  BY <1>7, <1>8

\* The requests emitted are of the images that pass, one for each.
LEMMA EmitFacts ==
    ASSUME NEW d \in Documents
    PROVE  LET r == EmitVisionRequests(d.images)
           IN  /\ r \in Seq(DOMAIN d.images) /\ Distinct(r)
               /\ Elements(r) = Passing(d.images)
<1> DEFINE images == d.images
           all == [i \in 1..Len(images) |-> i]
           r == EmitVisionRequests(images)
<1>1. DOMAIN images = 1..Len(images) /\ Len(images) \in Nat
  BY DocumentAssumption
<1>2. all \in Seq(DOMAIN images) /\ DOMAIN all = DOMAIN images /\ \A i \in DOMAIN images : all[i] = i
  BY <1>1
<1>3. r = Within(all, Passing(images))
  BY DEF EmitVisionRequests, Passing
<1>4. Distinct(all) /\ Elements(all) = DOMAIN images
  BY <1>2 DEF Distinct, Elements
<1>5. Passing(images) \subseteq DOMAIN images
  BY DEF Passing
<1> HIDE DEF images, all, r
<1>6. r \in Seq(DOMAIN images) /\ Elements(r) = Elements(all) \cap Passing(images)
  BY <1>2, <1>3, WithinIs
<1>7. Distinct(r)
  BY <1>2, <1>3, <1>4, WithinDistinct
<1> QED
  BY <1>4, <1>5, <1>6, <1>7 DEF images, r

-----------------------------------------------------------------------------
(* Requests and what they became *)

\* The requests name images of the document, each at most once, and all that pass
\* or none.
Planned ==
    /\ doc \in Documents
    /\ requests \in Seq(DOMAIN doc.images) /\ Distinct(requests)
    /\ requests # <<>> => Elements(requests) = Passing(doc.images)

\* The k-th reply is what its image became.
Joined(k) ==
    IF replies[k] = "raises" THEN requests[k] \notin DOMAIN fulfilled
    ELSE requests[k] \in DOMAIN fulfilled /\ fulfilled[requests[k]] = RecordText(replies[k], requests[k])

\* Every answer so far is kept, and nothing else.
Told ==
    /\ replies \in Seq(Descriptions) /\ Len(replies) <= Len(requests)
    /\ \A k \in 1..Len(replies) : Joined(k)
    /\ \A i \in DOMAIN fulfilled : \E k \in 1..Len(replies) : requests[k] = i

\* The units are of the document and of what all its requests became.
Assembled ==
    phase \in {"embed", "done"} => Len(replies) = Len(requests) /\ units = TextUnits \o VisionUnits

\* The inductive invariant of the figures: FiguresCited alone says nothing while
\* requests are still being answered.
FiguresInv == Planned /\ Told /\ Assembled

\* Nothing is asked or told at the start.
LEMMA FiguresStart == Init => FiguresInv
<1> SUFFICES ASSUME Init PROVE FiguresInv
  OBVIOUS
<1>1. doc \in Documents /\ requests = <<>> /\ replies = <<>> /\ fulfilled = <<>> /\ phase = "emit"
  BY DEF Init
<1>2. Planned
  <2>1. requests \in Seq(DOMAIN doc.images) /\ DOMAIN requests = {}
    BY <1>1
  <2> QED
    BY <1>1, <2>1 DEF Planned, Distinct
<1>3. Told
  <2>1. replies \in Seq(Descriptions) /\ Len(replies) = 0 /\ Len(requests) = 0 /\ DOMAIN fulfilled = {}
    BY <1>1
  <2> QED
    BY <2>1 DEF Told
<1>4. Assembled
  BY <1>1 DEF Assembled
<1> QED
  BY <1>2, <1>3, <1>4 DEF FiguresInv

\* Every step keeps it; only EmitRequests, FulfillNext and Assemble could break it.
LEMMA FiguresStep == FiguresInv /\ [Next]_vars => FiguresInv'
<1> SUFFICES ASSUME FiguresInv, [Next]_vars PROVE FiguresInv'
  OBVIOUS
<1> USE DEF FiguresInv
<1>1. CASE EmitRequests
  <2>1. PICK vision \in BOOLEAN : requests' = IF vision THEN EmitVisionRequests(doc.images) ELSE <<>>
    BY <1>1 DEF EmitRequests
  <2>2. doc' = doc /\ phase' = "describe" /\ fulfilled' = <<>> /\ replies' = <<>> /\ doc \in Documents
    BY <1>1 DEF EmitRequests, Planned
  <2> DEFINE r == EmitVisionRequests(doc.images)
  <2>3. r \in Seq(DOMAIN doc.images) /\ Distinct(r) /\ Elements(r) = Passing(doc.images)
    BY <2>2, EmitFacts
  <2> HIDE DEF r
  <2>4. <<>> \in Seq(DOMAIN doc.images) /\ Distinct(<<>>)
    BY DEF Distinct
  <2>5. Planned'
    <3>1. CASE vision
      BY <3>1, <2>1, <2>2, <2>3 DEF Planned, r
    <3>2. CASE ~vision
      BY <3>2, <2>1, <2>2, <2>4 DEF Planned
    <3> QED
      BY <3>1, <3>2
  <2>6. Told'
    <3>1. replies' \in Seq(Descriptions) /\ Len(replies') = 0 /\ DOMAIN fulfilled' = {}
      BY <2>2
    <3>2. Len(requests') \in Nat
      BY <2>5 DEF Planned
    <3> QED
      BY <3>1, <3>2 DEF Told
  <2>7. Assembled'
    BY <2>2 DEF Assembled
  <2> QED
    BY <2>5, <2>6, <2>7
<1>2. CASE FulfillNext
  <2>1. PICK reply \in Descriptions : /\ replies' = Append(replies, reply)
                                      /\ fulfilled' = Join(requests[Len(replies) + 1], reply)
    BY <1>2 DEF FulfillNext
  <2>2. /\ phase = "describe" /\ phase' = phase /\ Len(replies) < Len(requests)
        /\ doc' = doc /\ requests' = requests /\ units' = units
    BY <1>2 DEF FulfillNext
  <2>3. Planned'
    BY <2>2 DEF Planned
  <2>4. Assembled'
    BY <2>2 DEF Assembled
  <2>5. PICK n, m, i : n \in Nat /\ m \in Nat /\ n = Len(replies) /\ m = n + 1 /\ i = requests[m]
    <3>1. Len(replies) \in Nat
      BY DEF Told
    <3> QED
      BY <3>1
  <2>6. /\ replies \in Seq(Descriptions) /\ Len(requests) \in Nat /\ DOMAIN requests = 1..Len(requests)
        /\ m \in DOMAIN requests /\ m <= Len(requests)
        /\ \A k \in 1..n : k \in DOMAIN requests /\ k # m
        /\ \A k \in 1..m : k \in 1..n \/ k = m
        /\ m \in 1..m /\ \A k \in 1..n : k \in 1..m
    BY <2>2, <2>5 DEF Told, Planned
  <2>7. /\ replies' \in Seq(Descriptions) /\ Len(replies') = m
        /\ replies'[m] = reply /\ requests'[m] = i
        /\ \A k \in 1..n : replies'[k] = replies[k]
    BY <2>1, <2>2, <2>5, <2>6
  <2>8. \A k \in 1..n : Joined(k) /\ requests[k] # i
    BY <2>5, <2>6 DEF Told, Planned, Distinct
  <2>9. i \notin DOMAIN fulfilled
    <3>1. \A j \in DOMAIN fulfilled : \E k \in 1..n : requests[k] = j
      BY <2>5 DEF Told
    <3> QED
      BY <2>8, <3>1
  <2>10. CASE reply = "raises"
    <3>1. fulfilled' = fulfilled
      BY <2>1, <2>10 DEF Join
    <3>2. ASSUME NEW k \in 1..m PROVE Joined(k)'
      <4>1. CASE k \in 1..n
        BY <4>1, <2>8, <3>1, <2>2, <2>7 DEF Joined
      <4>2. CASE k = m
        BY <4>2, <2>7, <2>10, <2>9, <3>1 DEF Joined
      <4> QED
        BY <2>6, <4>1, <4>2
    <3>3. \A j \in DOMAIN fulfilled : \E k \in 1..m : requests[k] = j
      BY <2>5, <2>6 DEF Told
    <3>4. Told'
      BY <2>2, <2>6, <2>7, <3>1, <3>2, <3>3 DEF Told
    <3> QED
      BY <2>3, <2>4, <3>4
  <2>11. CASE reply # "raises"
    <3>1. fulfilled' = Over(Only(i, RecordText(reply, i)), fulfilled)
      BY <2>1, <2>5, <2>11 DEF Join
    <3>2. /\ DOMAIN fulfilled' = DOMAIN fulfilled \cup {i}
          /\ fulfilled'[i] = RecordText(reply, i)
          /\ \A j \in DOMAIN fulfilled : j # i => fulfilled'[j] = fulfilled[j]
      BY <3>1 DEF Over, Only
    <3>3. ASSUME NEW k \in 1..m PROVE Joined(k)'
      <4>1. CASE k \in 1..n
        <5>1. Joined(k) /\ requests[k] # i /\ requests'[k] = requests[k] /\ replies'[k] = replies[k]
          BY <4>1, <2>8, <2>2, <2>7
        <5> QED
          BY <5>1, <3>2 DEF Joined
      <4>2. CASE k = m
        BY <4>2, <2>7, <2>11, <3>2 DEF Joined
      <4> QED
        BY <2>6, <4>1, <4>2
    <3>4. \A j \in DOMAIN fulfilled' : \E k \in 1..m : requests[k] = j
      <4> SUFFICES ASSUME NEW j \in DOMAIN fulfilled' PROVE \E k \in 1..m : requests[k] = j
        OBVIOUS
      <4>1. CASE j = i
        BY <4>1, <2>5, <2>6
      <4>2. CASE j \in DOMAIN fulfilled
        BY <4>2, <2>5, <2>6 DEF Told
      <4> QED
        BY <3>2, <4>1, <4>2
    <3>5. Told'
      BY <2>2, <2>6, <2>7, <3>3, <3>4 DEF Told
    <3> QED
      BY <2>3, <2>4, <3>5
  <2> QED
    BY <2>10, <2>11
<1>3. CASE Assemble
  <2>1. /\ Len(replies) = Len(requests) /\ units' = TextUnits \o VisionUnits
        /\ doc' = doc /\ requests' = requests /\ fulfilled' = fulfilled /\ replies' = replies
    BY <1>3 DEF Assemble
  <2>2. Planned' /\ Told'
    BY <2>1 DEF Planned, Told, Joined
  <2>3. TextUnits' = TextUnits /\ VisionUnits' = VisionUnits
    BY <2>1 DEF TextUnits, VisionUnits
  <2> QED
    BY <2>1, <2>2, <2>3 DEF Assembled
<1>4. ASSUME UNCHANGED <<doc, requests, fulfilled, replies>>,
             phase' \in {"embed", "done"} => phase \in {"embed", "done"} /\ units' = units
      PROVE  FiguresInv'
  <2>1. Planned' /\ Told'
    BY <1>4 DEF Planned, Told, Joined
  <2>2. TextUnits' = TextUnits /\ VisionUnits' = VisionUnits
    BY <1>4 DEF TextUnits, VisionUnits
  <2>3. Assembled'
    BY <1>4, <2>2 DEF Assembled
  <2> QED
    BY <2>1, <2>3
<1>5. CASE EmbedBatch
  <2>1. UNCHANGED <<doc, requests, fulfilled, replies, units>> /\ phase = "embed"
    BY <1>5 DEF EmbedBatch
  <2> QED
    BY <2>1, <1>4
<1>6. CASE EmbedSingle
  <2>1. UNCHANGED <<doc, requests, fulfilled, replies, units>> /\ phase = "embed"
    BY <1>6 DEF EmbedSingle
  <2> QED
    BY <2>1, <1>4
<1>7. CASE Write
  <2>1. UNCHANGED <<doc, requests, fulfilled, replies, units>> /\ phase = "embed"
    BY <1>7 DEF Write
  <2> QED
    BY <2>1, <1>4
<1>8. CASE Retry
  BY <1>8, <1>4 DEF Retry
<1>9. CASE HostCall
  <2>1. UNCHANGED <<doc, requests, fulfilled, replies>> /\ phase' = "answered"
    BY <1>9 DEF HostCall
  <2> QED
    BY <2>1, <1>4
<1>10. CASE EndpointCall
  <2>1. UNCHANGED <<doc, requests, fulfilled, replies>> /\ phase' = "answered"
    BY <1>10 DEF EndpointCall
  <2> QED
    BY <2>1, <1>4
<1>11. CASE UNCHANGED vars
  BY <1>11, <1>4 DEF vars
<1> QED
  BY <1>1, <1>2, <1>3, <1>5, <1>6, <1>7, <1>8, <1>9, <1>10, <1>11 DEF Next

-----------------------------------------------------------------------------
(* Figures *)

\* The images with some text, in the order they were asked about.
Uttered == Within(requests, {i \in DOMAIN fulfilled : fulfilled[i] # <<>>})

\* The unit that cites an image.
FigureUnit(i) == [id |-> <<"img", i>>, page |-> doc.images[i].page, text |-> fulfilled[i]]

\* The texts that an image was told as.
ToldAs(i) == {replies[k] : k \in {k \in DOMAIN requests : requests[k] = i}} \cap {"record", "prose"}

\* What is in one list after another.
LEMMA Concatenated ==
    ASSUME NEW X, NEW a \in Seq(X), NEW b \in Seq(X)
    PROVE  Elements(a \o b) = Elements(a) \cup Elements(b)
<1> DEFINE s == a \o b
<1>1. /\ DOMAIN a = 1..Len(a) /\ DOMAIN b = 1..Len(b) /\ Len(a) \in Nat /\ Len(b) \in Nat
      /\ DOMAIN s = 1..(Len(a) + Len(b))
      /\ \A k \in 1..Len(a) : s[k] = a[k]
      /\ \A k \in 1..Len(b) : s[Len(a) + k] = b[k]
  OBVIOUS
<1> HIDE DEF s
<1>2. ASSUME NEW k \in DOMAIN s PROVE s[k] \in Elements(a) \cup Elements(b)
  <2>1. CASE k \in 1..Len(a)
    BY <2>1, <1>1 DEF Elements
  <2>2. CASE k \notin 1..Len(a)
    <3>1. k - Len(a) \in 1..Len(b) /\ Len(a) + (k - Len(a)) = k
      BY <2>2, <1>1
    <3>2. s[k] = b[k - Len(a)]
      BY <3>1, <1>1
    <3> QED
      BY <3>1, <3>2, <1>1 DEF Elements
  <2> QED
    BY <2>1, <2>2
<1>3. ASSUME NEW k \in DOMAIN a PROVE a[k] \in Elements(s)
  <2>1. k \in DOMAIN s /\ s[k] = a[k]
    BY <1>1
  <2> QED
    BY <2>1 DEF Elements
<1>4. ASSUME NEW k \in DOMAIN b PROVE b[k] \in Elements(s)
  <2>1. Len(a) + k \in DOMAIN s /\ s[Len(a) + k] = b[k]
    BY <1>1
  <2> QED
    BY <2>1 DEF Elements
<1> QED
  BY <1>2, <1>3, <1>4 DEF Elements, s

\* The images that something was said of.
LEMMA SaidIs ==
    ASSUME FiguresInv
    PROVE  /\ Uttered \in Seq(DOMAIN doc.images)
           /\ Elements(Uttered) = {i \in DOMAIN fulfilled : fulfilled[i] # <<>>}
<1>1. requests \in Seq(DOMAIN doc.images)
  BY DEF FiguresInv, Planned
<1>2. Uttered \in Seq(DOMAIN doc.images) /\ Elements(Uttered) = Elements(requests) \cap {i \in DOMAIN fulfilled : fulfilled[i] # <<>>}
  BY <1>1, WithinIs DEF Uttered
<1>3. ASSUME NEW i \in DOMAIN fulfilled PROVE i \in Elements(requests)
  <2>1. PICK k \in 1..Len(replies) : requests[k] = i
    BY DEF FiguresInv, Told
  <2>2. k \in DOMAIN requests
    <3>1. Len(replies) \in Nat /\ Len(replies) <= Len(requests) /\ DOMAIN requests = 1..Len(requests) /\ Len(requests) \in Nat
      BY <1>1 DEF FiguresInv, Told
    <3> QED
      BY <3>1
  <2> QED
    BY <2>1, <2>2 DEF Elements
<1> QED
  BY <1>2, <1>3

\* The two kinds of unit, and what identifies each.
LEMMA UnitsAre ==
    ASSUME FiguresInv
    PROVE  /\ TextUnits \in Seq(Elements(TextUnits) \cup Elements(VisionUnits))
           /\ VisionUnits \in Seq(Elements(TextUnits) \cup Elements(VisionUnits))
           /\ Elements(VisionUnits) = {FigureUnit(i) : i \in Elements(Uttered)}
           /\ \A u \in Elements(TextUnits) : \E k \in Nat : u.id = <<"text", k>>
           /\ \A i \in Elements(Uttered) : i \in Nat
<1>1. Uttered \in Seq(DOMAIN doc.images) /\ doc.texts \in Nat /\ DOMAIN doc.images \subseteq Nat
  <2>1. doc \in Documents
    BY DEF FiguresInv, Planned
  <2>2. doc.texts \in Nat /\ doc.images \in Seq({doc.images[i] : i \in DOMAIN doc.images})
    BY <2>1, DocumentAssumption
  <2>3. DOMAIN doc.images = 1..Len(doc.images) /\ Len(doc.images) \in Nat
    BY <2>2
  <2> QED
    BY <2>2, <2>3, SaidIs
<1> DEFINE n == Len(Uttered)
<1>2. n \in Nat /\ DOMAIN Uttered = 1..n /\ \A k \in 1..n : Uttered[k] \in Nat
  BY <1>1
<1>3. VisionUnits = [k \in 1..n |-> FigureUnit(Uttered[k])]
  BY DEF VisionUnits, Uttered, FigureUnit
<1> DEFINE X == Elements(TextUnits) \cup Elements(VisionUnits)
<1>4. TextUnits = [k \in 1..doc.texts |-> TextUnits[k]] /\ \A k \in 1..doc.texts : TextUnits[k].id = <<"text", k>>
  BY DEF TextUnits
<1>5. TextUnits \in [1..doc.texts -> X]
  BY <1>4 DEF Elements
<1>6. VisionUnits \in [1..n -> X]
  BY <1>3 DEF Elements
<1>7. Elements(VisionUnits) = {FigureUnit(i) : i \in Elements(Uttered)}
  BY <1>2, <1>3 DEF Elements
<1>8. \A u \in Elements(TextUnits) : \E k \in Nat : u.id = <<"text", k>>
  <2>1. DOMAIN TextUnits = 1..doc.texts /\ \A k \in 1..doc.texts : k \in Nat
    BY <1>4, <1>1
  <2> QED
    BY <2>1, <1>4 DEF Elements
<1>9. \A i \in Elements(Uttered) : i \in Nat
  BY <1>2 DEF Elements
<1>10. TextUnits \in Seq(X)
  <2> HIDE DEF X
  <2> QED
    BY <1>5, <1>1
<1>11. VisionUnits \in Seq(X)
  <2> HIDE DEF X
  <2> QED
    BY <1>6, <1>2
<1> QED
  BY <1>7, <1>8, <1>9, <1>10, <1>11

\* What an image was told as decides what is said of it.
LEMMA ToldIs ==
    ASSUME FiguresInv, Len(replies) = Len(requests), NEW i
    PROVE  /\ i \in Elements(Uttered) <=> ToldAs(i) # {}
           /\ i \in Elements(Uttered) => ToldAs(i) = {fulfilled[i][1]} /\ fulfilled[i] = <<fulfilled[i][1], i>>
<1>1. requests \in Seq(DOMAIN doc.images) /\ replies \in Seq(Descriptions) /\ DOMAIN requests = 1..Len(requests)
      /\ DOMAIN replies = 1..Len(replies)
  BY DEF FiguresInv, Planned, Told
<1>2. \A k \in DOMAIN requests : Joined(k) /\ replies[k] \in Descriptions
  BY <1>1 DEF FiguresInv, Told
<1>3. \A a, b \in DOMAIN requests : requests[a] = requests[b] => a = b
  BY DEF FiguresInv, Planned, Distinct
<1>4. \A j \in DOMAIN fulfilled : \E k \in DOMAIN requests : requests[k] = j
  BY <1>1 DEF FiguresInv, Told
<1>5. CASE \A k \in DOMAIN requests : requests[k] # i
  <2>1. ToldAs(i) = {}
    BY <1>5 DEF ToldAs
  <2>2. i \notin DOMAIN fulfilled
    BY <1>4, <1>5
  <2> QED
    BY <2>1, <2>2, SaidIs
<1>6. CASE \E k \in DOMAIN requests : requests[k] = i
  <2>1. PICK k \in DOMAIN requests : requests[k] = i
    BY <1>6
  <2>2. {j \in DOMAIN requests : requests[j] = i} = {k}
    BY <2>1, <1>3
  <2>3. ToldAs(i) = {replies[k]} \cap {"record", "prose"}
    BY <2>2 DEF ToldAs
  <2>4. Joined(k) /\ replies[k] \in {"record", "prose", "blank", "raises"}
    BY <1>2 DEF Descriptions
  <2>5. CASE replies[k] \in {"record", "prose"}
    <3>1. i \in DOMAIN fulfilled /\ fulfilled[i] = <<replies[k], i>>
      BY <2>1, <2>4, <2>5 DEF Joined, RecordText
    <3>2. fulfilled[i] # <<>> /\ fulfilled[i][1] = replies[k]
      BY <3>1
    <3>3. i \in Elements(Uttered)
      BY <3>1, <3>2, SaidIs
    <3>4. ToldAs(i) = {replies[k]}
      BY <2>3, <2>5
    <3> QED
      BY <3>1, <3>2, <3>3, <3>4
  <2>6. CASE replies[k] \in {"blank", "raises"}
    <3>1. i \in DOMAIN fulfilled => fulfilled[i] = <<>>
      BY <2>1, <2>4, <2>6 DEF Joined, RecordText
    <3>2. i \notin Elements(Uttered)
      BY <3>1, SaidIs
    <3>3. ToldAs(i) = {}
      BY <2>3, <2>6
    <3> QED
      BY <3>2, <3>3
  <2> QED
    BY <2>4, <2>5, <2>6
<1> QED
  BY <1>5, <1>6

\* What FiguresCited says of one image.
Wanted(i) ==
    LET image == doc.images[i]
        at    == {k \in DOMAIN requests : requests[k] = i}
    IN  /\ at # {} => Meant(image)
        /\ requests # <<>> /\ Meant(image) => Cardinality(at) = 1
        /\ {u \in Range(units) : u.id = <<"img", i>>} =
             {[id |-> <<"img", i>>, page |-> image.page, text |-> <<t, i>>] : t \in ToldAs(i)}

\* Each image is cited as it should be once the units are assembled.
LEMMA WantedIs ==
    ASSUME FiguresInv, phase \in {"embed", "done"}, NEW i \in DOMAIN doc.images
    PROVE  Wanted(i)
<1> DEFINE image == doc.images[i]
           at    == {k \in DOMAIN requests : requests[k] = i}
<1>1. /\ requests \in Seq(DOMAIN doc.images) /\ doc \in Documents /\ Distinct(requests)
      /\ requests # <<>> => Elements(requests) = Passing(doc.images)
      /\ Len(replies) = Len(requests) /\ units = TextUnits \o VisionUnits
  BY DEF FiguresInv, Planned, Assembled
<1>2. i \in Passing(doc.images) <=> Meant(image)
  BY <1>1, PassingIs
<1>3. at # {} <=> i \in Elements(requests)
  BY DEF Elements
<1>4. at # {} => requests # <<>>
  <2>1. requests = <<>> => DOMAIN requests = {}
    OBVIOUS
  <2> QED
    BY <2>1
<1>5. at # {} => Meant(image)
  BY <1>1, <1>2, <1>3, <1>4
<1>6. requests # <<>> /\ Meant(image) => Cardinality(at) = 1
  <2> SUFFICES ASSUME requests # <<>>, Meant(image) PROVE Cardinality(at) = 1
    OBVIOUS
  <2>1. at # {}
    BY <1>1, <1>2, <1>3
  <2>2. PICK k : k \in at
    BY <2>1
  <2>3. at = {k}
    BY <2>2, <1>1 DEF Distinct
  <2> QED
    BY <2>3, FS_Singleton
<1>7. Elements(units) = Elements(TextUnits) \cup Elements(VisionUnits)
  BY <1>1, UnitsAre, Concatenated
<1>8. Range(units) = Elements(units)
  BY DEF Range, Elements
<1>9. \A u \in Elements(TextUnits) : u.id # <<"img", i>>
  <2>1. ASSUME NEW k PROVE <<"text", k>> # <<"img", i>>
    <3>1. <<"text", k>>[1] # <<"img", i>>[1]
      OBVIOUS
    <3> QED
      BY <3>1
  <2> QED
    BY <2>1, UnitsAre
<1>10. \A j : FigureUnit(j).id = <<"img", i>> <=> j = i
  <2>1. ASSUME NEW j, <<"img", j>> = <<"img", i>> PROVE j = i
    <3>1. <<"img", j>>[2] = <<"img", i>>[2]
      BY <2>1
    <3> QED
      BY <3>1
  <2> QED
    BY <2>1 DEF FigureUnit
<1>11. {u \in Range(units) : u.id = <<"img", i>>} = {FigureUnit(j) : j \in Elements(Uttered) \cap {i}}
  <2>1. Elements(VisionUnits) = {FigureUnit(j) : j \in Elements(Uttered)}
    BY UnitsAre
  <2> QED
    BY <2>1, <1>7, <1>8, <1>9, <1>10
<1>12. {FigureUnit(j) : j \in Elements(Uttered) \cap {i}} =
         {[id |-> <<"img", i>>, page |-> image.page, text |-> <<t, i>>] : t \in ToldAs(i)}
  <2>1. /\ i \in Elements(Uttered) <=> ToldAs(i) # {}
        /\ i \in Elements(Uttered) => ToldAs(i) = {fulfilled[i][1]} /\ fulfilled[i] = <<fulfilled[i][1], i>>
    BY <1>1, ToldIs
  <2>2. CASE i \in Elements(Uttered)
    <3>1. ToldAs(i) = {fulfilled[i][1]} /\ FigureUnit(i) = [id |-> <<"img", i>>, page |-> image.page, text |-> <<fulfilled[i][1], i>>]
      BY <2>1, <2>2 DEF FigureUnit
    <3> QED
      BY <2>2, <3>1
  <2>3. CASE i \notin Elements(Uttered)
    BY <2>1, <2>3
  <2> QED
    BY <2>2, <2>3
<1> QED
  BY <1>5, <1>6, <1>11, <1>12 DEF Wanted

\* The other units are the texts, all of them.
LEMMA TextsIn ==
    ASSUME FiguresInv, phase \in {"embed", "done"}
    PROVE  {u \in Range(units) : u.id[1] = "text"} = Range(TextUnits)
<1>1. units = TextUnits \o VisionUnits
  BY DEF FiguresInv, Assembled
<1>2. Range(units) = Elements(TextUnits) \cup Elements(VisionUnits) /\ Range(TextUnits) = Elements(TextUnits)
  <2>1. Elements(units) = Elements(TextUnits) \cup Elements(VisionUnits)
    BY <1>1, UnitsAre, Concatenated
  <2> QED
    BY <2>1 DEF Range, Elements
<1>3. ASSUME NEW u \in Elements(TextUnits) PROVE u.id[1] = "text"
  <2>1. PICK k \in Nat : u.id = <<"text", k>>
    BY UnitsAre
  <2> QED
    BY <2>1
<1>4. ASSUME NEW u \in Elements(VisionUnits) PROVE u.id[1] # "text"
  <2>1. PICK i : u.id = <<"img", i>>
    BY UnitsAre DEF FigureUnit
  <2> QED
    BY <2>1
<1> QED
  BY <1>2, <1>3, <1>4

\* FiguresCited holds in every state, for any document, page share and aspect: an
\* image that passes is cited by its own description, whatever becomes of the others
\* (vision/, ingest/pipeline.py).
THEOREM FiguresAreCited == Spec => []FiguresCited
<1>1. FiguresInv => FiguresCited
  <2> SUFFICES ASSUME FiguresInv, phase \in {"embed", "done"}
               PROVE  /\ \A i \in DOMAIN doc.images : Wanted(i)
                      /\ {u \in Range(units) : u.id[1] = "text"} = Range(TextUnits)
    BY DEF FiguresCited, Wanted, Meant, ToldAs
  <2> QED
    BY WantedIs, TextsIn
<1> QED
  BY <1>1, FiguresStart, FiguresStep, PTL DEF Spec

-----------------------------------------------------------------------------
(* Rows *)

\* Every vector so far stands where its unit does.
Vouched ==
    phase \in {"embed", "done"} =>
      /\ vectors \in Seq(Vectors) /\ Len(vectors) <= Len(units)
      /\ \A k \in 1..Len(vectors) : vectors[k].of = units[k].id

\* The row of a unit.
RowOf(k, found) == [unit |-> units[k], vector |-> found[k]]

\* Rows are written once, all of them, at the end.
AllAtOnce ==
    /\ phase # "done" => rows = {} /\ recorded = FALSE
    /\ phase = "done" => recorded = TRUE /\ RowsCarryTheirOwnVectors

\* The inductive invariant of the rows.
RowsInv == FiguresInv /\ Vouched /\ AllAtOnce

\* Every unit has an identity of its kind.
LEMMA UnitsTyped ==
    ASSUME FiguresInv, phase \in {"embed", "done"}
    PROVE  units \in Seq(Elements(units)) /\ \A k \in DOMAIN units : units[k].id \in Ids
<1> DEFINE X == Elements(TextUnits) \cup Elements(VisionUnits)
<1>1. units = TextUnits \o VisionUnits
  BY DEF FiguresInv, Assembled
<1>2. Elements(units) = X /\ units \in Seq(X)
  BY <1>1, UnitsAre, Concatenated
<1>3. ASSUME NEW u \in X PROVE u.id \in Ids
  <2>1. CASE u \in Elements(TextUnits)
    <3>1. PICK k \in Nat : u.id = <<"text", k>>
      BY <2>1, UnitsAre
    <3> QED
      BY <3>1 DEF Ids
  <2>2. CASE u \in Elements(VisionUnits)
    <3>1. PICK i \in Nat : u.id = <<"img", i>>
      BY <2>2, UnitsAre DEF FigureUnit
    <3> QED
      BY <3>1 DEF Ids
  <2> QED
    BY <2>1, <2>2
<1> HIDE DEF X
<1>4. \A k \in DOMAIN units : units[k] \in X
  BY <1>2
<1> QED
  BY <1>2, <1>3, <1>4

\* A batch is the next units, at least one.
LEMMA BatchIs ==
    ASSUME NEW X, units \in Seq(X), NEW v \in Nat, v < Len(units)
    PROVE  \E n \in Nat \ {0} : /\ Len(Batch(v + 1)) = n /\ v + n <= Len(units)
                                /\ \A k \in 1..n : Batch(v + 1)[k] = units[v + k]
<1> DEFINE last == IF (v + 1) + BatchSize - 1 < Len(units) THEN (v + 1) + BatchSize - 1 ELSE Len(units)
<1>1. BatchSize \in Nat \ {0} /\ Len(units) \in Nat
  BY BatchAssumption
<1>2. last \in Nat /\ v + 1 <= last /\ last <= Len(units)
  BY <1>1
<1>3. Batch(v + 1) = SubSeq(units, v + 1, last)
  BY DEF Batch
<1> HIDE DEF last
<1>4. Len(SubSeq(units, v + 1, last)) = last - v /\ last - v \in Nat \ {0} /\ v + (last - v) <= Len(units)
  BY <1>1, <1>2
<1>5. \A k \in 1..(last - v) : SubSeq(units, v + 1, last)[k] = units[v + k]
  BY <1>1, <1>2
<1> QED
  BY <1>3, <1>4, <1>5

\* One list after another, place by place.
LEMMA ConcatFacts ==
    ASSUME NEW X, NEW a \in Seq(X), NEW b \in Seq(X)
    PROVE  /\ a \o b \in Seq(X) /\ Len(a \o b) = Len(a) + Len(b)
           /\ \A k \in 1..Len(a) : (a \o b)[k] = a[k]
           /\ \A k \in 1..Len(b) : (a \o b)[Len(a) + k] = b[k]
OBVIOUS

\* What a batch adds stands where its units do.
LEMMA BatchVouched ==
    ASSUME RowsInv, phase = "embed", Len(vectors) < Len(units),
           NEW reply \in Replies(Batch(Len(vectors) + 1)),
           Len(Embed(reply)) = Len(Batch(Len(vectors) + 1))
    PROVE  LET all == vectors \o Embed(reply)
           IN  /\ all \in Seq(Vectors) /\ Len(all) <= Len(units)
               /\ \A k \in 1..Len(all) : all[k].of = units[k].id
<1> DEFINE v == Len(vectors)
           found == Embed(reply)
           all == vectors \o found
<1>1. /\ vectors \in Seq(Vectors) /\ v \in Nat
      /\ \A k \in 1..v : vectors[k].of = units[k].id
  BY DEF RowsInv, Vouched
<1>2. units \in Seq(Elements(units)) /\ Len(units) \in Nat /\ DOMAIN units = 1..Len(units)
      /\ \A k \in DOMAIN units : units[k].id \in Ids
  BY UnitsTyped DEF RowsInv
<1>3. PICK n \in Nat \ {0} : /\ Len(Batch(v + 1)) = n /\ v + n <= Len(units)
                             /\ \A k \in 1..n : Batch(v + 1)[k] = units[v + k]
  <2> HIDE DEF v
  <2> QED
    BY <1>1, <1>2, BatchIs DEF v
<1>4. \A k \in 1..n : v + k \in DOMAIN units
  BY <1>1, <1>2, <1>3
<1>5. \A k \in 1..n : Batch(v + 1)[k].id \in Ids
  BY <1>2, <1>3, <1>4
<1>6. found \in Seq(Vectors) /\ \A k \in 1..n : found[k].of = Batch(v + 1)[k].id
  BY <1>3, <1>5, ReplyFacts
<1>7. Len(found) = n
  BY <1>3
<1> HIDE DEF found, v, all
<1>8. /\ all \in Seq(Vectors) /\ Len(all) = v + n
      /\ \A k \in 1..v : all[k] = vectors[k]
      /\ \A k \in 1..n : all[v + k] = found[k]
  <2>1. vectors \in Seq(Vectors) /\ found \in Seq(Vectors)
    BY <1>1, <1>6
  <2>2. all \in Seq(Vectors) /\ Len(all) = Len(vectors) + Len(found)
    BY <2>1, ConcatFacts DEF all
  <2>3. \A k \in 1..Len(vectors) : all[k] = vectors[k]
    BY <2>1, ConcatFacts DEF all
  <2>4. \A k \in 1..Len(found) : all[Len(vectors) + k] = found[k]
    BY <2>1, ConcatFacts DEF all
  <2> QED
    BY <1>7, <2>2, <2>3, <2>4 DEF v
<1>9. ASSUME NEW k \in 1..(v + n) PROVE all[k].of = units[k].id
  <2>1. CASE k \in 1..v
    BY <2>1, <1>1, <1>8
  <2>2. CASE k \notin 1..v
    <3>1. k - v \in 1..n /\ v + (k - v) = k
      BY <2>2, <1>1
    <3>2. all[k] = found[k - v] /\ Batch(v + 1)[k - v] = units[k]
      BY <3>1, <1>8, <1>3
    <3> QED
      BY <3>1, <3>2, <1>6
  <2> QED
    BY <2>1, <2>2
<1> QED
  BY <1>3, <1>8, <1>9 DEF all, found

\* So does what a single call adds.
LEMMA SingleVouched ==
    ASSUME RowsInv, phase = "embed", Len(vectors) < Len(units), NEW s \in Shapes \cup {"ok"}
    PROVE  LET all == Append(vectors, [index |-> -1, of |-> units[Len(vectors) + 1].id, shape |-> s])
           IN  /\ all \in Seq(Vectors) /\ Len(all) <= Len(units)
               /\ \A k \in 1..Len(all) : all[k].of = units[k].id
<1> DEFINE e == [index |-> -1, of |-> units[Len(vectors) + 1].id, shape |-> s]
<1>1. /\ vectors \in Seq(Vectors) /\ Len(vectors) \in Nat
      /\ \A k \in 1..Len(vectors) : vectors[k].of = units[k].id
  BY DEF RowsInv, Vouched
<1>2. Len(units) \in Nat /\ Len(vectors) + 1 \in DOMAIN units /\ \A k \in DOMAIN units : units[k].id \in Ids
  BY <1>1, UnitsTyped DEF RowsInv
<1>3. e \in Vectors /\ e.of = units[Len(vectors) + 1].id
  BY <1>2 DEF Vectors
<1> HIDE DEF e
<1>4. /\ Append(vectors, e) \in Seq(Vectors) /\ Len(Append(vectors, e)) = Len(vectors) + 1
      /\ \A k \in 1..Len(vectors) : Append(vectors, e)[k] = vectors[k]
      /\ Append(vectors, e)[Len(vectors) + 1] = e
  BY <1>1, <1>3
<1>5. ASSUME NEW k \in 1..(Len(vectors) + 1) PROVE Append(vectors, e)[k].of = units[k].id
  <2>1. k \in 1..Len(vectors) \/ k = Len(vectors) + 1
    BY <1>1
  <2> QED
    BY <2>1, <1>1, <1>3, <1>4
<1>6. Len(vectors) + 1 <= Len(units)
  BY <1>1, <1>2
<1> QED
  BY <1>4, <1>5, <1>6 DEF e

\* What Write writes when the check lets it.
LEMMA WrittenRows ==
    ASSUME RowsInv, phase = "embed", NEW found,
           embedder = "none" \/ (found = vectors /\ CheckBatch(units, vectors))
    PROVE  LET all == {RowOf(k, found) : k \in DOMAIN units}
           IN  /\ {r.unit : r \in all} = Range(units)
               /\ embedder # "none" => \A r, s \in all :
                    /\ r.vector.of = r.unit.id
                    /\ r.vector.shape \notin Shapes \ {"short"}
                    /\ r.vector.shape = s.vector.shape
<1> DEFINE all == {RowOf(k, found) : k \in DOMAIN units}
<1>1. {r.unit : r \in all} = Range(units)
  <2>1. \A k \in DOMAIN units : RowOf(k, found).unit = units[k]
    BY DEF RowOf
  <2>2. {r.unit : r \in all} = {RowOf(k, found).unit : k \in DOMAIN units}
    OBVIOUS
  <2> QED
    BY <2>1, <2>2 DEF Range
<1>2. ASSUME embedder # "none", NEW r \in all, NEW s \in all
      PROVE  /\ r.vector.of = r.unit.id
             /\ r.vector.shape \notin Shapes \ {"short"}
             /\ r.vector.shape = s.vector.shape
  <2>1. PICK k \in DOMAIN units, j \in DOMAIN units : r = RowOf(k, found) /\ s = RowOf(j, found)
    BY <1>2
  <2>2. found = vectors /\ CheckBatch(units, vectors) /\ vectors \in Seq(Vectors)
        /\ \A i \in 1..Len(vectors) : vectors[i].of = units[i].id
    BY <1>2 DEF RowsInv, Vouched
  <2>3. Len(units) = Len(vectors) /\ \A i \in DOMAIN vectors : CheckVector(vectors[i], vectors[1])
    BY <2>2 DEF CheckBatch, CheckBatchArity
  <2>4. DOMAIN units = 1..Len(units) /\ DOMAIN vectors = 1..Len(vectors)
    BY <2>2, UnitsTyped DEF RowsInv
  <2>5. /\ r.unit = units[k] /\ r.vector = vectors[k] /\ s.vector = vectors[j]
        /\ k \in DOMAIN vectors /\ j \in DOMAIN vectors
    BY <2>1, <2>2, <2>3, <2>4 DEF RowOf
  <2>6. vectors[k].of = units[k].id /\ vectors[k].shape \in Shapes \cup {"ok"} /\ vectors[j].shape \in Shapes \cup {"ok"}
    <3>1. vectors[k] \in Vectors /\ vectors[j] \in Vectors /\ k \in 1..Len(vectors)
      BY <2>2, <2>4, <2>5
    <3>2. \A x \in Vectors : x.shape \in Shapes \cup {"ok"}
      BY DEF Vectors
    <3> QED
      BY <2>2, <3>1, <3>2
  <2>7. CheckVector(vectors[k], vectors[1]) /\ CheckVector(vectors[j], vectors[1])
    BY <2>3, <2>5
  <2> QED
    BY <2>5, <2>6, <2>7 DEF CheckVector, Shapes
<1> QED
  BY <1>1, <1>2

\* RowsCarryTheirOwnVectors holds in every state, for any document, batch size and
\* order of a reply: all rows are written or none, each with the vector of its own
\* text (embed/client.py, embed/batcher.py, contracts.py).
THEOREM RowsKeepTheirVectors == Spec => []RowsCarryTheirOwnVectors
<1>1. Init => RowsInv
  <2> SUFFICES ASSUME Init PROVE RowsInv
    OBVIOUS
  <2>1. FiguresInv
    BY FiguresStart
  <2>2. phase = "emit" /\ rows = {} /\ recorded = FALSE
    BY DEF Init
  <2> QED
    BY <2>1, <2>2 DEF RowsInv, Vouched, AllAtOnce
<1>2. RowsInv /\ [Next]_vars => RowsInv'
  <2> SUFFICES ASSUME RowsInv, [Next]_vars PROVE RowsInv'
    OBVIOUS
  <2>1. FiguresInv'
    BY FiguresStep DEF RowsInv
  <2>2. ASSUME phase # "done", UNCHANGED <<rows, recorded>>, phase' # "done"
        PROVE  AllAtOnce'
    BY <2>2 DEF RowsInv, AllAtOnce
  <2>3. ASSUME phase' \notin {"embed", "done"} PROVE Vouched'
    BY <2>3 DEF Vouched
  <2>4. CASE EmitRequests
    <3>1. phase = "emit" /\ phase' = "describe" /\ UNCHANGED <<rows, recorded>>
      BY <2>4 DEF EmitRequests
    <3> QED
      BY <3>1, <2>1, <2>2, <2>3 DEF RowsInv
  <2>5. CASE FulfillNext
    <3>1. phase = "describe" /\ phase' = "describe" /\ UNCHANGED <<rows, recorded>>
      BY <2>5 DEF FulfillNext
    <3> QED
      BY <3>1, <2>1, <2>2, <2>3 DEF RowsInv
  <2>6. CASE Assemble
    <3>1. phase = "describe" /\ phase' = "embed" /\ vectors' = <<>> /\ UNCHANGED <<rows, recorded>>
      BY <2>6 DEF Assemble
    <3>2. Len(units') \in Nat
      BY <3>1, <2>1, UnitsTyped
    <3>3. Vouched'
      BY <3>1, <3>2 DEF Vouched
    <3> QED
      BY <3>1, <3>3, <2>1, <2>2 DEF RowsInv
  <2>7. CASE EmbedBatch
    <3>1. /\ phase = "embed" /\ Len(vectors) < Len(units)
          /\ UNCHANGED <<units, rows, recorded>>
          /\ \/ phase' = "failed"
             \/ phase' = phase /\ \E reply \in Replies(Batch(Len(vectors) + 1)) :
                  Len(Embed(reply)) = Len(Batch(Len(vectors) + 1)) /\ vectors' = vectors \o Embed(reply)
      BY <2>7 DEF EmbedBatch, Fail, CheckBatchArity
    <3>2. AllAtOnce'
      BY <3>1, <2>2
    <3>3. Vouched'
      <4>1. CASE phase' = "failed"
        BY <4>1, <2>3
      <4>2. CASE phase' # "failed"
        <5>1. PICK reply \in Replies(Batch(Len(vectors) + 1)) :
                Len(Embed(reply)) = Len(Batch(Len(vectors) + 1)) /\ vectors' = vectors \o Embed(reply)
          BY <3>1, <4>2
        <5>2. /\ vectors' \in Seq(Vectors) /\ Len(vectors') <= Len(units)
              /\ \A k \in 1..Len(vectors') : vectors'[k].of = units[k].id
          BY <3>1, <5>1, BatchVouched
        <5> QED
          BY <3>1, <5>2 DEF Vouched
      <4> QED
        BY <4>1, <4>2
    <3> QED
      BY <2>1, <3>2, <3>3 DEF RowsInv
  <2>8. CASE EmbedSingle
    <3>1. /\ phase = "embed" /\ Len(vectors) < Len(units)
          /\ UNCHANGED <<units, rows, recorded>>
          /\ \/ phase' = "failed"
             \/ phase' = phase /\ \E s \in Shapes \cup {"ok"} :
                  vectors' = Append(vectors, [index |-> -1, of |-> units[Len(vectors) + 1].id, shape |-> s])
      BY <2>8 DEF EmbedSingle, Fail
    <3>2. AllAtOnce'
      BY <3>1, <2>2
    <3>3. Vouched'
      <4>1. CASE phase' = "failed"
        BY <4>1, <2>3
      <4>2. CASE phase' # "failed"
        <5>1. PICK s \in Shapes \cup {"ok"} :
                vectors' = Append(vectors, [index |-> -1, of |-> units[Len(vectors) + 1].id, shape |-> s])
          BY <3>1, <4>2
        <5>2. /\ vectors' \in Seq(Vectors) /\ Len(vectors') <= Len(units)
              /\ \A k \in 1..Len(vectors') : vectors'[k].of = units[k].id
          BY <3>1, <5>1, SingleVouched
        <5> QED
          BY <3>1, <5>2 DEF Vouched
      <4> QED
        BY <4>1, <4>2
    <3> QED
      BY <2>1, <3>2, <3>3 DEF RowsInv
  <2>9. CASE Write
    <3>1. phase = "embed" /\ UNCHANGED <<embedder, units, vectors>>
      BY <2>9 DEF Write
    <3>2. CASE phase' = "failed"
      <4>1. UNCHANGED <<rows, recorded>>
        BY <2>9, <3>2 DEF Write
      <4> QED
        BY <4>1, <3>1, <3>2, <2>1, <2>2, <2>3 DEF RowsInv
    <3>3. CASE phase' # "failed"
      <4> DEFINE found == IF embedder = "none" THEN [k \in DOMAIN units |-> Placeholder] ELSE vectors
      <4>1. /\ phase' = "done" /\ recorded' = TRUE
            /\ embedder # "none" => CheckBatch(units, found)
            /\ rows' = {RowOf(k, found) : k \in DOMAIN units}
        BY <2>9, <3>3 DEF Write, RowOf
      <4>2. embedder = "none" \/ (found = vectors /\ CheckBatch(units, vectors))
        BY <4>1
      <4> HIDE DEF found
      <4>3. /\ {r.unit : r \in rows'} = Range(units)
            /\ embedder # "none" => \A r, s \in rows' :
                 /\ r.vector.of = r.unit.id
                 /\ r.vector.shape \notin Shapes \ {"short"}
                 /\ r.vector.shape = s.vector.shape
        BY <3>1, <4>1, <4>2, WrittenRows
      <4>4. AllAtOnce'
        BY <3>1, <4>1, <4>3 DEF AllAtOnce, RowsCarryTheirOwnVectors
      <4>5. Vouched'
        BY <3>1, <4>1 DEF RowsInv, Vouched
      <4> QED
        BY <2>1, <4>4, <4>5 DEF RowsInv
    <3> QED
      BY <3>2, <3>3
  <2>10. CASE Retry
    <3>1. phase = "failed" /\ phase' = "emit" /\ UNCHANGED <<rows, recorded>>
      BY <2>10 DEF Retry
    <3> QED
      BY <3>1, <2>1, <2>2, <2>3 DEF RowsInv
  <2>11. CASE HostCall
    <3>1. phase = "emit" /\ phase' = "answered" /\ UNCHANGED <<rows, recorded>>
      BY <2>11 DEF HostCall
    <3> QED
      BY <3>1, <2>1, <2>2, <2>3 DEF RowsInv
  <2>12. CASE EndpointCall
    <3>1. phase = "emit" /\ phase' = "answered" /\ UNCHANGED <<rows, recorded>>
      BY <2>12 DEF EndpointCall
    <3> QED
      BY <3>1, <2>1, <2>2, <2>3 DEF RowsInv
  <2>13. CASE UNCHANGED vars
    BY <2>13, <2>1 DEF vars, RowsInv, Vouched, AllAtOnce, RowsCarryTheirOwnVectors
  <2> QED
    BY <2>4, <2>5, <2>6, <2>7, <2>8, <2>9, <2>10, <2>11, <2>12, <2>13 DEF Next
<1>3. RowsInv => RowsCarryTheirOwnVectors
  BY DEF RowsInv, AllAtOnce, RowsCarryTheirOwnVectors
<1> QED
  BY <1>1, <1>2, <1>3, PTL DEF Spec

-----------------------------------------------------------------------------
(* What a client is built from *)

\* What a client reads and writes, by its signals and whether it embeds.
LEMMA ClientReadsAndWrites ==
    ASSUME NEW cfg, Client(cfg) # <<>>
    PROVE  \E signals : \E embeds \in BOOLEAN :
             /\ Client(cfg).retrievers = Retrievers(signals, embeds)
             /\ Client(cfg).writes = Written(signals, embeds)
             /\ Client(cfg).authority = AuthorityPolicy(cfg)
<1> DEFINE signals == ResolveSignals(cfg[<<"signals">>])
           embeds == Built(cfg, "embedding")
<1>1. embeds \in BOOLEAN
  BY DEF Built
<1>2. /\ Client(cfg).retrievers = Retrievers(signals, embeds)
      /\ Client(cfg).writes = Written(signals, embeds)
      /\ Client(cfg).authority = AuthorityPolicy(cfg)
  BY DEF Client
<1> HIDE DEF signals, embeds
<1> QED BY <1>1, <1>2

\* Every layer that a question of a client reads is written by its ingest, and no
\* navigation is written that no question reads (config/signals.py, client.py: "ingest
\* builds only declared signals, ask queries only declared signals"), whatever the
\* configuration.
THEOREM ClientsReadWhatTheyWrite ==
    ASSUME NEW cfg, Client(cfg) # <<>>
    PROVE  LayersServed(Client(cfg))
<1>1. PICK signals : \E embeds \in BOOLEAN :
             /\ Client(cfg).retrievers = Retrievers(signals, embeds)
             /\ Client(cfg).writes = Written(signals, embeds)
  BY ClientReadsAndWrites
<1>2. PICK embeds \in BOOLEAN :
             /\ Client(cfg).retrievers = Retrievers(signals, embeds)
             /\ Client(cfg).writes = Written(signals, embeds)
  BY <1>1
<1> DEFINE W == Written(signals, embeds)
           R == Retrievers(signals, embeds)
<1>3. ASSUME "rows" \in W, NEW r \in R PROVE Reads(r) \subseteq W
  <2>1. CASE r = "vector"
    BY <1>3, <2>1 DEF Retrievers, Written, Reads
  <2>2. CASE r = "lexical"
    BY <1>3, <2>2 DEF Retrievers, Written, Reads
  <2>3. CASE r \in {"structure", "wiki"}
    BY <1>3, <2>3 DEF Retrievers, Written, Reads
  <2>4. CASE r = "graph"
    BY <1>3, <2>4 DEF Retrievers, Written, Reads
  <2> QED BY <2>1, <2>2, <2>3, <2>4 DEF Retrievers
<1>4. ASSUME NEW l \in W, l \notin {"rows", "vectors"} PROVE \E r \in R : l \in Reads(r)
  <2>1. CASE l \in {"structure", "wiki"}
    <3>1. l \in signals
      BY <1>4, <2>1 DEF Written
    <3>2. l \in R /\ l \in Reads(l)
      BY <2>1, <3>1 DEF Retrievers, Reads
    <3> QED BY <3>2
  <2>2. CASE l = "graph"
    <3>1. signals \cap {"graph", "community"} # {}
      BY <1>4, <2>2 DEF Written
    <3>2. "graph" \in R /\ l \in Reads("graph")
      BY <2>2, <3>1 DEF Retrievers, Reads
    <3> QED BY <3>2
  <2>3. l \in {"structure", "wiki", "graph"}
    BY <1>4 DEF Written
  <2> QED BY <2>1, <2>2, <2>3
<1> HIDE DEF W, R
<1>5. "rows" \in W => /\ \A r \in R : Reads(r) \subseteq W
                      /\ W \ {"rows", "vectors"} \subseteq UNION {Reads(r) : r \in R}
  BY <1>3, <1>4
<1> QED BY <1>2, <1>5 DEF LayersServed, W, R

\* A tier that is named has the last of its places for a rank.
LEMMA RankIs ==
    ASSUME NEW X, NEW order \in Seq(X), NEW tier, NEW i \in DOMAIN order, order[i] = tier
    PROVE  \E j \in DOMAIN order : order[j] = tier /\ i <= j /\ Rank(order, tier) = j - 1
<1> DEFINE n == Len(order)
           S == {k \in DOMAIN order : order[k] = tier}
           T == {n - k : k \in S}
<1>1. n \in Nat /\ DOMAIN order = 1..n /\ i \in S /\ S \subseteq 1..n
  OBVIOUS
<1>2. T \subseteq Nat /\ T # {}
  BY <1>1
<1> HIDE DEF S
<1>3. PICK m \in T : \A x \in T : m <= x
  <2> HIDE DEF T
  <2> QED BY <1>2, NatMin
<1>4. PICK j \in S : m = n - j
  OBVIOUS
<1>5. \A k \in S : j >= k
  <2> SUFFICES ASSUME NEW k \in S PROVE j >= k
    OBVIOUS
  <2>1. n - j <= n - k
    BY <1>3, <1>4
  <2>2. j \in Int /\ k \in Int /\ n \in Int
    BY <1>1
  <2> QED BY <2>1, <2>2
<1>6. Max(S) = j
  <2>1. \A x \in S : (\A k \in S : x >= k) => x = j
    <3> SUFFICES ASSUME NEW x \in S, \A k \in S : x >= k PROVE x = j
      OBVIOUS
    <3>1. x >= j /\ j >= x /\ x \in Int /\ j \in Int
      BY <1>1, <1>5
    <3> QED BY <3>1
  <2> HIDE DEF n
  <2> QED BY <1>5, <2>1 DEF Max
<1>7. Rank(order, tier) = Max(S) - 1
  BY DEF Rank, S
<1>8. j \in DOMAIN order /\ order[j] = tier /\ i <= j
  BY <1>1, <1>5 DEF S
<1> QED BY <1>6, <1>7, <1>8

\* A floor that is named among the tiers keeps out every tier before it, and every tier
\* that is not named (domain/authority.py, client.py), for any list of tiers in which no
\* tier has the name that stands for none.
THEOREM FloorsHold ==
    ASSUME NEW X, NEW cfg, Client(cfg) # <<>>, NEW tiers,
           Client(cfg).authority.order \in Seq(X), "none" \notin ToSet(Client(cfg).authority.order)
    PROVE  FloorHolds(Client(cfg).authority, tiers)
<1> DEFINE policy == Client(cfg).authority
           order == policy.order
           floor == policy.minimum
<1>1. policy = AuthorityPolicy(cfg)
  BY ClientReadsAndWrites
<1>2. policy.profile = "default" => order = <<>>
  BY <1>1 DEF AuthorityPolicy
<1> SUFFICES ASSUME floor \in ToSet(order), NEW t \in tiers, MeetsFloor(policy, t)
             PROVE  \E i, j \in DOMAIN order : order[i] = floor /\ order[j] = t /\ i <= j
  BY DEF FloorHolds
<1>3. order \in Seq(X) /\ floor # "none"
  OBVIOUS
<1>4. PICK k \in DOMAIN order : order[k] = floor
  BY DEF ToSet
<1>5. policy.profile # "default"
  BY <1>2, <1>4
<1>6. Rank(order, t) >= Rank(order, floor)
  BY <1>3, <1>5 DEF MeetsFloor, TierOf
<1> HIDE DEF policy
<1> HIDE DEF order, floor
<1>7. PICK i \in DOMAIN order : order[i] = floor /\ k <= i /\ Rank(order, floor) = i - 1
  BY <1>3, <1>4, RankIs
<1>8. i \in Nat /\ i >= 1 /\ DOMAIN order \subseteq Nat
  BY <1>3
<1>9. \E x \in DOMAIN order : order[x] = t
  <2> SUFFICES ASSUME ~\E x \in DOMAIN order : order[x] = t PROVE FALSE
    OBVIOUS
  <2>1. Rank(order, t) = -1
    BY DEF Rank, UnknownRank
  <2> QED BY <2>1, <1>6, <1>7, <1>8
<1>10. PICK j \in DOMAIN order : order[j] = t /\ Rank(order, t) = j - 1
  BY <1>3, <1>9, RankIs
<1>11. i <= j
  <2>1. j \in Nat
    BY <1>8
  <2> QED BY <2>1, <1>6, <1>7, <1>8, <1>10
<1> QED BY <1>7, <1>10, <1>11

-----------------------------------------------------------------------------
(* The pages of a crawl, and the files of a folder *)

\* Within keeps as many elements as there are places that hold one of the set.
LEMMA WithinLen ==
    ASSUME NEW X, NEW s \in Seq(X), NEW S
    PROVE  Len(Within(s, S)) = Cardinality({i \in DOMAIN s : s[i] \in S})
<1>1. PICK kept : /\ Within(s, S) = kept[Len(s)]
                  /\ kept[0] = <<>>
                  /\ \A i \in 1..Len(s) : kept[i] = IF s[i] \in S THEN Append(kept[i - 1], s[i])
                                                                 ELSE kept[i - 1]
  BY WithinUnfolds
<1> DEFINE At(i) == {j \in 1..i : s[j] \in S}
           Good(i) == kept[i] \in Seq(X) /\ IsFiniteSet(At(i)) /\ Len(kept[i]) = Cardinality(At(i))
           T == {i \in Nat : i <= Len(s) => Good(i)}
<1>2. 0 \in T
  <2>1. At(0) = {}
    OBVIOUS
  <2>2. kept[0] \in Seq(X) /\ Len(kept[0]) = 0
    BY <1>1
  <2> HIDE DEF At
  <2> QED BY <2>1, <2>2, FS_EmptySet
<1>3. ASSUME NEW i \in Nat, i \in T PROVE i + 1 \in T
  <2> SUFFICES ASSUME i + 1 <= Len(s) PROVE Good(i + 1)
    OBVIOUS
  <2>1. Good(i) /\ i + 1 \in 1..Len(s) /\ (i + 1) - 1 = i
    BY <1>3
  <2> DEFINE k == kept[i]
  <2>2. kept[i + 1] = IF s[i + 1] \in S THEN Append(k, s[i + 1]) ELSE k
    BY <2>1, <1>1
  <2>3. s[i + 1] \in X /\ k \in Seq(X)
    BY <2>1
  <2>4. CASE s[i + 1] \in S
    <3>1. At(i + 1) = At(i) \cup {i + 1} /\ i + 1 \notin At(i)
      BY <2>1, <2>4
    <3>2. Len(Append(k, s[i + 1])) = Len(k) + 1 /\ Append(k, s[i + 1]) \in Seq(X)
      BY <2>3
    <3>3. IsFiniteSet(At(i + 1)) /\ Cardinality(At(i + 1)) = Cardinality(At(i)) + 1
      <4> HIDE DEF At
      <4> QED BY <3>1, <2>1, FS_AddElement
    <3> HIDE DEF At
    <3> QED BY <3>2, <3>3, <2>1, <2>2, <2>4
  <2>5. CASE s[i + 1] \notin S
    <3>1. At(i + 1) = At(i)
      BY <2>1, <2>5
    <3> HIDE DEF At
    <3> QED BY <3>1, <2>1, <2>2, <2>3, <2>5
  <2> QED BY <2>4, <2>5
<1>4. \A i \in Nat : i \in T
  <2> HIDE DEF T
  <2> QED BY <1>2, <1>3, Induct
<1>5. Good(Len(s))
  <2> HIDE DEF Good
  <2>1. Len(s) \in Nat OBVIOUS
  <2> QED BY <2>1, <1>4
<1>6. At(Len(s)) = {i \in DOMAIN s : s[i] \in S}
  OBVIOUS
<1> QED
  BY <1>1, <1>5, <1>6

Edges(P) == [from : P, to : P]

Leaving(web, page) == {i \in DOMAIN web : web[i].from = page}

\* The links of a page are those that leave it.
LEMMA LinksAre ==
    ASSUME NEW P, NEW web \in Seq(Edges(P)), NEW page
    PROVE  /\ Links(web, page) \in Seq(P)
           /\ Elements(Links(web, page)) = {web[i].to : i \in Leaving(web, page)}
           /\ Len(Links(web, page)) = Cardinality(Leaving(web, page))
<1> DEFINE S == {link \in ToSet(web) : link.from = page}
           from == Within(web, S)
<1>1. Links(web, page) = [k \in DOMAIN from |-> from[k].to]
  BY DEF Links
<1>2. from \in Seq(Edges(P)) /\ Elements(from) = Elements(web) \cap S
  BY WithinIs
<1>3. Len(from) = Cardinality({i \in DOMAIN web : web[i] \in S})
  BY WithinLen
<1>4. {i \in DOMAIN web : web[i] \in S} = Leaving(web, page)
  BY DEF Leaving, ToSet
<1>5. Elements(from) = {web[i] : i \in Leaving(web, page)}
  BY <1>2 DEF Elements, Leaving, ToSet
<1> DEFINE links == [k \in DOMAIN from |-> from[k].to]
<1> HIDE DEF from
<1>6. DOMAIN from = 1..Len(from) /\ Len(from) \in Nat /\ \A k \in DOMAIN from : from[k] \in Edges(P)
  BY <1>2
<1>7. links \in Seq(P) /\ Len(links) = Len(from) /\ DOMAIN links = DOMAIN from
  <2>1. links \in [1..Len(from) -> P]
    BY <1>6 DEF Edges
  <2> QED BY <2>1, <1>6
<1>8. Elements(links) = {web[i].to : i \in Leaving(web, page)}
  <2>1. Elements(links) = {e.to : e \in Elements(from)}
    BY <1>7 DEF Elements
  <2>2. {e.to : e \in {web[i] : i \in Leaving(web, page)}} = {web[i].to : i \in Leaving(web, page)}
    OBVIOUS
  <2> QED BY <2>1, <2>2, <1>5
<1> QED
  BY <1>1, <1>3, <1>4, <1>7, <1>8

Entries(P) == [page : P, depth : Nat]

Adds(web, s, entry, new) ==
    /\ \A k \in DOMAIN new : /\ new[k].depth = entry.depth + 1
                             /\ \E i \in Leaving(web, entry.page) : new[k].page = web[i].to
    /\ \A i \in Leaving(web, entry.page) :
          \/ web[i].to \in s.seen \cup {entry.page}
          \/ \E k \in DOMAIN new : new[k].page = web[i].to
    /\ Len(new) <= Cardinality(Leaving(web, entry.page))

\* What a page puts into the queue: the pages it links to that were not seen, behind
\* what was there.
LEMMA EnqueueIs ==
    ASSUME NEW P, NEW web \in Seq(Edges(P)), NEW s, NEW entry \in Entries(P),
           s.queue \in Seq(Entries(P)), s.queue # <<>>
    PROVE  \E new \in Seq(Entries(P)) : Enqueue(web, s, entry) = Tail(s.queue) \o new /\ Adds(web, s, entry, new)
<1> DEFINE links == Links(web, entry.page)
           S == ToSet(links) \ (s.seen \cup {entry.page})
           kept == Within(links, S)
           new == [k \in DOMAIN kept |-> Queued(kept[k], entry.depth + 1)]
<1>1. Enqueue(web, s, entry) = Tail(s.queue) \o new
  BY DEF Enqueue
<1>2. /\ links \in Seq(P)
      /\ Elements(links) = {web[i].to : i \in Leaving(web, entry.page)}
      /\ Len(links) = Cardinality(Leaving(web, entry.page))
  BY LinksAre
<1>3. kept \in Seq(P) /\ Elements(kept) = Elements(links) \cap S /\ Len(kept) <= Len(links)
  <2> HIDE DEF links, S
  <2> QED BY <1>2, WithinIs
<1>4. S = Elements(links) \ (s.seen \cup {entry.page})
  BY DEF ToSet, Elements
<1> HIDE DEF links, kept, S
<1>5. DOMAIN kept = 1..Len(kept) /\ Len(kept) \in Nat /\ \A k \in DOMAIN kept : kept[k] \in P
  BY <1>3
<1>6. entry.depth + 1 \in Nat
  BY DEF Entries
<1>7. /\ new \in Seq(Entries(P)) /\ Len(new) = Len(kept) /\ DOMAIN new = DOMAIN kept
      /\ \A k \in DOMAIN new : new[k].depth = entry.depth + 1 /\ new[k].page = kept[k]
  <2>1. new \in [1..Len(kept) -> Entries(P)]
    BY <1>5, <1>6 DEF Entries, Queued
  <2> QED BY <2>1, <1>5 DEF Queued
<1> HIDE DEF new
<1>8. ASSUME NEW k \in DOMAIN new
      PROVE  \E i \in Leaving(web, entry.page) : new[k].page = web[i].to
  <2>1. kept[k] \in Elements(kept)
    BY <1>7 DEF Elements
  <2> QED BY <2>1, <1>7, <1>3, <1>2
<1>9. ASSUME NEW i \in Leaving(web, entry.page), web[i].to \notin s.seen \cup {entry.page}
      PROVE  \E k \in DOMAIN new : new[k].page = web[i].to
  <2>1. web[i].to \in Elements(kept)
    BY <1>2, <1>3, <1>4, <1>9
  <2>2. PICK k \in DOMAIN kept : kept[k] = web[i].to
    BY <2>1 DEF Elements
  <2> QED BY <2>2, <1>7
<1> QED
  <2>1. Adds(web, s, entry, new)
    BY <1>2, <1>3, <1>7, <1>8, <1>9 DEF Adds
  <2> QED BY <1>1, <1>7, <2>1

Fair(seed, pages) == {p \in pages : DomainOf[p] = DomainOf[seed] /\ p \notin Unreached}

Further(web, seed, pages) ==
    pages \cup Fair(seed, {web[i].to : i \in {i \in DOMAIN web : web[i].from \in pages}})

Reaches(P, web, seed, depth, reach) ==
    /\ reach[0] = Fair(seed, {seed})
    /\ \A k \in 1..depth : reach[k] = Further(web, seed, reach[k - 1])
    /\ \A k \in 0..depth : reach[k] \in SUBSET P

\* The pages within so many links, one link after the other.
LEMMA ReachUnfolds ==
    ASSUME NEW P, NEW web \in Seq(Edges(P)), NEW seed \in P, NEW depth \in Nat
    PROVE  \E reach : Reached(web, seed, depth) = reach[depth] /\ Reaches(P, web, seed, depth, reach)
<1> DEFINE V == SUBSET P
           G == [k \in 1..depth |-> [pages \in V |-> Further(web, seed, pages)]]
           K(g) == [k \in 0..depth |-> IF k = 0 THEN Fair(seed, {seed}) ELSE Further(web, seed, g[k - 1])]
           reach == CHOOSE g : g = K(g)
<1>0. ASSUME NEW pages \in V PROVE Further(web, seed, pages) \in V
  <2>1. \A i \in DOMAIN web : web[i] \in Edges(P)
    OBVIOUS
  <2>2. \A i \in DOMAIN web : web[i].to \in P
    BY <2>1 DEF Edges
  <2> QED BY <2>2 DEF Further, Fair
<1>1. G \in [1..depth -> [V -> V]] /\ Fair(seed, {seed}) \in V
  BY <1>0 DEF Fair
<1>2. PICK f : Recurs(f, depth, V, Fair(seed, {seed}), G)
  <2> HIDE DEF V, G
  <2> QED BY <1>1, SeqRecursion
<1>3. f \in [0..depth -> V] /\ f[0] = Fair(seed, {seed}) /\ \A i \in 1..depth : f[i] = G[i][f[i - 1]]
  BY <1>2 DEF Recurs
<1>4. f = K(f)
  <2>1. \A i \in 0..depth : f[i] = K(f)[i]
    <3> SUFFICES ASSUME NEW i \in 0..depth PROVE f[i] = K(f)[i]
      OBVIOUS
    <3>1. CASE i = 0 BY <3>1, <1>3
    <3>2. CASE i # 0
      <4>1. i \in 1..depth /\ i - 1 \in 0..depth BY <3>2
      <4>2. f[i] = G[i][f[i - 1]] /\ f[i - 1] \in V BY <4>1, <1>3
      <4> QED BY <4>1, <4>2, <3>2
    <3> QED BY <3>1, <3>2
  <2>2. f = [i \in 0..depth |-> f[i]]
    BY <1>3
  <2> QED BY <2>1, <2>2
<1>5. reach = K(reach)
  BY <1>4
<1>6. Reached(web, seed, depth) = reach[depth]
  BY DEF Reached, Further, Fair
<1>7. \A k \in 0..depth : reach[k] = IF k = 0 THEN Fair(seed, {seed}) ELSE Further(web, seed, reach[k - 1])
  <2> HIDE DEF reach
  <2>1. \A i \in 0..depth : reach[i] = K(reach)[i]
     BY <1>5
  <2> QED BY <2>1
<1> HIDE DEF reach
<1>8. \A k \in 0..depth : reach[k] \in V
  <2> DEFINE T == {k \in Nat : k <= depth => reach[k] \in V}
  <2>0. 0 \in 0..depth
    BY <1>1
  <2>1. 0 \in T
    BY <1>7, <1>1, <2>0
  <2>2. ASSUME NEW k \in Nat, k \in T PROVE k + 1 \in T
    <3> SUFFICES ASSUME k + 1 <= depth PROVE reach[k + 1] \in V
      OBVIOUS
    <3>1. k + 1 \in 0..depth /\ (k + 1) - 1 = k /\ k + 1 # 0 /\ reach[k] \in V
      BY <2>2
    <3> QED BY <3>1, <1>7, <1>0
  <2> HIDE DEF T
  <2>3. \A k \in Nat : k \in T
    BY <2>1, <2>2, Induct
  <2> QED BY <2>3 DEF T
<1>9. \A k \in 1..depth : reach[k] = Further(web, seed, reach[k - 1])
  <2> SUFFICES ASSUME NEW k \in 1..depth PROVE reach[k] = Further(web, seed, reach[k - 1])
    OBVIOUS
  <2>1. k \in 0..depth /\ k # 0 OBVIOUS
  <2> QED BY <2>1, <1>7
<1>10. Reaches(P, web, seed, depth, reach)
  <2>1. 0 \in 0..depth OBVIOUS
  <2>2. reach[0] = Fair(seed, {seed})
    BY <1>7, <2>1
  <2> QED BY <1>8, <1>9, <2>2 DEF Reaches
<1> QED
  BY <1>6, <1>10

\* What is reached without a link is the first page, if it is to be had.
LEMMA ReachedFirst ==
    ASSUME NEW P, NEW web \in Seq(Edges(P)), NEW seed \in P
    PROVE  Reached(web, seed, 0) = Fair(seed, {seed})
<1>1. PICK f : Reached(web, seed, 0) = f[0] /\ Reaches(P, web, seed, 0, f)
  <2>1. 0 \in Nat OBVIOUS
  <2> QED BY <2>1, ReachUnfolds
<1> QED
  BY <1>1 DEF Reaches

\* What is reached by pages of the web.
LEMMA ReachedType ==
    ASSUME NEW P, NEW web \in Seq(Edges(P)), NEW seed \in P, NEW depth \in Nat
    PROVE  Reached(web, seed, depth) \in SUBSET P
<1>1. PICK f : Reached(web, seed, depth) = f[depth] /\ Reaches(P, web, seed, depth, f)
  BY ReachUnfolds
<1> QED
  BY <1>1 DEF Reaches

\* What is reached with one more link.
LEMMA ReachedNext ==
    ASSUME NEW P, NEW web \in Seq(Edges(P)), NEW seed \in P, NEW depth \in Nat
    PROVE  Reached(web, seed, depth + 1) = Further(web, seed, Reached(web, seed, depth))
<1>2. PICK f : Reached(web, seed, depth) = f[depth] /\ Reaches(P, web, seed, depth, f)
  BY ReachUnfolds
<1>3. PICK g : Reached(web, seed, depth + 1) = g[depth + 1] /\ Reaches(P, web, seed, depth + 1, g)
  <2>1. depth + 1 \in Nat OBVIOUS
  <2> QED BY <2>1, ReachUnfolds
<1> DEFINE T == {k \in Nat : k <= depth => f[k] = g[k]}
<1>4. 0 \in T
  BY <1>2, <1>3 DEF Reaches
<1>5. ASSUME NEW k \in Nat, k \in T PROVE k + 1 \in T
  <2> SUFFICES ASSUME k + 1 <= depth PROVE f[k + 1] = g[k + 1]
    OBVIOUS
  <2>1. k + 1 \in 1..depth /\ k + 1 \in 1..(depth + 1) /\ (k + 1) - 1 = k /\ f[k] = g[k]
    BY <1>5
  <2> QED BY <2>1, <1>2, <1>3 DEF Reaches
<1>6. \A k \in Nat : k \in T
  <2> HIDE DEF T
  <2> QED BY <1>4, <1>5, Induct
<1>7. f[depth] = g[depth]
  BY <1>6
<1>8. depth + 1 \in 1..(depth + 1) /\ (depth + 1) - 1 = depth /\ depth \in 0..depth
  OBVIOUS
<1> QED
  BY <1>2, <1>3, <1>7, <1>8 DEF Reaches

Crawling(P, seed) ==
    [queue : Seq(Entries(P)), seen : SUBSET P, results : Seq(P), domain : {DomainOf[seed]}]

FirstTurn(seed) == [queue |-> <<Queued(seed, 0)>>, seen |-> {}, results |-> <<>>, domain |-> DomainOf[seed]]

Stopped(s, maxPages) == s.queue = <<>> \/ Len(s.results) >= maxPages

Visited(web, seed, s, t, maxDepth) ==
    LET e == Head(s.queue)
    IN  \/ /\ e.page \in s.seen \/ DomainOf[e.page] # DomainOf[seed]
           /\ t.queue = Tail(s.queue) /\ t.seen = s.seen /\ t.results = s.results
        \/ /\ e.page \notin s.seen /\ DomainOf[e.page] = DomainOf[seed] /\ e.page \in Unreached
           /\ t.queue = Tail(s.queue) /\ t.seen = s.seen \cup {e.page} /\ t.results = s.results
        \/ /\ e.page \notin s.seen /\ DomainOf[e.page] = DomainOf[seed] /\ e.page \notin Unreached
           /\ t.queue = IF e.depth >= maxDepth THEN Tail(s.queue) ELSE Enqueue(web, s, e)
           /\ t.seen = s.seen \cup {e.page} /\ t.results = Append(s.results, e.page)

\* The cases of one turn.
LEMMA VisitIs ==
    ASSUME NEW P, NEW web \in Seq(Edges(P)), NEW seed \in P, NEW maxPages \in Nat, NEW maxDepth \in Nat,
           NEW s \in Crawling(P, seed), ~Stopped(s, maxPages)
    PROVE  /\ Head(s.queue) \in Entries(P) /\ Visit(web, s, maxPages, maxDepth) \in Crawling(P, seed)
           /\ Visited(web, seed, s, Visit(web, s, maxPages, maxDepth), maxDepth)
<1> DEFINE e == Head(s.queue)
           t == Visit(web, s, maxPages, maxDepth)
<1>1. s.queue \in Seq(Entries(P)) /\ s.queue # <<>> /\ s.seen \in SUBSET P /\ s.results \in Seq(P) /\ s.domain = DomainOf[seed]
  BY DEF Crawling, Stopped
<1>2. e \in Entries(P) /\ Tail(s.queue) \in Seq(Entries(P))
  BY <1>1
<1>3. e.page \in P
  BY <1>2 DEF Entries
<1>4. Enqueue(web, s, e) \in Seq(Entries(P))
  <2> HIDE DEF e
  <2>1. \E new \in Seq(Entries(P)) : Enqueue(web, s, e) = Tail(s.queue) \o new
    <3>1. s.queue \in Seq(Entries(P)) /\ s.queue # <<>> BY <1>1
    <3> QED BY <3>1, <1>2, EnqueueIs
  <2>2. PICK new \in Seq(Entries(P)) : Enqueue(web, s, e) = Tail(s.queue) \o new
    BY <2>1
  <2> DEFINE rest == Tail(s.queue)
  <2>3. rest \in Seq(Entries(P)) /\ Enqueue(web, s, e) = rest \o new
    BY <1>2, <2>2
  <2> HIDE DEF rest
  <2> QED BY <2>3
<1>5. Append(s.results, e.page) \in Seq(P)
  BY <1>1, <1>3
<1>6. ~(s.queue = <<>> \/ Len(s.results) >= maxPages)
  BY DEF Stopped
<1>7. t = IF e.page \in s.seen \/ DomainOf[e.page] # s.domain
          THEN [s EXCEPT !.queue = Tail(@)]
          ELSE IF e.page \in Unreached THEN [s EXCEPT !.queue = Tail(@), !.seen = s.seen \cup {e.page}]
          ELSE [s EXCEPT !.queue = IF e.depth >= maxDepth THEN Tail(@) ELSE Enqueue(web, s, e),
                         !.seen = s.seen \cup {e.page},
                         !.results = Append(@, e.page)]
  BY <1>6 DEF Visit
<1> DEFINE enq == Enqueue(web, s, e)
<1>8. enq \in Seq(Entries(P)) BY <1>4
<1>9. t = IF e.page \in s.seen \/ DomainOf[e.page] # s.domain
          THEN [s EXCEPT !.queue = Tail(@)]
          ELSE IF e.page \in Unreached THEN [s EXCEPT !.queue = Tail(@), !.seen = s.seen \cup {e.page}]
          ELSE [s EXCEPT !.queue = IF e.depth >= maxDepth THEN Tail(@) ELSE enq,
                         !.seen = s.seen \cup {e.page},
                         !.results = Append(@, e.page)]
  BY <1>7
<1> HIDE DEF enq, e, t
<1>10. CASE e.page \in s.seen \/ DomainOf[e.page] # s.domain
  <2>1. t = [s EXCEPT !.queue = Tail(@)]
    BY <1>9, <1>10
  <2>2. t \in Crawling(P, seed) /\ t.queue = Tail(s.queue) /\ t.seen = s.seen /\ t.results = s.results
    BY <2>1, <1>1, <1>2 DEF Crawling
  <2>3. Visited(web, seed, s, t, maxDepth)
    BY <2>2, <1>1, <1>10 DEF Visited, e
  <2> QED BY <2>2, <2>3, <1>2 DEF e, t
<1>11. CASE e.page \notin s.seen /\ DomainOf[e.page] = s.domain /\ e.page \in Unreached
  <2>1. t = [s EXCEPT !.queue = Tail(@), !.seen = s.seen \cup {e.page}]
    BY <1>9, <1>11
  <2>2. t \in Crawling(P, seed) /\ t.queue = Tail(s.queue) /\ t.seen = s.seen \cup {e.page} /\ t.results = s.results
    BY <2>1, <1>1, <1>2, <1>3 DEF Crawling
  <2>3. Visited(web, seed, s, t, maxDepth)
    BY <2>2, <1>1, <1>11 DEF Visited, e
  <2> QED BY <2>2, <2>3, <1>2 DEF e, t
<1>12. CASE e.page \notin s.seen /\ DomainOf[e.page] = s.domain /\ e.page \notin Unreached
  <2>1. t = [s EXCEPT !.queue = IF e.depth >= maxDepth THEN Tail(@) ELSE enq,
                      !.seen = s.seen \cup {e.page}, !.results = Append(@, e.page)]
    BY <1>9, <1>12
  <2>2. /\ t \in Crawling(P, seed) /\ t.queue = (IF e.depth >= maxDepth THEN Tail(s.queue) ELSE enq)
        /\ t.seen = s.seen \cup {e.page} /\ t.results = Append(s.results, e.page)
    BY <2>1, <1>1, <1>2, <1>3, <1>5, <1>8 DEF Crawling
  <2>3. Visited(web, seed, s, t, maxDepth)
    BY <2>2, <1>1, <1>12 DEF Visited, e, enq
  <2> QED BY <2>2, <2>3, <1>2 DEF e, t
<1> QED
  BY <1>10, <1>11, <1>12, <1>1

Turns(P, web, seed, maxPages, maxDepth, turn) ==
    /\ turn[0] = FirstTurn(seed)
    /\ \A k \in 1..(Len(web) + 1) : turn[k] = Visit(web, turn[k - 1], maxPages, maxDepth)
    /\ \A k \in 0..(Len(web) + 1) : turn[k] \in Crawling(P, seed)

\* A crawl is the loop's turns from its start, none of which leaves its type.
LEMMA CrawlUnfolds ==
    ASSUME NEW P, NEW web \in Seq(Edges(P)), NEW seed \in P, NEW maxPages \in Nat, NEW maxDepth \in Nat
    PROVE  \E turn : /\ CrawlFrom(web, seed, maxPages, maxDepth) = turn[Len(web) + 1].results
                     /\ Turns(P, web, seed, maxPages, maxDepth, turn)
<1> DEFINE V == Crawling(P, seed)
           n == Len(web) + 1
           step(s) == Visit(web, s, maxPages, maxDepth)
           G == [k \in 1..n |-> [s \in V |-> step(s)]]
           K(g) == [k \in 0..n |-> IF k = 0 THEN FirstTurn(seed) ELSE step(g[k - 1])]
           turn == CHOOSE g : g = K(g)
<1>0. ASSUME NEW s \in V PROVE step(s) \in V
  <2>1. CASE Stopped(s, maxPages)
    BY <2>1 DEF Stopped, Visit
  <2>2. CASE ~Stopped(s, maxPages)
    BY <2>2, VisitIs
  <2> QED BY <2>1, <2>2
<1>1. G \in [1..n -> [V -> V]] /\ FirstTurn(seed) \in V /\ n \in Nat
  <2>1. FirstTurn(seed) \in V
    BY DEF FirstTurn, Crawling, Queued, Entries
  <2> HIDE DEF V, step
  <2> QED BY <2>1, <1>0
<1>2. PICK f : Recurs(f, n, V, FirstTurn(seed), G)
  <2> HIDE DEF V, G, n
  <2> QED BY <1>1, SeqRecursion
<1>3. f \in [0..n -> V] /\ f[0] = FirstTurn(seed) /\ \A i \in 1..n : f[i] = G[i][f[i - 1]]
  BY <1>2 DEF Recurs
<1>4. f = K(f)
  <2> HIDE DEF V, n, step
  <2>1. \A i \in 0..n : f[i] = K(f)[i]
    <3> SUFFICES ASSUME NEW i \in 0..n PROVE f[i] = K(f)[i]
      OBVIOUS
    <3>1. CASE i = 0 BY <3>1, <1>3
    <3>2. CASE i # 0
      <4>1. i \in 1..n /\ i - 1 \in 0..n BY <3>2, <1>1
      <4>2. f[i] = G[i][f[i - 1]] /\ f[i - 1] \in V BY <4>1, <1>3
      <4> QED BY <4>1, <4>2, <3>2
    <3> QED BY <3>1, <3>2
  <2>2. f = [i \in 0..n |-> f[i]]
    BY <1>3
  <2> QED BY <2>1, <2>2
<1>5. turn = K(turn)
  BY <1>4
<1>6. CrawlFrom(web, seed, maxPages, maxDepth) = turn[n].results
  BY DEF CrawlFrom, FirstTurn
<1>7. \A k \in 0..n : turn[k] = IF k = 0 THEN FirstTurn(seed) ELSE step(turn[k - 1])
  <2> HIDE DEF turn, step, n
  <2>1. \A i \in 0..n : turn[i] = K(turn)[i]
     BY <1>5
  <2> QED BY <2>1
<1> HIDE DEF turn
<1>8. \A k \in 0..n : turn[k] \in V
  <2> DEFINE T == {k \in Nat : k <= n => turn[k] \in V}
  <2> HIDE DEF V, step, n
  <2>0. 0 \in 0..n
    BY <1>1
  <2>1. 0 \in T
    BY <1>7, <1>1, <2>0
  <2>2. ASSUME NEW k \in Nat, k \in T PROVE k + 1 \in T
    <3> SUFFICES ASSUME k + 1 <= n PROVE turn[k + 1] \in V
      OBVIOUS
    <3>1. k + 1 \in 0..n /\ (k + 1) - 1 = k /\ k + 1 # 0 /\ turn[k] \in V
      BY <2>2, <1>1
    <3> QED BY <3>1, <1>7, <1>0
  <2> HIDE DEF T
  <2>3. \A k \in Nat : k \in T
    BY <2>1, <2>2, Induct
  <2> QED BY <2>3 DEF T
<1>9. \A k \in 1..n : turn[k] = step(turn[k - 1])
  <2> HIDE DEF step, n
  <2> SUFFICES ASSUME NEW k \in 1..n PROVE turn[k] = step(turn[k - 1])
    OBVIOUS
  <2>1. k \in 0..n /\ k # 0 BY <1>1
  <2> QED BY <2>1, <1>7
<1>10. turn[0] = FirstTurn(seed)
  <2>1. 0 \in 0..n BY <1>1
  <2> QED BY <1>7, <2>1
<1>11. Turns(P, web, seed, maxPages, maxDepth, turn)
  BY <1>8, <1>9, <1>10 DEF Turns
<1> QED
  BY <1>6, <1>11

IsFair(seed, p) == DomainOf[p] = DomainOf[seed] /\ p \notin Unreached

\* What is within so many links is to be had, and is within one more; so is a page to
\* be had that it links to.
LEMMA ReachedGoesOn ==
    ASSUME NEW P, NEW web \in Seq(Edges(P)), NEW seed \in P, NEW depth \in Nat
    PROVE  /\ \A p \in Reached(web, seed, depth) : p \in P /\ IsFair(seed, p)
           /\ Reached(web, seed, depth) \subseteq Reached(web, seed, depth + 1)
           /\ \A p \in Reached(web, seed, depth) : \A i \in Leaving(web, p) :
                 IsFair(seed, web[i].to) => web[i].to \in Reached(web, seed, depth + 1)
           /\ \A q \in Reached(web, seed, depth + 1) :
                 \/ q \in Reached(web, seed, depth)
                 \/ \E p \in Reached(web, seed, depth) : \E i \in Leaving(web, p) : web[i].to = q
<1> DEFINE R(d) == Reached(web, seed, d)
           T == {d \in Nat : \A p \in R(d) : IsFair(seed, p)}
<1>1. ASSUME NEW d \in Nat PROVE R(d + 1) = Further(web, seed, R(d)) /\ R(d) \in SUBSET P
  <2>1. Reached(web, seed, d + 1) = Further(web, seed, Reached(web, seed, d))
    BY ReachedNext
  <2>2. Reached(web, seed, d) \in SUBSET P
    BY ReachedType
  <2> QED BY <2>1, <2>2
<1>2. R(0) = Fair(seed, {seed})
  BY ReachedFirst
<1> HIDE DEF R
<1>3. 0 \in T
  BY <1>2 DEF Fair, IsFair
<1>4. ASSUME NEW d \in Nat, d \in T PROVE d + 1 \in T
  BY <1>4, <1>1 DEF Further, Fair, IsFair
<1>5. depth \in T
  <2> HIDE DEF T
  <2> QED BY <1>3, <1>4, Induct
<1>6. R(depth + 1) = Further(web, seed, R(depth)) /\ R(depth) \in SUBSET P
  BY <1>1
<1>7. R(depth) \subseteq R(depth + 1)
  BY <1>6 DEF Further
<1>8. ASSUME NEW p \in R(depth), NEW i \in Leaving(web, p), IsFair(seed, web[i].to)
      PROVE  web[i].to \in R(depth + 1)
  <2>1. i \in DOMAIN web /\ web[i].from = p
    BY DEF Leaving
  <2>2. web[i].to \in Fair(seed, {web[j].to : j \in {j \in DOMAIN web : web[j].from \in R(depth)}})
    BY <1>8, <2>1 DEF Fair, IsFair
  <2> QED BY <2>2, <1>6 DEF Further
<1>9. ASSUME NEW q \in R(depth + 1), q \notin R(depth)
      PROVE  \E p \in R(depth) : \E i \in Leaving(web, p) : web[i].to = q
  <2>1. q \in {web[j].to : j \in {j \in DOMAIN web : web[j].from \in R(depth)}}
    BY <1>9, <1>6 DEF Further, Fair
  <2>2. PICK j \in DOMAIN web : web[j].from \in R(depth) /\ web[j].to = q
    BY <2>1
  <2>3. j \in Leaving(web, web[j].from)
    BY <2>2 DEF Leaving
  <2> QED BY <2>2, <2>3
<1> QED
  BY <1>5, <1>6, <1>7, <1>8, <1>9 DEF R

ByDepth(q) ==
    \A j, k \in DOMAIN q : j <= k => q[j].depth <= q[k].depth /\ q[k].depth <= q[j].depth + 1

\* A queue that loses its first entry and gets new ones, one link deeper, behind the
\* others.
LEMMA Popped ==
    ASSUME NEW P, NEW q \in Seq(Entries(P)), q # <<>>, ByDepth(q), NEW new \in Seq(Entries(P)),
           \A k \in DOMAIN new : new[k].depth = Head(q).depth + 1,
           NEW t, t = Tail(q) \o new
    PROVE  /\ t \in Seq(Entries(P)) /\ ByDepth(t)
           /\ \A e \in Elements(t) : Head(q).depth <= e.depth
           /\ \A e \in Elements(q) : e = Head(q) \/ e \in Elements(t)
           /\ \A e \in Elements(new) : e \in Elements(t)
           /\ \A e \in Elements(t) : e \in Elements(q) \/ e \in Elements(new)
           /\ Len(t) = Len(q) - 1 + Len(new)
<1> DEFINE n == Len(q)  m == Len(new)  h == Head(q).depth
<1>1. n \in Nat /\ m \in Nat /\ n >= 1 /\ DOMAIN q = 1..n /\ DOMAIN new = 1..m
  BY EmptySeq
<1>2. Head(q) = q[1] /\ Tail(q) \in Seq(Entries(P)) /\ Len(Tail(q)) = n - 1 /\ \A k \in 1..(n - 1) : Tail(q)[k] = q[k + 1]
  BY <1>1
<1> DEFINE r == Tail(q)
<1>3. /\ t \in Seq(Entries(P)) /\ Len(t) = n - 1 + m
      /\ \A k \in 1..(n - 1 + m) : t[k] = IF k <= n - 1 THEN r[k] ELSE new[k - (n - 1)]
  <2>1. r \in Seq(Entries(P)) /\ Len(r) = n - 1 /\ t = r \o new
    BY <1>2
  <2>2. Len(new) = m OBVIOUS
  <2> HIDE DEF r, n, m
  <2>3. /\ r \o new \in Seq(Entries(P)) /\ Len(r \o new) = Len(r) + Len(new)
        /\ \A i \in 1..Len(r) + Len(new) : (r \o new)[i] = IF i <= Len(r) THEN r[i] ELSE new[i - Len(r)]
    BY <2>1, ConcatProperties
  <2> QED BY <2>1, <2>2, <2>3
<1>4. /\ DOMAIN t = 1..(n - 1 + m)
      /\ \A k \in 1..(n - 1) : t[k] = q[k + 1]
      /\ \A k \in n..(n - 1 + m) : t[k] = new[k - (n - 1)] /\ k - (n - 1) \in 1..m
  <2>1. DOMAIN t = 1..(n - 1 + m)
    BY <1>3
  <2> HIDE DEF n, m
  <2>2. ASSUME NEW k \in 1..(n - 1) PROVE t[k] = q[k + 1]
    BY <1>1, <1>2, <1>3
  <2>3. ASSUME NEW k \in n..(n - 1 + m) PROVE t[k] = new[k - (n - 1)] /\ k - (n - 1) \in 1..m
    BY <1>1, <1>3
  <2> QED BY <2>1, <2>2, <2>3
<1>5. /\ h \in Nat /\ \A k \in 1..m : new[k].depth = h + 1
      /\ \A k \in 1..n : q[k].depth \in Nat /\ h <= q[k].depth /\ q[k].depth <= h + 1
      /\ \A j, k \in 1..n : j <= k => q[j].depth <= q[k].depth /\ q[k].depth <= q[j].depth + 1
  <2>1. \A k \in 1..n : q[k] \in Entries(P)
    BY <1>1
  <2>2. \A k \in 1..n : q[k].depth \in Nat
    BY <2>1 DEF Entries
  <2>3. 1 \in 1..n /\ \A k \in 1..n : 1 <= k
    BY <1>1
  <2> HIDE DEF n, m
  <2>4. \A j, k \in 1..n : j <= k => q[j].depth <= q[k].depth /\ q[k].depth <= q[j].depth + 1
    BY <1>1 DEF ByDepth
  <2>5. h = q[1].depth
    BY <1>2
  <2> HIDE DEF h
  <2>6. \A k \in 1..m : new[k].depth = h + 1
    BY <1>1 DEF h
  <2> QED BY <2>2, <2>3, <2>4, <2>5, <2>6
<1> HIDE DEF n, m, h, r
<1>6. ASSUME NEW j \in DOMAIN t, NEW k \in DOMAIN t, j <= k
      PROVE  t[j].depth <= t[k].depth /\ t[k].depth <= t[j].depth + 1
  <2>1. CASE k <= n - 1
    <3>1. j + 1 \in 1..n /\ k + 1 \in 1..n /\ j + 1 <= k + 1 /\ t[j] = q[j + 1] /\ t[k] = q[k + 1]
      BY <2>1, <1>1, <1>4, <1>6
    <3> QED BY <3>1, <1>5
  <2>2. CASE j <= n - 1 /\ k > n - 1
    <3>1. j + 1 \in 1..n /\ t[j] = q[j + 1] /\ t[k] = new[k - (n - 1)] /\ k - (n - 1) \in 1..m
      <4>1. j \in 1..(n - 1 + m) /\ k \in 1..(n - 1 + m)
        BY <1>4, <1>6
      <4>2. j + 1 \in 1..n /\ t[j] = q[j + 1]
        BY <4>1, <2>2, <1>1, <1>4
      <4>3. k - (n - 1) \in 1..m /\ t[k] = new[k - (n - 1)]
        BY <4>1, <2>2, <1>1, <1>4
      <4> QED BY <4>2, <4>3
    <3>2. t[k].depth = h + 1 /\ t[j].depth \in Nat /\ h <= t[j].depth /\ t[j].depth <= h + 1
      BY <3>1, <1>5
    <3> QED BY <3>2, <1>5
  <2>3. CASE j > n - 1
    <3>1. t[j] = new[j - (n - 1)] /\ j - (n - 1) \in 1..m /\ t[k] = new[k - (n - 1)] /\ k - (n - 1) \in 1..m
      BY <2>3, <1>1, <1>4, <1>6
    <3>2. t[k].depth = h + 1 /\ t[j].depth = h + 1
      BY <3>1, <1>5
    <3> QED BY <3>2, <1>5
  <2>4. j \in Nat /\ k \in Nat
    BY <1>1, <1>4
  <2> QED BY <2>1, <2>2, <2>3, <2>4, <1>1
<1>7. ASSUME NEW e \in Elements(t) PROVE h <= e.depth /\ (e \in Elements(q) \/ e \in Elements(new))
  <2>1. PICK k \in 1..(n - 1 + m) : e = t[k]
    BY <1>4 DEF Elements
  <2>2. CASE k <= n - 1
    <3>1. e = q[k + 1] /\ k + 1 \in 1..n
      BY <2>1, <2>2, <1>1, <1>4
    <3> QED BY <3>1, <1>1, <1>5 DEF Elements
  <2>3. CASE k > n - 1
    <3>1. e = new[k - (n - 1)] /\ k - (n - 1) \in 1..m
      BY <2>1, <2>3, <1>1, <1>4
    <3>2. e.depth = h + 1 /\ e \in Elements(new)
      BY <3>1, <1>1, <1>5 DEF Elements
    <3> QED BY <3>2, <1>5
  <2> QED BY <2>2, <2>3, <1>1
<1>8. ASSUME NEW e \in Elements(q), e # Head(q) PROVE e \in Elements(t)
  <2>1. PICK k \in 1..n : e = q[k]
    BY <1>1 DEF Elements
  <2>2. k - 1 \in 1..(n - 1) /\ (k - 1) + 1 = k
    BY <2>1, <1>8, <1>2, <1>1
  <2>3. k - 1 \in DOMAIN t /\ t[k - 1] = e
    BY <2>1, <2>2, <1>4, <1>1
  <2> QED BY <2>3 DEF Elements
<1>9. ASSUME NEW e \in Elements(new) PROVE e \in Elements(t)
  <2>1. PICK k \in 1..m : e = new[k]
    BY <1>1 DEF Elements
  <2>2. k + (n - 1) \in n..(n - 1 + m) /\ (k + (n - 1)) - (n - 1) = k
    BY <1>1
  <2>3. k + (n - 1) \in DOMAIN t /\ t[k + (n - 1)] = e
    BY <2>1, <2>2, <1>4, <1>1
  <2> QED BY <2>3 DEF Elements
<1>10. ByDepth(t)
  BY <1>6 DEF ByDepth
<1> QED
  BY <1>3, <1>7, <1>8, <1>9, <1>10 DEF n, m, h

\* p is as many links away, and no fewer.
Foremost(web, seed, p, d) ==
    p \in Reached(web, seed, d) /\ \A c \in 0..(d - 1) : p \notin Reached(web, seed, c)

Known(seed, s, p, d) ==
    IsFair(seed, p) => p \in s.seen \/ \E e \in Elements(s.queue) : e.page = p /\ e.depth <= d

Taken(seed, s, maxPages) ==
    /\ Elements(s.results) = s.seen \ Unreached
    /\ \A p \in s.seen : DomainOf[p] = DomainOf[seed]
    /\ \A j, k \in DOMAIN s.results : s.results[j] = s.results[k] => j = k
    /\ Len(s.results) <= maxPages

Waiting(web, seed, s, maxDepth) ==
    /\ ByDepth(s.queue)
    /\ \A e \in Elements(s.queue) :
          e.depth <= maxDepth /\ (IsFair(seed, e.page) => e.page \in Reached(web, seed, e.depth))

Placed(web, seed, s, maxDepth) ==
    \A p \in Elements(s.results) :
        \E d \in 0..maxDepth : Foremost(web, seed, p, d) /\ \A e \in Elements(s.queue) : d <= e.depth

Followed(web, seed, s, maxDepth) ==
    /\ Known(seed, s, seed, 0)
    /\ \A p \in Elements(s.results) : \A d \in 0..(maxDepth - 1) : \A i \in Leaving(web, p) :
          Foremost(web, seed, p, d) => Known(seed, s, web[i].to, d + 1)

Nearest(web, seed, s) ==
    \A j, k \in DOMAIN s.results : \A c, d \in Nat :
        j < k /\ Foremost(web, seed, s.results[j], c) /\ Foremost(web, seed, s.results[k], d) => c <= d

Breadth(web, seed, s, maxPages, maxDepth) ==
    /\ Taken(seed, s, maxPages)
    /\ Waiting(web, seed, s, maxDepth)
    /\ Placed(web, seed, s, maxDepth)
    /\ Followed(web, seed, s, maxDepth)
    /\ Nearest(web, seed, s)

\* A page is first reached with one number of links only.
LEMMA FirstIsOne ==
    ASSUME NEW web, NEW seed, NEW p, NEW c \in Nat, NEW d \in Nat,
           Foremost(web, seed, p, c), p \in Reached(web, seed, d)
    PROVE  c <= d /\ (Foremost(web, seed, p, d) => c = d)
<1>1. ASSUME d < c PROVE FALSE
  <2>1. d \in 0..(c - 1)
    BY <1>1
  <2> QED BY <2>1 DEF Foremost
<1>2. ASSUME c < d, Foremost(web, seed, p, d) PROVE FALSE
  <2>1. c \in 0..(d - 1)
    BY <1>2
  <2> QED BY <2>1, <1>2 DEF Foremost
<1> QED
  BY <1>1, <1>2

\* As long as the queue goes no nearer than so many links, all that is nearer is taken.
LEMMA NearerIsTaken ==
    ASSUME NEW P, NEW web \in Seq(Edges(P)), NEW seed \in P, NEW maxPages \in Nat, NEW maxDepth \in Nat,
           NEW s \in Crawling(P, seed), Breadth(web, seed, s, maxPages, maxDepth),
           NEW h \in 0..(maxDepth + 1), \A e \in Elements(s.queue) : h <= e.depth,
           NEW near \in Nat, near < h
    PROVE  Reached(web, seed, near) \subseteq Elements(s.results)
<1> DEFINE R(d) == Reached(web, seed, d)
           T == {c \in Nat : c < h => R(c) \subseteq Elements(s.results)}
<1>0. \A e \in Elements(s.queue) : e.depth \in Nat
  <2>1. s.queue \in Seq(Entries(P))
    BY DEF Crawling
  <2>2. \A e \in Elements(s.queue) : e \in Entries(P)
    BY <2>1 DEF Elements
  <2> QED BY <2>2 DEF Entries
<1>1. ASSUME NEW p, NEW d \in Nat, IsFair(seed, p), Known(seed, s, p, d), d < h
      PROVE  p \in Elements(s.results)
  <2>1. p \in s.seen
    BY <1>0, <1>1 DEF Known
  <2> QED BY <2>1, <1>1 DEF Breadth, Taken, IsFair
<1>2. 0 \in T
  <2> SUFFICES ASSUME 0 < h, NEW p \in R(0) PROVE p \in Elements(s.results)
    OBVIOUS
  <2>1. R(0) = Fair(seed, {seed})
    BY ReachedFirst
  <2>2. p = seed /\ IsFair(seed, p)
    BY <2>1 DEF Fair, IsFair
  <2>3. Known(seed, s, seed, 0)
    BY DEF Breadth, Followed
  <2>4. 0 \in Nat OBVIOUS
  <2> QED BY <2>2, <2>3, <2>4, <1>1
<1>3. ASSUME NEW c \in Nat, c \in T PROVE c + 1 \in T
  <2> SUFFICES ASSUME c + 1 < h, NEW q \in R(c + 1) PROVE q \in Elements(s.results)
    OBVIOUS
  <2>1. R(c) \subseteq Elements(s.results)
    BY <1>3
  <2>2. CASE q \in R(c)
    BY <2>1, <2>2
  <2>3. CASE q \notin R(c)
    <3>1. PICK p \in R(c) : \E i \in Leaving(web, p) : web[i].to = q
      BY <2>3, ReachedGoesOn
    <3>2. PICK i \in Leaving(web, p) : web[i].to = q
      BY <3>1
    <3>3. IsFair(seed, q)
      <4>1. c + 1 \in Nat OBVIOUS
      <4> QED BY <4>1, ReachedGoesOn
    <3>4. PICK d \in 0..maxDepth : Foremost(web, seed, p, d)
      BY <2>1, <3>1 DEF Breadth, Placed
    <3>5. d \in Nat /\ d <= c
      BY <3>1, <3>4, FirstIsOne
    <3>6. d \in 0..(maxDepth - 1) /\ d + 1 < h /\ d + 1 \in Nat
      BY <3>5
    <3>7. Known(seed, s, q, d + 1)
      BY <2>1, <3>1, <3>2, <3>4, <3>6 DEF Breadth, Followed
    <3> QED BY <3>3, <3>6, <3>7, <1>1
  <2> QED BY <2>2, <2>3
<1>4. \A c \in Nat : c \in T
  <2> HIDE DEF T
  <2> QED BY <1>2, <1>3, Induct
<1> QED
  BY <1>4

\* What one turn does to the queue, the pages seen and those taken.
Turned(web, seed, s, t, maxDepth, new) ==
    LET e == Head(s.queue)
    IN  /\ t.queue = Tail(s.queue) \o new
        /\ \A k \in DOMAIN new : /\ new[k].depth = e.depth + 1 /\ new[k].depth <= maxDepth
                                 /\ IsFair(seed, new[k].page) => new[k].page \in Reached(web, seed, e.depth + 1)
        /\ \/ /\ t.results = s.results
              /\ \/ t.seen = s.seen /\ (e.page \in s.seen \/ ~IsFair(seed, e.page))
                 \/ t.seen = s.seen \cup {e.page} /\ e.page \in Unreached /\ DomainOf[e.page] = DomainOf[seed]
              /\ new = <<>>
           \/ /\ e.page \notin s.seen /\ IsFair(seed, e.page)
              /\ t.results = Append(s.results, e.page) /\ t.seen = s.seen \cup {e.page}
              /\ e.depth < maxDepth => \A i \in Leaving(web, e.page) : \/ web[i].to \in t.seen
                                                                       \/ \E k \in DOMAIN new : new[k].page = web[i].to
              /\ Len(new) <= Cardinality(Leaving(web, e.page))

\* Every turn is of this form.
LEMMA TurnIs ==
    ASSUME NEW P, NEW web \in Seq(Edges(P)), NEW seed \in P, NEW maxPages \in Nat, NEW maxDepth \in Nat,
           NEW s \in Crawling(P, seed), ~Stopped(s, maxPages), Waiting(web, seed, s, maxDepth)
    PROVE  \E new \in Seq(Entries(P)) : Turned(web, seed, s, Visit(web, s, maxPages, maxDepth), maxDepth, new)
<1> DEFINE e == Head(s.queue)
           t == Visit(web, s, maxPages, maxDepth)
<1>1. s.queue \in Seq(Entries(P)) /\ s.queue # <<>>
  BY DEF Crawling, Stopped
<1>2. /\ e \in Entries(P) /\ t \in Crawling(P, seed)
      /\ \/ /\ e.page \in s.seen \/ DomainOf[e.page] # DomainOf[seed]
            /\ t.queue = Tail(s.queue) /\ t.seen = s.seen /\ t.results = s.results
         \/ /\ e.page \notin s.seen /\ DomainOf[e.page] = DomainOf[seed] /\ e.page \in Unreached
            /\ t.queue = Tail(s.queue) /\ t.seen = s.seen \cup {e.page} /\ t.results = s.results
         \/ /\ e.page \notin s.seen /\ DomainOf[e.page] = DomainOf[seed] /\ e.page \notin Unreached
            /\ t.queue = IF e.depth >= maxDepth THEN Tail(s.queue) ELSE Enqueue(web, s, e)
            /\ t.seen = s.seen \cup {e.page} /\ t.results = Append(s.results, e.page)
  <2>1. Visited(web, seed, s, t, maxDepth) /\ e \in Entries(P) /\ t \in Crawling(P, seed)
    BY VisitIs
  <2> QED BY <2>1 DEF Visited
<1>3. Tail(s.queue) \in Seq(Entries(P)) /\ e \in Elements(s.queue) /\ e.depth \in Nat
  <2>1. e = s.queue[1] /\ 1 \in DOMAIN s.queue
    BY <1>1, EmptySeq
  <2> QED BY <1>1, <1>2, <2>1 DEF Elements, Entries
<1>4. Tail(s.queue) = Tail(s.queue) \o <<>> /\ <<>> \in Seq(Entries(P))
  <2> DEFINE r == Tail(s.queue)
  <2>1. r \in Seq(Entries(P)) BY <1>3
  <2> HIDE DEF r
  <2>2. r = r \o <<>> BY <2>1, ConcatEmptySeq
  <2> QED BY <2>2 DEF r
<1> HIDE DEF e, t
<1>5. CASE e.page \in s.seen \/ DomainOf[e.page] # DomainOf[seed]
  <2>1. t.queue = Tail(s.queue) \o <<>> /\ t.seen = s.seen /\ t.results = s.results
    BY <1>2, <1>4, <1>5
  <2>2. Turned(web, seed, s, t, maxDepth, <<>>)
    BY <2>1, <1>5 DEF Turned, IsFair, e
  <2> QED BY <2>2, <1>4 DEF t
<1>6. CASE e.page \notin s.seen /\ DomainOf[e.page] = DomainOf[seed] /\ e.page \in Unreached
  <2>1. t.queue = Tail(s.queue) \o <<>> /\ t.seen = s.seen \cup {e.page} /\ t.results = s.results
    BY <1>2, <1>4, <1>6
  <2>2. Turned(web, seed, s, t, maxDepth, <<>>)
    BY <2>1, <1>6 DEF Turned, IsFair, e
  <2> QED BY <2>2, <1>4 DEF t
<1>7. CASE e.page \notin s.seen /\ DomainOf[e.page] = DomainOf[seed] /\ e.page \notin Unreached
  <2>1. IsFair(seed, e.page) /\ t.seen = s.seen \cup {e.page} /\ t.results = Append(s.results, e.page)
    BY <1>2, <1>7 DEF IsFair
  <2>2. e.page \in Reached(web, seed, e.depth)
    BY <1>3, <2>1 DEF Waiting
  <2>3. CASE e.depth >= maxDepth
    <3>1. t.queue = Tail(s.queue) \o <<>>
      BY <1>2, <1>4, <1>7, <2>3
    <3>2. Cardinality(Leaving(web, e.page)) \in Nat
      <4>1. Len(Links(web, e.page)) = Cardinality(Leaving(web, e.page)) /\ Links(web, e.page) \in Seq(P)
        BY LinksAre
      <4> QED BY <4>1
    <3>3. Turned(web, seed, s, t, maxDepth, <<>>)
      BY <3>1, <3>2, <2>1, <2>3, <1>3, <1>7 DEF Turned, e
    <3> QED BY <3>3, <1>4 DEF t
  <2>4. CASE ~(e.depth >= maxDepth)
    <3>1. t.queue = Enqueue(web, s, e)
      BY <1>2, <1>7, <2>4
    <3>2. PICK new \in Seq(Entries(P)) : Enqueue(web, s, e) = Tail(s.queue) \o new /\ Adds(web, s, e, new)
      BY <1>1, <1>2, EnqueueIs
    <3>3. ASSUME NEW k \in DOMAIN new
          PROVE  /\ new[k].depth = e.depth + 1 /\ new[k].depth <= maxDepth
                 /\ IsFair(seed, new[k].page) => new[k].page \in Reached(web, seed, e.depth + 1)
      <4>1. new[k].depth = e.depth + 1
        BY <3>2 DEF Adds
      <4>2. PICK i \in Leaving(web, e.page) : new[k].page = web[i].to
        BY <3>2 DEF Adds
      <4> QED BY <4>1, <4>2, <2>2, <2>4, <1>3, ReachedGoesOn
    <3>4. \A i \in Leaving(web, e.page) : web[i].to \in t.seen \/ \E k \in DOMAIN new : new[k].page = web[i].to
      BY <3>2, <2>1 DEF Adds
    <3>5. Len(new) <= Cardinality(Leaving(web, e.page))
      BY <3>2 DEF Adds
    <3>6. Turned(web, seed, s, t, maxDepth, new)
      BY <3>1, <3>2, <3>3, <3>4, <3>5, <2>1, <1>7 DEF Turned, e
    <3> QED BY <3>6 DEF t
  <2> QED BY <2>3, <2>4
<1> QED
  BY <1>5, <1>6, <1>7

\* A crawl starts with nothing taken.
LEMMA BreadthStarts ==
    ASSUME NEW P, NEW web \in Seq(Edges(P)), NEW seed \in P, NEW maxPages \in Nat, NEW maxDepth \in Nat
    PROVE  Breadth(web, seed, FirstTurn(seed), maxPages, maxDepth)
<1> DEFINE s == FirstTurn(seed)  e == Queued(seed, 0)
<1>1. s.queue = <<e>> /\ s.seen = {} /\ s.results = <<>> /\ Elements(s.queue) = {e} /\ Elements(s.results) = {}
  <2>1. Elements(<<e>>) = {e} /\ Elements(<<>>) = {}
    BY DEF Elements
  <2> QED BY <2>1 DEF FirstTurn
<1>2. e.page = seed /\ e.depth = 0 /\ s.queue[1] = e /\ DOMAIN s.queue = {1}
  BY <1>1 DEF Queued
<1>3. IsFair(seed, seed) => seed \in Reached(web, seed, 0)
  <2>1. Reached(web, seed, 0) = Fair(seed, {seed})
    BY ReachedFirst
  <2> QED BY <2>1 DEF IsFair, Fair
<1> HIDE DEF s, e
<1>4. Taken(seed, s, maxPages)
  <2>1. DOMAIN s.results = {} /\ Len(s.results) = 0
    BY <1>1
  <2> QED BY <2>1, <1>1 DEF Taken
<1>5. Waiting(web, seed, s, maxDepth)
  <2>1. ByDepth(s.queue)
    BY <1>2 DEF ByDepth
  <2> QED BY <2>1, <1>1, <1>2, <1>3 DEF Waiting
<1>6. Placed(web, seed, s, maxDepth)
  BY <1>1 DEF Placed
<1>7. Followed(web, seed, s, maxDepth)
  <2>1. Known(seed, s, seed, 0)
    BY <1>1, <1>2 DEF Known
  <2> QED BY <2>1, <1>1 DEF Followed
<1>8. Nearest(web, seed, s)
  <2>1. DOMAIN s.results = {}
    BY <1>1
  <2> QED BY <2>1 DEF Nearest
<1> QED
  BY <1>4, <1>5, <1>6, <1>7, <1>8 DEF Breadth, s

\* Every turn keeps to the breadth-first order.
LEMMA BreadthKept ==
    ASSUME NEW P, NEW web \in Seq(Edges(P)), NEW seed \in P, NEW maxPages \in Nat, NEW maxDepth \in Nat,
           NEW s \in Crawling(P, seed), Breadth(web, seed, s, maxPages, maxDepth), ~Stopped(s, maxPages),
           NEW t \in Crawling(P, seed), NEW new \in Seq(Entries(P)), Turned(web, seed, s, t, maxDepth, new)
    PROVE  Breadth(web, seed, t, maxPages, maxDepth)
<1> DEFINE e == Head(s.queue)  h == e.depth
           Gone == t.results = s.results /\ new = <<>>
                   /\ \/ t.seen = s.seen /\ (e.page \in s.seen \/ ~IsFair(seed, e.page))
                      \/ t.seen = s.seen \cup {e.page} /\ e.page \in Unreached /\ DomainOf[e.page] = DomainOf[seed]
           Got == /\ e.page \notin s.seen /\ IsFair(seed, e.page)
                  /\ t.results = Append(s.results, e.page) /\ t.seen = s.seen \cup {e.page}
                  /\ h < maxDepth => \A i \in Leaving(web, e.page) : \/ web[i].to \in t.seen
                                                                     \/ \E k \in DOMAIN new : new[k].page = web[i].to
<1>1. /\ t.queue = Tail(s.queue) \o new
      /\ \A k \in DOMAIN new : /\ new[k].depth = h + 1 /\ new[k].depth <= maxDepth
                               /\ IsFair(seed, new[k].page) => new[k].page \in Reached(web, seed, h + 1)
      /\ Gone \/ Got
  BY DEF Turned
<1>2. s.queue \in Seq(Entries(P)) /\ s.queue # <<>> /\ s.results \in Seq(P) /\ t.queue \in Seq(Entries(P)) /\ t.results \in Seq(P)
  BY DEF Crawling, Stopped
<1>3. e \in Entries(P) /\ e \in Elements(s.queue) /\ e.page \in P /\ h \in Nat
  <2>1. e = s.queue[1] /\ 1 \in DOMAIN s.queue /\ s.queue[1] \in Entries(P)
    BY <1>2, EmptySeq
  <2> QED BY <2>1 DEF Elements, Entries
<1>4. /\ ByDepth(t.queue)
      /\ \A f \in Elements(t.queue) : h <= f.depth
      /\ \A f \in Elements(s.queue) : f = e \/ f \in Elements(t.queue)
      /\ \A f \in Elements(new) : f \in Elements(t.queue)
      /\ \A f \in Elements(t.queue) : f \in Elements(s.queue) \/ f \in Elements(new)
  <2>1. ByDepth(s.queue)
    BY DEF Breadth, Waiting
  <2>2. \A k \in DOMAIN new : new[k].depth = Head(s.queue).depth + 1
    BY <1>1
  <2> DEFINE q == s.queue  u == t.queue
  <2>3. /\ q \in Seq(Entries(P)) /\ q # <<>> /\ ByDepth(q) /\ u = Tail(q) \o new /\ e = Head(q)
        /\ \A k \in DOMAIN new : new[k].depth = Head(q).depth + 1
    BY <1>1, <1>2, <2>1, <2>2
  <2> HIDE DEF q, u, e
  <2>4. /\ ByDepth(u)
        /\ \A f \in Elements(u) : Head(q).depth <= f.depth
        /\ \A f \in Elements(q) : f = Head(q) \/ f \in Elements(u)
        /\ \A f \in Elements(new) : f \in Elements(u)
        /\ \A f \in Elements(u) : f \in Elements(q) \/ f \in Elements(new)
    BY <2>3, Popped
  <2> QED BY <2>3, <2>4 DEF q, u
<1>5. \A f \in Elements(t.queue) : f.depth \in Nat
  <2>1. \A f \in Elements(t.queue) : f \in Entries(P)
    BY <1>2 DEF Elements
  <2> QED BY <2>1 DEF Entries
<1>6. h <= maxDepth /\ (IsFair(seed, e.page) => e.page \in Reached(web, seed, h))
  BY <1>3 DEF Breadth, Waiting
<1>7. \A f \in Elements(s.queue) : h <= f.depth
  <2>1. \A f \in Elements(t.queue) : f = e \/ h <= f.depth
    BY <1>4
  <2> QED BY <1>3, <1>4
<1> HIDE DEF e, h, Gone, Got
<1>8. ASSUME Got PROVE Foremost(web, seed, e.page, h)
  <2>1. e.page \in Reached(web, seed, h)
    BY <1>6, <1>8 DEF Got
  <2>2. ASSUME NEW c \in 0..(h - 1), e.page \in Reached(web, seed, c) PROVE FALSE
    <3>1. c \in Nat /\ c < h /\ h \in 0..(maxDepth + 1)
      BY <1>3, <1>6
    <3>2. Reached(web, seed, c) \subseteq Elements(s.results)
      BY <3>1, <1>7, NearerIsTaken
    <3>3. e.page \in s.seen
      BY <3>2, <2>2 DEF Breadth, Taken
    <3> QED BY <3>3, <1>8 DEF Got
  <2> QED BY <2>1, <2>2 DEF Foremost
<1>9. ASSUME NEW p, NEW d \in Nat, Known(seed, s, p, d) PROVE Known(seed, t, p, d)
  <2> SUFFICES ASSUME IsFair(seed, p), p \notin t.seen
               PROVE  \E f \in Elements(t.queue) : f.page = p /\ f.depth <= d
    BY DEF Known
  <2>1. p \notin s.seen
    BY <1>1 DEF Gone, Got
  <2>2. PICK f \in Elements(s.queue) : f.page = p /\ f.depth <= d
    BY <2>1, <1>9 DEF Known
  <2>3. f # e
    BY <2>1, <2>2, <1>1 DEF Gone, Got
  <2> QED BY <2>2, <2>3, <1>4
<1>10. Taken(seed, t, maxPages)
  <2>1. Taken(seed, s, maxPages)
    BY DEF Breadth
  <2>2. CASE Gone
    BY <2>1, <2>2 DEF Taken, Gone
  <2>3. CASE Got
    <3> DEFINE r == s.results  n == Len(r)  u == t.results
    <3>1. n \in Nat /\ u = Append(r, e.page) /\ Len(u) = n + 1 /\ DOMAIN u = 1..(n + 1) /\ DOMAIN r = 1..n
      BY <1>2, <1>3, <2>3 DEF Got
    <3>2. \A j \in 1..n : u[j] = r[j]
      BY <1>2, <1>3, <2>3 DEF Got
    <3>3. u[n + 1] = e.page
      BY <1>2, <1>3, <2>3 DEF Got
    <3>4. Elements(u) = Elements(r) \cup {e.page}
      BY <1>2, <1>3, <3>1, RanAppend
    <3>5. e.page \notin Elements(r) /\ e.page \notin Unreached /\ DomainOf[e.page] = DomainOf[seed] /\ t.seen = s.seen \cup {e.page}
      BY <2>1, <2>3 DEF Taken, Got, IsFair
    <3>6. Elements(u) = t.seen \ Unreached
      BY <2>1, <3>4, <3>5 DEF Taken
    <3>7. \A p \in t.seen : DomainOf[p] = DomainOf[seed]
      BY <2>1, <3>5 DEF Taken
    <3>8. \A j \in 1..n : r[j] # e.page
      BY <3>1, <3>5 DEF Elements
    <3>9. \A j, k \in 1..n : r[j] = r[k] => j = k
      BY <2>1, <3>1 DEF Taken
    <3>10. n < maxPages
      BY <3>1 DEF Stopped
    <3> HIDE DEF r, n, u
    <3>11. \A j, k \in DOMAIN u : u[j] = u[k] => j = k
      <4> SUFFICES ASSUME NEW j \in 1..(n + 1), NEW k \in 1..(n + 1), u[j] = u[k] PROVE j = k
        BY <3>1
      <4>1. j \in 1..n \/ j = n + 1 BY <3>1
      <4>2. k \in 1..n \/ k = n + 1 BY <3>1
      <4> QED BY <4>1, <4>2, <3>2, <3>3, <3>8, <3>9
    <3>12. Len(u) <= maxPages
      BY <3>1, <3>10
    <3> QED BY <3>6, <3>7, <3>11, <3>12 DEF Taken, u
  <2> QED BY <2>2, <2>3, <1>1
<1>11. Waiting(web, seed, t, maxDepth)
  <2>1. ASSUME NEW f \in Elements(t.queue)
        PROVE  f.depth <= maxDepth /\ (IsFair(seed, f.page) => f.page \in Reached(web, seed, f.depth))
    <3>1. CASE f \in Elements(s.queue)
      BY <3>1 DEF Breadth, Waiting
    <3>2. CASE f \in Elements(new)
      <4>1. PICK k \in DOMAIN new : f = new[k]
        BY <3>2 DEF Elements
      <4> QED BY <4>1, <1>1
    <3> QED BY <3>1, <3>2, <1>4
  <2> QED BY <2>1, <1>4 DEF Waiting
<1>12. ASSUME NEW p \in Elements(t.results) PROVE p \in Elements(s.results) \/ (Got /\ p = e.page)
  <2>1. CASE Gone
    BY <2>1 DEF Gone
  <2>2. CASE Got
    <3>1. Elements(t.results) = Elements(s.results) \cup {e.page}
      BY <2>2, <1>2, <1>3, RanAppend DEF Got
    <3> QED BY <3>1, <2>2
  <2> QED BY <2>1, <2>2, <1>1
<1>13. \A p \in Elements(s.results) : \E d \in 0..maxDepth : Foremost(web, seed, p, d) /\ d <= h
  <2>1. Placed(web, seed, s, maxDepth)
    BY DEF Breadth
  <2> QED BY <2>1, <1>3 DEF Placed, h
<1>14. Placed(web, seed, t, maxDepth)
  <2> SUFFICES ASSUME NEW p \in Elements(t.results)
               PROVE  \E d \in 0..maxDepth : Foremost(web, seed, p, d) /\ \A f \in Elements(t.queue) : d <= f.depth
    BY DEF Placed
  <2>1. PICK d \in 0..maxDepth : Foremost(web, seed, p, d) /\ d <= h
    <3>1. h \in 0..maxDepth /\ h <= h BY <1>3, <1>6
    <3> QED BY <3>1, <1>12, <1>13, <1>8
  <2>2. \A f \in Elements(t.queue) : d <= f.depth
    BY <2>1, <1>3, <1>4, <1>5
  <2> QED BY <2>1, <2>2
<1>15. Followed(web, seed, t, maxDepth)
  <2>1. Followed(web, seed, s, maxDepth)
    BY DEF Breadth
  <2>2. Known(seed, t, seed, 0)
    <3>1. 0 \in Nat OBVIOUS
    <3> QED BY <3>1, <2>1, <1>9 DEF Followed
  <2>3. ASSUME NEW p \in Elements(t.results), NEW d \in 0..(maxDepth - 1), NEW i \in Leaving(web, p), Foremost(web, seed, p, d)
        PROVE  Known(seed, t, web[i].to, d + 1)
    <3>1. CASE p \in Elements(s.results)
      <4>1. Known(seed, s, web[i].to, d + 1)
        BY <2>1, <2>3, <3>1 DEF Followed
      <4>2. d + 1 \in Nat OBVIOUS
      <4> QED BY <4>1, <4>2, <1>9
    <3>2. CASE Got /\ p = e.page
      <4>1. d = h
        <5>1. Foremost(web, seed, p, h) /\ p \in Reached(web, seed, d) /\ d \in Nat
          BY <3>2, <1>8, <2>3 DEF Foremost
        <5> QED BY <5>1, <2>3, <1>3, FirstIsOne
      <4>2. h < maxDepth
        BY <4>1
      <4>3. web[i].to \in t.seen \/ \E k \in DOMAIN new : new[k].page = web[i].to
        BY <3>2, <4>2 DEF Got
      <4>4. ASSUME NEW k \in DOMAIN new, new[k].page = web[i].to
            PROVE  \E f \in Elements(t.queue) : f.page = web[i].to /\ f.depth <= d + 1
        <5>1. new[k] \in Elements(t.queue)
          BY <1>4 DEF Elements
        <5>2. new[k].depth = d + 1
          BY <1>1, <4>1
        <5> QED BY <5>1, <5>2, <4>4
      <4> QED BY <4>3, <4>4 DEF Known
    <3> QED BY <3>1, <3>2, <1>12
  <2> QED BY <2>2, <2>3 DEF Followed
<1>16. Nearest(web, seed, t)
  <2>1. Nearest(web, seed, s)
    BY DEF Breadth
  <2>2. CASE Gone
    BY <2>1, <2>2 DEF Nearest, Gone
  <2>3. CASE Got
    <3> DEFINE r == s.results  n == Len(r)  u == t.results
    <3>1. n \in Nat /\ DOMAIN u = 1..(n + 1) /\ DOMAIN r = 1..n
      BY <1>2, <1>3, <2>3 DEF Got
    <3>2. \A j \in 1..n : u[j] = r[j]
      BY <1>2, <1>3, <2>3 DEF Got
    <3>3. u[n + 1] = e.page
      BY <1>2, <1>3, <2>3 DEF Got
    <3>4. \A j \in 1..n : r[j] \in Elements(r)
      BY <3>1 DEF Elements
    <3>5. \A j, k \in 1..n : \A c, d \in Nat : j < k /\ Foremost(web, seed, r[j], c) /\ Foremost(web, seed, r[k], d) => c <= d
      BY <2>1, <3>1 DEF Nearest
    <3>6. \A p \in Elements(r) : \E d \in 0..maxDepth : Foremost(web, seed, p, d) /\ d <= h
      BY <1>13
    <3> HIDE DEF r, n, u
    <3>7. ASSUME NEW j \in 1..(n + 1), NEW k \in 1..(n + 1), NEW c \in Nat, NEW d \in Nat, j < k,
                 Foremost(web, seed, u[j], c), Foremost(web, seed, u[k], d)
          PROVE  c <= d
      <4>1. j \in 1..n /\ u[j] = r[j]
        BY <3>1, <3>2, <3>7
      <4>2. CASE k \in 1..n
        BY <4>1, <4>2, <3>2, <3>5, <3>7
      <4>3. CASE k = n + 1
        <5>1. PICK b \in 0..maxDepth : Foremost(web, seed, r[j], b) /\ b <= h
          BY <4>1, <3>4, <3>6
        <5>2. b = c
          <6>1. b \in Nat /\ Foremost(web, seed, r[j], c) /\ r[j] \in Reached(web, seed, c)
            BY <4>1, <3>7 DEF Foremost
          <6> QED BY <5>1, <6>1, FirstIsOne
        <5>3. Foremost(web, seed, e.page, h) /\ Foremost(web, seed, e.page, d) /\ e.page \in Reached(web, seed, d)
          BY <4>3, <3>3, <3>7, <2>3, <1>8 DEF Foremost
        <5>4. d = h
          BY <5>3, <1>3, FirstIsOne
        <5> QED BY <5>1, <5>2, <5>4
      <4> QED BY <4>2, <4>3, <3>1
    <3> QED BY <3>7, <3>1 DEF Nearest, u
  <2> QED BY <2>2, <2>3, <1>1
<1> QED
  BY <1>10, <1>11, <1>14, <1>15, <1>16 DEF Breadth

\* The least of some numbers is one of them, and no more than any of them.
LEMMA MinIs ==
    ASSUME NEW S, S \subseteq Nat, S # {}
    PROVE  Min(S) \in S /\ \A m \in S : Min(S) <= m
<1>1. PICK n \in S : \A m \in S : n <= m
  BY NatMin
<1> QED
  BY <1>1 DEF Min

\* A sequence without repetition has as many elements as places.
LEMMA DistinctLen ==
    ASSUME NEW P, NEW r \in Seq(P), \A j, k \in DOMAIN r : r[j] = r[k] => j = k
    PROVE  IsFiniteSet(Elements(r)) /\ Cardinality(Elements(r)) = Len(r)
<1> DEFINE n == Len(r)
<1>1. n \in Nat /\ DOMAIN r = 1..n /\ r \in [1..n -> P]
  OBVIOUS
<1>2. r \in Surjection(1..n, Elements(r))
  BY <1>1 DEF Surjection, Elements
<1>3. r \in Injection(1..n, Elements(r))
  BY <1>1, <1>2 DEF Injection, Surjection, IsInjective
<1>4. IsFiniteSet(1..n) /\ Cardinality(1..n) = n
  <2> HIDE DEF n
  <2>1. n \in Int /\ 1 \in Int /\ (1 > n => n = 0) BY <1>1
  <2>2. IsFiniteSet(1..n) /\ Cardinality(1..n) = IF 1 > n THEN 0 ELSE n - 1 + 1
    BY <2>1, FS_Interval
  <2> QED BY <2>1, <2>2
<1> HIDE DEF n
<1>5. IsFiniteSet(Elements(r))
  BY <1>2, <1>4, FS_Surjection
<1>6. Cardinality(Elements(r)) = Cardinality(1..n)
  BY <1>2, <1>3, <1>4, FS_Surjection
<1> QED
  BY <1>4, <1>5, <1>6 DEF n

Untaken(web, s) == {i \in DOMAIN web : web[i].from \notin Elements(s.results)}

Ahead(web, s) == Len(s.queue) + Cardinality(Untaken(web, s))

\* Places in a web are finite in number.
LEMMA PlacesFinite ==
    ASSUME NEW P, NEW web \in Seq(Edges(P)), NEW S \in SUBSET (DOMAIN web)
    PROVE  IsFiniteSet(S) /\ Cardinality(S) \in Nat /\ Cardinality(S) <= Len(web)
<1> DEFINE n == Len(web)
<1>1. n \in Nat /\ DOMAIN web = 1..n
  OBVIOUS
<1> HIDE DEF n
<1>2. IsFiniteSet(1..n) /\ Cardinality(1..n) = n
  <2>1. n \in Int /\ 1 \in Int /\ (1 > n => n = 0) BY <1>1
  <2>2. IsFiniteSet(1..n) /\ Cardinality(1..n) = IF 1 > n THEN 0 ELSE n - 1 + 1
    BY <2>1, FS_Interval
  <2> QED BY <2>1, <2>2
<1>3. S \in SUBSET (1..n)
  BY <1>1
<1>4. IsFiniteSet(S) /\ Cardinality(S) <= Cardinality(1..n)
  BY <1>2, <1>3, FS_Subset
<1> QED
  BY <1>2, <1>4, FS_CardinalityType DEF n

\* Every turn has one entry less ahead, for the links of a page are queued once.
LEMMA TurnsSpend ==
    ASSUME NEW P, NEW web \in Seq(Edges(P)), NEW seed \in P, NEW maxPages \in Nat, NEW maxDepth \in Nat,
           NEW s \in Crawling(P, seed), Breadth(web, seed, s, maxPages, maxDepth), ~Stopped(s, maxPages),
           NEW t \in Crawling(P, seed), NEW new \in Seq(Entries(P)), Turned(web, seed, s, t, maxDepth, new)
    PROVE  Ahead(web, t) <= Ahead(web, s) - 1
<1> DEFINE e == Head(s.queue)  q == s.queue  u == t.queue
<1>1. q \in Seq(Entries(P)) /\ q # <<>> /\ s.results \in Seq(P) /\ e \in Entries(P)
  <2>1. q \in Seq(Entries(P)) /\ q # <<>> /\ s.results \in Seq(P)
    BY DEF Crawling, Stopped
  <2>2. q[1] \in Entries(P) /\ Head(q) = q[1]
    BY <2>1, EmptySeq
  <2> QED BY <2>1, <2>2
<1>2. Len(u) = Len(q) - 1 + Len(new)
  <2>1. u = Tail(q) \o new /\ ByDepth(q) /\ \A k \in DOMAIN new : new[k].depth = Head(q).depth + 1
    BY DEF Turned, Breadth, Waiting
  <2> HIDE DEF q, u
  <2> QED BY <1>1, <2>1, Popped
<1>3. Len(q) \in Nat /\ Len(new) \in Nat /\ Len(<<>>) = 0
  BY <1>1
<1> DEFINE A == Cardinality(Untaken(web, s))
           B == Cardinality(Untaken(web, t))
           L == Cardinality(Leaving(web, e.page))
<1>4. A \in Nat /\ B \in Nat /\ L \in Nat /\ IsFiniteSet(Untaken(web, t)) /\ IsFiniteSet(Leaving(web, e.page))
  BY PlacesFinite DEF Untaken, Leaving
<1>5. CASE t.results = s.results /\ new = <<>>
  <2>1. A = B
    BY <1>5 DEF Untaken
  <2>2. Len(u) = Len(q) - 1
    BY <1>2, <1>3, <1>5
  <2> HIDE DEF A, B, q, u
  <2>3. Len(u) + B <= (Len(q) + A) - 1
    BY <2>1, <2>2, <1>3, <1>4
  <2> QED BY <2>3 DEF A, B, q, u, Ahead
<1>6. CASE /\ e.page \notin s.seen /\ IsFair(seed, e.page)
           /\ t.results = Append(s.results, e.page) /\ Len(new) <= L
  <2>1. Elements(t.results) = Elements(s.results) \cup {e.page}
    BY <1>1, <1>6, RanAppend DEF Entries
  <2>2. e.page \notin Elements(s.results)
    BY <1>6 DEF Breadth, Taken
  <2>3. Untaken(web, s) = Untaken(web, t) \cup Leaving(web, e.page) /\ Untaken(web, t) \cap Leaving(web, e.page) = {}
    BY <2>1, <2>2 DEF Untaken, Leaving
  <2>4. A = B + L - Cardinality(Untaken(web, t) \cap Leaving(web, e.page))
    BY <2>3, <1>4, FS_Union
  <2>5. A = B + L
    <3>1. Cardinality(Untaken(web, t) \cap Leaving(web, e.page)) = 0
      <4>1. Cardinality({}) = 0 BY FS_EmptySet
      <4> QED BY <4>1, <2>3
    <3> DEFINE C == Cardinality(Untaken(web, t) \cap Leaving(web, e.page))
    <3>2. A = B + L - C /\ C = 0 BY <2>4, <3>1
    <3> HIDE DEF A, B, C, L
    <3> QED BY <3>2, <1>4
  <2> HIDE DEF A, B, L, q, u
  <2>6. Len(u) + B <= (Len(q) + A) - 1
    BY <2>5, <1>2, <1>3, <1>4, <1>6
  <2> QED BY <2>6 DEF A, B, q, u, Ahead
<1>7. \/ t.results = s.results /\ new = <<>>
      \/ /\ e.page \notin s.seen /\ IsFair(seed, e.page)
         /\ t.results = Append(s.results, e.page) /\ Len(new) <= L
  BY DEF Turned
<1> QED
  BY <1>5, <1>6, <1>7

\* The loop has come to its end after as many turns as there are links, and one.
LEMMA CrawlEnds ==
    ASSUME NEW P, NEW web \in Seq(Edges(P)), NEW seed \in P, NEW maxPages \in Nat, NEW maxDepth \in Nat
    PROVE  \E s \in Crawling(P, seed) : /\ CrawlFrom(web, seed, maxPages, maxDepth) = s.results
                                        /\ Breadth(web, seed, s, maxPages, maxDepth)
                                        /\ Stopped(s, maxPages)
<1> DEFINE n == Len(web) + 1
<1>a. PICK turn : /\ CrawlFrom(web, seed, maxPages, maxDepth) = turn[Len(web) + 1].results
                  /\ Turns(P, web, seed, maxPages, maxDepth, turn)
  BY CrawlUnfolds
<1>1. /\ CrawlFrom(web, seed, maxPages, maxDepth) = turn[n].results
      /\ turn[0] = FirstTurn(seed)
      /\ \A k \in 1..n : turn[k] = Visit(web, turn[k - 1], maxPages, maxDepth)
      /\ \A k \in 0..n : turn[k] \in Crawling(P, seed)
  BY <1>a DEF Turns
<1> DEFINE Good(k) == /\ Breadth(web, seed, turn[k], maxPages, maxDepth)
                      /\ Stopped(turn[k], maxPages) \/ Ahead(web, turn[k]) <= n - k
           T == {k \in Nat : k <= n => Good(k)}
<1>0. n \in Nat
  OBVIOUS
<1>2. \A k \in 0..n : Ahead(web, turn[k]) \in Nat /\ Len(turn[k].queue) \in Nat /\ Cardinality(Untaken(web, turn[k])) \in Nat
  <2> SUFFICES ASSUME NEW k \in 0..n
               PROVE  Ahead(web, turn[k]) \in Nat /\ Len(turn[k].queue) \in Nat /\ Cardinality(Untaken(web, turn[k])) \in Nat
    OBVIOUS
  <2>1. turn[k].queue \in Seq(Entries(P))
    BY <1>1 DEF Crawling
  <2>2. Cardinality(Untaken(web, turn[k])) \in Nat
    BY PlacesFinite DEF Untaken
  <2> QED BY <2>1, <2>2 DEF Ahead
<1>3. 0 \in T
  <2>1. Breadth(web, seed, FirstTurn(seed), maxPages, maxDepth)
    BY BreadthStarts
  <2>2. Len(FirstTurn(seed).queue) = 1
    BY DEF FirstTurn
  <2>3. Cardinality(Untaken(web, FirstTurn(seed))) \in Nat /\ Cardinality(Untaken(web, FirstTurn(seed))) <= Len(web)
    BY PlacesFinite DEF Untaken
  <2>4. Ahead(web, FirstTurn(seed)) <= n - 0
    BY <2>2, <2>3 DEF Ahead
  <2> HIDE DEF n
  <2>5. Good(0)
    BY <1>1, <2>1, <2>4
  <2> HIDE DEF Good
  <2> QED BY <2>5
<1> HIDE DEF n
<1>4. ASSUME NEW k \in Nat, k \in T PROVE k + 1 \in T
  <2> SUFFICES ASSUME k + 1 <= n PROVE Good(k + 1)
    OBVIOUS
  <2>1. k \in 0..n /\ k + 1 \in 0..n /\ k + 1 \in 1..n /\ (k + 1) - 1 = k
    BY <1>0
  <2> DEFINE s == turn[k]  t == turn[k + 1]
  <2>2. t = Visit(web, s, maxPages, maxDepth) /\ s \in Crawling(P, seed) /\ t \in Crawling(P, seed)
    BY <1>1, <2>1
  <2>3. Breadth(web, seed, s, maxPages, maxDepth) /\ (Stopped(s, maxPages) \/ Ahead(web, s) <= n - k)
    BY <1>4, <2>1
  <2>4. Ahead(web, s) \in Nat /\ Ahead(web, t) \in Nat
    BY <1>2, <2>1
  <2> HIDE DEF s, t
  <2>5. CASE Stopped(s, maxPages)
    <3>1. t = s
      BY <2>2, <2>5 DEF Visit, Stopped
    <3> QED BY <3>1, <2>3, <2>5 DEF s, t
  <2>6. CASE ~Stopped(s, maxPages)
    <3>1. Waiting(web, seed, s, maxDepth)
      BY <2>3 DEF Breadth
    <3>2. PICK new \in Seq(Entries(P)) : Turned(web, seed, s, t, maxDepth, new)
      BY <2>2, <2>6, <3>1, TurnIs
    <3>3. Breadth(web, seed, t, maxPages, maxDepth)
      BY <2>2, <2>3, <2>6, <3>2, BreadthKept
    <3>4. Ahead(web, t) <= Ahead(web, s) - 1
      BY <2>2, <2>3, <2>6, <3>2, TurnsSpend
    <3>5. Ahead(web, t) <= n - (k + 1)
      BY <3>4, <2>3, <2>4, <2>6, <1>0
    <3> QED BY <3>3, <3>5 DEF t
  <2> QED BY <2>5, <2>6
<1>5. \A k \in Nat : k \in T
  <2> HIDE DEF T
  <2> QED BY <1>3, <1>4, Induct
<1>6. Good(n)
  <2> HIDE DEF Good
  <2> QED BY <1>5, <1>0
<1>7. Stopped(turn[n], maxPages)
  <2>1. CASE Ahead(web, turn[n]) <= n - n
    <3>1. n \in 0..n BY <1>0
    <3>2. Len(turn[n].queue) = 0
      BY <3>1, <1>0, <1>2, <2>1 DEF Ahead
    <3>3. turn[n].queue \in Seq(Entries(P))
      BY <3>1, <1>1 DEF Crawling
    <3>4. turn[n].queue = <<>>
      BY <3>2, <3>3
    <3> QED BY <3>4 DEF Stopped
  <2> QED BY <2>1, <1>6
<1>8. turn[n] \in Crawling(P, seed)
  BY <1>0, <1>1
<1> QED
  BY <1>1, <1>6, <1>7, <1>8

\* What is within so many links is within more.
LEMMA ReachedMore ==
    ASSUME NEW P, NEW web \in Seq(Edges(P)), NEW seed \in P, NEW c \in Nat, NEW d \in Nat, c <= d
    PROVE  Reached(web, seed, c) \subseteq Reached(web, seed, d)
<1> DEFINE T == {n \in Nat : Reached(web, seed, c) \subseteq Reached(web, seed, c + n)}
<1>1. 0 \in T
  OBVIOUS
<1>2. ASSUME NEW n \in Nat, n \in T PROVE n + 1 \in T
  <2>1. c + n \in Nat /\ (c + n) + 1 = c + (n + 1)
    OBVIOUS
  <2>2. Reached(web, seed, c + n) \subseteq Reached(web, seed, (c + n) + 1)
    BY <2>1, ReachedGoesOn
  <2>3. Reached(web, seed, c + n) \subseteq Reached(web, seed, c + (n + 1))
    BY <2>1, <2>2
  <2> QED BY <1>2, <2>3
<1>3. \A n \in Nat : n \in T
  <2> HIDE DEF T
  <2> QED BY <1>1, <1>2, Induct
<1>4. d - c \in Nat /\ c + (d - c) = d
  OBVIOUS
<1>5. d - c \in T
  <2> HIDE DEF T
  <2> QED BY <1>3, <1>4
<1> QED
  BY <1>4, <1>5

\* What is reached is finite.
LEMMA ReachedFinite ==
    ASSUME NEW P, NEW web \in Seq(Edges(P)), NEW seed \in P, NEW depth \in Nat
    PROVE  IsFiniteSet(Reached(web, seed, depth)) /\ Cardinality(Reached(web, seed, depth)) \in Nat
<1> DEFINE R(d) == Reached(web, seed, d)
           f == [i \in DOMAIN web |-> web[i].to]
           all == {seed} \cup Image(f, DOMAIN web)
           T == {d \in Nat : R(d) \subseteq all}
<1>1. IsFiniteSet(all)
  <2>1. IsFiniteSet(DOMAIN web)
    BY PlacesFinite
  <2>2. OnDomain(f, DOMAIN web)
    BY DEF OnDomain
  <2> HIDE DEF f
  <2>3. IsFiniteSet(Image(f, DOMAIN web))
    BY <2>1, <2>2, FiniteImage
  <2> QED BY <2>3, FS_Singleton, FS_Union
<1>2. 0 \in T
  <2>1. R(0) = Fair(seed, {seed})
    BY ReachedFirst
  <2> QED BY <2>1 DEF Fair
<1>3. ASSUME NEW d \in Nat, d \in T PROVE d + 1 \in T
  <2> SUFFICES ASSUME NEW q \in R(d + 1), q \notin R(d) PROVE q \in all
    BY <1>3
  <2>1. PICK p \in R(d) : \E i \in Leaving(web, p) : web[i].to = q
    BY ReachedGoesOn
  <2>2. PICK i \in DOMAIN web : web[i].to = q
    BY <2>1 DEF Leaving
  <2>3. f[i] = q
    BY <2>2
  <2> QED BY <2>3 DEF Image
<1>4. \A d \in Nat : d \in T
  <2> HIDE DEF T
  <2> QED BY <1>2, <1>3, Induct
<1>5. R(depth) \in SUBSET all
  BY <1>4
<1> QED
  BY <1>1, <1>5, FS_Subset, FS_CardinalityType

Nearness(web, seed, p, maxDepth) == {d \in 0..maxDepth : p \in Reached(web, seed, d)}

\* The number of links after which a page is first reached is the least.
LEMMA NearIsFirst ==
    ASSUME NEW web, NEW seed, NEW p, NEW maxDepth \in Nat, NEW d \in 0..maxDepth, Foremost(web, seed, p, d)
    PROVE  Min(Nearness(web, seed, p, maxDepth)) = d
<1> DEFINE S == Nearness(web, seed, p, maxDepth)
<1>1. S \subseteq Nat /\ d \in S
  BY DEF Nearness, Foremost
<1>2. Min(S) \in S /\ Min(S) <= d
  <2> HIDE DEF S
  <2> QED BY <1>1, MinIs
<1>3. Min(S) \in Nat /\ p \in Reached(web, seed, Min(S))
  BY <1>2 DEF Nearness
<1>4. d <= Min(S)
  <2> HIDE DEF S
  <2> QED BY <1>1, <1>3, FirstIsOne
<1> HIDE DEF S
<1>5. d \in Nat BY <1>1
<1> QED
  BY <1>2, <1>3, <1>4, <1>5 DEF S

\* Whatever the site links to and whatever cannot be fetched, a crawl stays within its
\* domain, its depth and its number of pages, takes no page twice, comes to all the pages
\* there are within the depth unless it has its number, and to nearer ones first
\* (ingest/web.py).
THEOREM CrawlsKeepTheirBounds ==
    ASSUME NEW P, NEW web \in Seq(Edges(P)), NEW seed \in P, NEW maxPages \in Nat, NEW maxDepth \in Nat
    PROVE  CrawlKept(web, seed, maxPages, maxDepth)
<1> DEFINE pages == CrawlFrom(web, seed, maxPages, maxDepth)
           within == Reached(web, seed, maxDepth)
<1>1. PICK s \in Crawling(P, seed) : /\ pages = s.results
                                     /\ Breadth(web, seed, s, maxPages, maxDepth)
                                     /\ Stopped(s, maxPages)
  BY CrawlEnds
<1>2. s.results \in Seq(P) /\ s.queue \in Seq(Entries(P))
  BY DEF Crawling
<1>3. \A p \in Elements(s.results) : \E d \in 0..maxDepth : Foremost(web, seed, p, d)
  BY <1>1 DEF Breadth, Placed
<1>4. Elements(s.results) \subseteq within
  <2> SUFFICES ASSUME NEW p \in Elements(s.results) PROVE p \in within
    OBVIOUS
  <2>1. PICK d \in 0..maxDepth : Foremost(web, seed, p, d)
    BY <1>3
  <2>2. d \in Nat /\ d <= maxDepth /\ p \in Reached(web, seed, d)
    BY <2>1 DEF Foremost
  <2> QED BY <2>2, ReachedMore
<1>5. \A j, k \in DOMAIN s.results : s.results[j] = s.results[k] => j = k
  BY <1>1 DEF Breadth, Taken
<1>6. IsFiniteSet(Elements(s.results)) /\ Cardinality(Elements(s.results)) = Len(s.results)
  BY <1>2, <1>5, DistinctLen
<1>7. IsFiniteSet(within) /\ Cardinality(within) \in Nat
  BY ReachedFinite
<1>8. Len(s.results) <= maxPages /\ Len(s.results) \in Nat
  BY <1>1, <1>2 DEF Breadth, Taken
<1>9. Len(s.results) <= Cardinality(within)
  <2> HIDE DEF within
  <2> QED BY <1>4, <1>6, <1>7, FS_Subset
<1>10. Len(s.results) = maxPages \/ Len(s.results) = Cardinality(within)
  <2>1. CASE Len(s.results) >= maxPages
    BY <2>1, <1>8
  <2>2. CASE s.queue = <<>>
    <3>1. Elements(s.queue) = {}
      BY <2>2 DEF Elements
    <3>2. maxDepth + 1 \in 0..(maxDepth + 1) /\ maxDepth < maxDepth + 1
      OBVIOUS
    <3>3. within \subseteq Elements(s.results)
      BY <3>1, <3>2, <1>1, NearerIsTaken
    <3>4. within = Elements(s.results)
      BY <3>3, <1>4
    <3> QED BY <3>4, <1>6
  <2> QED BY <2>1, <2>2, <1>1 DEF Stopped
<1>11. Len(s.results) = Min({maxPages, Cardinality(within)})
  <2> DEFINE S == {maxPages, Cardinality(within)}
  <2>1. S \subseteq Nat /\ S # {}
    BY <1>7
  <2>2. Min(S) \in S /\ \A m \in S : Min(S) <= m
    <3> HIDE DEF S
    <3> QED BY <2>1, MinIs
  <2> HIDE DEF within
  <2>3. Min(S) <= maxPages /\ Min(S) <= Cardinality(within) /\ Min(S) \in {maxPages, Cardinality(within)}
    BY <2>2
  <2> DEFINE m == Min(S)  c == Cardinality(within)  l == Len(s.results)
  <2>4. m \in {maxPages, c} /\ m <= maxPages /\ m <= c /\ c \in Nat /\ l \in Nat /\ l <= c /\ l <= maxPages /\ (l = maxPages \/ l = c)
    BY <2>3, <1>7, <1>8, <1>9, <1>10
  <2> HIDE DEF m, c, l
  <2>5. l = m
    BY <2>4
  <2> QED BY <2>5 DEF l, m, c
<1>12. ASSUME NEW i \in DOMAIN s.results, NEW j \in DOMAIN s.results, i < j
       PROVE  Min({d \in 0..maxDepth : s.results[i] \in Reached(web, seed, d)})
                <= Min({d \in 0..maxDepth : s.results[j] \in Reached(web, seed, d)})
  <2> DEFINE p == s.results[i]  q == s.results[j]
  <2>1. p \in Elements(s.results) /\ q \in Elements(s.results)
    BY DEF Elements
  <2>2. PICK c \in 0..maxDepth : Foremost(web, seed, p, c)
    BY <2>1, <1>3
  <2>3. PICK d \in 0..maxDepth : Foremost(web, seed, q, d)
    BY <2>1, <1>3
  <2>4. c <= d
    BY <2>2, <2>3, <1>1, <1>12 DEF Breadth, Nearest
  <2>5. Min(Nearness(web, seed, p, maxDepth)) = c /\ Min(Nearness(web, seed, q, maxDepth)) = d
    BY <2>2, <2>3, NearIsFirst
  <2> QED BY <2>4, <2>5 DEF Nearness
<1>13. ToSet(s.results) = Elements(s.results) /\ IsInjective(s.results)
  BY <1>5 DEF ToSet, Elements, IsInjective
<1> HIDE DEF pages, within
<1>14. /\ ToSet(pages) \subseteq within /\ IsInjective(pages)
       /\ Len(pages) = Min({maxPages, Cardinality(within)})
  BY <1>1, <1>4, <1>11, <1>13
<1>15. \A i, j \in DOMAIN pages : i < j =>
          Min({d \in 0..maxDepth : pages[i] \in Reached(web, seed, d)})
            <= Min({d \in 0..maxDepth : pages[j] \in Reached(web, seed, d)})
  BY <1>1, <1>12
<1> QED
  BY <1>14, <1>15 DEF CrawlKept, pages, within

Sourced(Paths) == [parts : Paths, code : BOOLEAN, raises : Raises]

Trees(Paths, W, K) ==
    [what : W, web : BOOLEAN, token : K, rebuild : Rebuilds, tree : Seq(Sourced(Paths))]

Corpora(Paths) ==
    [documents : SUBSET Paths, rows : SUBSET Paths, graph : SUBSET Paths, dirty : BOOLEAN, raised : BOOLEAN]

\* What is recorded has its rows.
Stored(corpus) == corpus.documents \subseteq corpus.rows

FirstParty(tree) ==
    {tree[i].parts : i \in {i \in DOMAIN tree : tree[i].code /\ \A part \in SkipDirs : part \notin ToSet(tree[i].parts)}}

PathsOf(files) == {files[i].parts : i \in DOMAIN files}

\* What is walked is the first-party code.
LEMMA WalkedIs ==
    ASSUME NEW Paths, NEW tree \in Seq(Sourced(Paths))
    PROVE  /\ WalkCodeFiles(tree) \in Seq(Sourced(Paths))
           /\ PathsOf(WalkCodeFiles(tree)) = FirstParty(tree)
           /\ \A f \in Elements(WalkCodeFiles(tree)) : f \in Elements(tree)
<1> DEFINE S == {f \in ToSet(tree) : f.code /\ ToSet(f.parts) \cap SkipDirs = {}}
           w == Within(tree, S)
<1>1. w \in Seq(Sourced(Paths)) /\ Elements(w) = Elements(tree) \cap S
  BY WithinIs
<1>2. WalkCodeFiles(tree) = w
  BY DEF WalkCodeFiles
<1>3. PathsOf(w) = {f.parts : f \in Elements(w)}
  BY DEF Elements, PathsOf
<1>4. {f.parts : f \in Elements(tree) \cap S} = FirstParty(tree)
  BY DEF Elements, FirstParty, ToSet
<1> QED
  BY <1>1, <1>2, <1>3, <1>4

\* What a call may make of a corpus: it loses no record, adds only its files, and if
\* it returns has them all in the graph; otherwise the graph is marked but for one.
Takes(files, before, after) ==
    /\ before.documents \subseteq after.documents
    /\ after.documents \subseteq before.documents \cup PathsOf(files)
    /\ after.rows \subseteq before.rows \cup PathsOf(files)
    /\ after.graph \subseteq before.graph \cup after.rows
    /\ ~after.raised => PathsOf(files) \subseteq after.documents /\ GraphCurrent(after)
    /\ GraphMarked(before, after, RaisedBetween(files))

\* The same of the ingests alone, which leave the graph as it was.
Ingests(Paths, files, before, after) ==
    /\ after \in Corpora(Paths) /\ Stored(after) /\ after.graph = before.graph
    /\ before.documents \subseteq after.documents
    /\ after.documents \subseteq before.documents \cup PathsOf(files)
    /\ after.rows \subseteq before.rows \cup PathsOf(files)
    /\ ~after.raised => PathsOf(files) \subseteq after.documents
    /\ after.dirty \/ \E lost \in {{}} \cup {{d} : d \in RaisedBetween(files)} :
                          after.documents \subseteq before.documents \cup lost
    /\ (\A i \in DOMAIN files : files[i].raises = "never") => ~after.raised

LEMMA IngestsTake ==
    ASSUME NEW Paths, NEW files \in Seq(Sourced(Paths)), NEW before \in Corpora(Paths), Stored(before),
           NEW after, after = IngestEach(files, before)
    PROVE  Ingests(Paths, files, before, after)
<1> DEFINE raising == {i \in DOMAIN files : files[i].raises \in
                         IF files[i].parts \in before.documents THEN {"read"} ELSE Raises \ {"never"}}
           last    == IF raising = {} THEN Len(files) ELSE Min(raising)
           new     == {i \in 1..last : files[i].parts \notin before.documents}
           through(steps) == {files[i].parts : i \in {i \in 1..last : /\ files[i].parts \notin before.documents
                                                                      /\ files[i].raises \in steps}}
<1>1. DOMAIN files = 1..Len(files) /\ Len(files) \in Nat /\ \A i \in DOMAIN files : files[i] \in Sourced(Paths)
  OBVIOUS
<1>2. /\ last \in Nat /\ 1..last \subseteq DOMAIN files
      /\ raising = {} => last = Len(files)
      /\ raising # {} => last \in raising
      /\ \A i \in 1..last : i \in raising => i = last
  <2>1. CASE raising = {}
    BY <1>1, <2>1
  <2>2. CASE raising # {}
    <3>1. raising \subseteq Nat
      BY <1>1
    <3>2. last = Min(raising) BY <2>2
    <3> HIDE DEF raising
    <3>3. Min(raising) \in raising /\ \A m \in raising : Min(raising) <= m
      BY <2>2, <3>1, MinIs
    <3>4. last \in raising /\ \A m \in raising : last <= m
      BY <3>2, <3>3
    <3> HIDE DEF last
    <3>5. last \in 1..Len(files)
      BY <1>1, <3>4 DEF raising
    <3>6. last \in Nat /\ 1..last \subseteq 1..Len(files)
      BY <1>1, <3>5
    <3>7. \A i \in 1..last : i \in raising => i = last
      BY <3>4, <3>6, <3>1
    <3> QED BY <1>1, <2>2, <3>4, <3>6, <3>7
  <2> QED BY <2>1, <2>2
<1>3. /\ after.documents = before.documents \cup through({"mark", "page", "never"})
      /\ after.rows = before.rows \cup through({"record", "mark", "page", "never"})
      /\ after.graph = before.graph
      /\ after.dirty = (before.dirty \/ through({"page", "never"}) # {})
      /\ after.raised = (raising # {})
      /\ after = [documents |-> after.documents, rows |-> after.rows, graph |-> after.graph,
                  dirty |-> after.dirty, raised |-> after.raised]
  BY DEF IngestEach
<1>4. \A i \in 1..last : files[i].parts \in before.documents \/ files[i].raises = "never" \/ (i = last /\ i \in raising)
  BY <1>1, <1>2 DEF Sourced
<1>5. ASSUME NEW steps PROVE through(steps) \subseteq PathsOf(files)
  BY <1>2 DEF PathsOf
<1>6. PathsOf(files) \subseteq Paths
  BY <1>1 DEF PathsOf, Sourced
<1> HIDE DEF last
<1>7. after \in Corpora(Paths)
  <2>1. after.documents \in SUBSET Paths /\ after.rows \in SUBSET Paths /\ after.graph \in SUBSET Paths
    BY <1>3, <1>5, <1>6 DEF Corpora
  <2>2. after.dirty \in BOOLEAN /\ after.raised \in BOOLEAN
    BY <1>3 DEF Corpora
  <2> QED BY <1>3, <2>1, <2>2 DEF Corpora
<1>8. Stored(after)
  BY <1>3 DEF Stored
<1>9. ~after.raised => PathsOf(files) \subseteq after.documents
  <2> SUFFICES ASSUME ~after.raised, NEW i \in DOMAIN files PROVE files[i].parts \in after.documents
    BY DEF PathsOf
  <2>1. raising = {} /\ i \in 1..last
    BY <1>1, <1>2, <1>3
  <2>2. files[i].parts \in before.documents \/ files[i].raises = "never"
    BY <1>4, <2>1
  <2> QED BY <1>3, <2>1, <2>2
<1>10. after.dirty \/ \E lost \in {{}} \cup {{d} : d \in RaisedBetween(files)} :
                         after.documents \subseteq before.documents \cup lost
  <2> SUFFICES ASSUME ~after.dirty
               PROVE  \E lost \in {{}} \cup {{d} : d \in RaisedBetween(files)} :
                         after.documents \subseteq before.documents \cup lost
    OBVIOUS
  <2>1. through({"page", "never"}) = {}
    BY <1>3
  <2>2. \A i \in 1..last : files[i].parts \in before.documents \/ files[i].raises \notin {"page", "never"}
    BY <2>1
  <2>3. ASSUME NEW d \in through({"mark", "page", "never"})
        PROVE  raising # {} /\ files[last].raises = "mark" /\ d = files[last].parts
    <3> PICK i \in 1..last : /\ files[i].parts \notin before.documents /\ d = files[i].parts
                             /\ files[i].raises \in {"mark", "page", "never"}
      OBVIOUS
    <3>1. files[i].raises = "mark" BY <2>2
    <3> QED BY <1>4, <3>1
  <2>4. CASE through({"mark", "page", "never"}) = {}
    BY <1>3, <2>4
  <2>5. CASE through({"mark", "page", "never"}) # {}
    <3>1. last \in DOMAIN files /\ files[last].raises = "mark"
      BY <1>1, <1>2, <2>3, <2>5
    <3>2. files[last].parts \in RaisedBetween(files)
      BY <3>1 DEF RaisedBetween, ToSet
    <3>3. after.documents \subseteq before.documents \cup {files[last].parts}
      BY <1>3, <2>3
    <3> QED BY <3>2, <3>3
  <2> QED BY <2>4, <2>5
<1>11. (\A i \in DOMAIN files : files[i].raises = "never") => ~after.raised
  BY <1>3 DEF Raises
<1>12. /\ after.graph = before.graph /\ before.documents \subseteq after.documents
       /\ after.documents \subseteq before.documents \cup PathsOf(files)
       /\ after.rows \subseteq before.rows \cup PathsOf(files)
  BY <1>3, <1>5
<1> HIDE DEF through, raising
<1> QED
  BY <1>7, <1>8, <1>9, <1>10, <1>11, <1>12 DEF Ingests

\* A call is its ingests and, if none raised, one rebuild.
LEMMA CallTakes ==
    ASSUME NEW Paths, NEW files \in Seq(Sourced(Paths)), NEW before \in Corpora(Paths), Stored(before),
           NEW rebuild \in Rebuilds, NEW after, after = TakenIn(files, rebuild, before)
    PROVE  /\ after \in Corpora(Paths) /\ Stored(after) /\ Takes(files, before, after)
           /\ (\A i \in DOMAIN files : files[i].raises = "never") /\ rebuild = "never" => ~after.raised
<1> PICK mid : mid = IngestEach(files, before)
  OBVIOUS
<1>0. Ingests(Paths, files, before, mid)
  BY IngestsTake
<1>1. /\ mid \in Corpora(Paths) /\ Stored(mid) /\ mid.graph = before.graph
      /\ before.documents \subseteq mid.documents
      /\ mid.documents \subseteq before.documents \cup PathsOf(files)
      /\ mid.rows \subseteq before.rows \cup PathsOf(files)
      /\ ~mid.raised => PathsOf(files) \subseteq mid.documents
      /\ mid.dirty \/ \E lost \in {{}} \cup {{d} : d \in RaisedBetween(files)} :
                         mid.documents \subseteq before.documents \cup lost
      /\ (\A i \in DOMAIN files : files[i].raises = "never") => ~mid.raised
  BY <1>0 DEF Ingests
<1>2. after = IF mid.raised THEN mid ELSE RefreshSlowPath(rebuild, mid)
  BY DEF TakenIn
<1>3. mid.dirty \/ \E lost \in {{}} \cup {{d} : d \in RaisedBetween(files)} :
                      mid.documents \subseteq before.documents \cup lost
  BY <1>1
<1>4. CASE mid.raised
  <2>1. after = mid BY <1>2, <1>4
  <2>2. GraphMarked(before, mid, RaisedBetween(files))
    BY <1>1, <1>3 DEF GraphMarked
  <2>3. Takes(files, before, mid)
    BY <1>1, <1>4, <2>2 DEF Takes
  <2> QED BY <1>1, <1>4, <2>1, <2>3
<1>5. CASE ~mid.raised
  <2>1. after = RefreshSlowPath(rebuild, mid) BY <1>2, <1>5
  <2>2. /\ after \in Corpora(Paths)
        /\ after.documents = mid.documents /\ after.rows = mid.rows
        /\ after.graph = IF rebuild = "distil" THEN mid.graph ELSE mid.rows
        /\ after.dirty = (mid.dirty /\ rebuild \in {"distil", "clean"})
        /\ after.raised = (rebuild # "never")
    BY <1>1, <2>1 DEF RefreshSlowPath, Corpora
  <2>3. ~after.raised => GraphCurrent(after)
    BY <1>1, <2>2 DEF GraphCurrent, Stored
  <2>4. GraphMarked(before, after, RaisedBetween(files))
    <3>1. CASE rebuild = "distil"
      <4>1. after.dirty = mid.dirty /\ after.graph = before.graph
        BY <1>1, <2>2, <3>1 DEF Corpora
      <4> QED BY <1>3, <2>2, <4>1 DEF GraphMarked
    <3>2. CASE rebuild # "distil"
      <4>1. after.documents \subseteq after.graph
        BY <1>1, <2>2, <3>2 DEF Stored
      <4> QED BY <4>1 DEF GraphMarked
    <3> QED BY <3>1, <3>2
  <2>5. Takes(files, before, after)
    BY <1>1, <1>5, <2>2, <2>3, <2>4 DEF Takes
  <2>6. Stored(after)
    BY <1>1, <2>2 DEF Stored
  <2> QED BY <2>2, <2>5, <2>6
<1> QED
  BY <1>4, <1>5

\* More documents that may be lost are no worse.
LEMMA MarkedOfMore ==
    ASSUME NEW before, NEW after, NEW few, NEW many, few \subseteq many, GraphMarked(before, after, few)
    PROVE  GraphMarked(before, after, many)
BY DEF GraphMarked

Refused(before, after) == after = [before EXCEPT !.raised = TRUE]

\* What was refused says so, and keeps what it had.
LEMMA RefusedKeeps ==
    ASSUME NEW Paths, NEW corpus \in Corpora(Paths), NEW after, Refused(corpus, after)
    PROVE  /\ after \in Corpora(Paths) /\ after.raised
           /\ after.documents = corpus.documents /\ after.rows = corpus.rows /\ after.graph = corpus.graph
           /\ Refused(after, after)
           /\ Stored(corpus) => Stored(after)
BY DEF Corpora, Stored, Refused

LEMMA RefusedMarked ==
    ASSUME NEW before, NEW after, NEW paths, after.documents = before.documents, after.graph = before.graph
    PROVE  GraphMarked(before, after, paths)
BY DEF GraphMarked

\* Whatever files a folder or a repository has, and wherever an ingest or the rebuild
\* raises: a call that returns has taken in the first-party code whole, and one that does
\* not has marked the graph for all that it recorded but one document; a retry loses
\* nothing and, once nothing raises, mends everything; and what is refused is refused
\* first (code/facade.py).
THEOREM CodeIsTakenWhole ==
    ASSUME NEW Paths, NEW W, NEW K, NEW origin \in Trees(Paths, W, K), NEW signals
    PROVE  CodeWhole(signals, origin)
<1> DEFINE empty == [documents |-> {}, rows |-> {}, graph |-> {}, dirty |-> FALSE, raised |-> FALSE]
           tree == origin.tree
           still == [i \in DOMAIN tree |-> [tree[i] EXCEPT !.raises = "never"]]
           sound == [origin EXCEPT !.rebuild = "never", !.tree = still]
           once  == IngestCode(signals, origin, empty)
           again == IngestCode(signals, origin, once)
           mended == IngestCode(signals, sound, again)
           files == WalkCodeFiles(tree)
           Asked == GraphSignal(signals) /\ Acquired(origin)
<1>1. /\ tree \in Seq(Sourced(Paths)) /\ origin.rebuild \in Rebuilds
      /\ origin \in [what : W, web : BOOLEAN, token : K, rebuild : Rebuilds, tree : Seq(Sourced(Paths))]
  BY DEF Trees
<1>2. files \in Seq(Sourced(Paths)) /\ PathsOf(files) = FirstParty(tree) /\ Elements(files) \subseteq Elements(tree)
  BY <1>1, WalkedIs
<1>3. still \in Seq(Sourced(Paths)) /\ \A f \in Elements(still) : f.raises = "never"
  <2>1. \A i \in DOMAIN tree : tree[i] \in Sourced(Paths) BY <1>1
  <2>2. \A i \in DOMAIN tree : still[i] \in Sourced(Paths) /\ still[i].raises = "never"
    BY <2>1 DEF Sourced, Raises
  <2>3. DOMAIN tree = 1..Len(tree) /\ Len(tree) \in Nat BY <1>1
  <2>5. DOMAIN still = DOMAIN tree OBVIOUS
  <2>6. still \in [1..Len(tree) -> Sourced(Paths)] BY <2>2, <2>3
  <2>4. still \in Seq(Sourced(Paths)) BY <2>6, <2>3
  <2> QED BY <2>2, <2>4, <2>5 DEF Elements
<1>4. FirstParty(still) = FirstParty(tree)
  <2>1. \A i \in DOMAIN tree : tree[i] \in Sourced(Paths) BY <1>1
  <2>2. \A i \in DOMAIN tree : still[i].parts = tree[i].parts /\ still[i].code = tree[i].code
    BY <2>1 DEF Sourced
  <2>3. DOMAIN still = DOMAIN tree OBVIOUS
  <2> HIDE DEF still, tree
  <2> QED BY <2>2, <2>3 DEF FirstParty
<1>5. /\ sound.tree = still /\ sound.rebuild = "never"
      /\ sound.what = origin.what /\ sound.web = origin.web /\ sound.token = origin.token
  BY <1>1
<1>6. Acquired(sound) <=> Acquired(origin)
  BY <1>5 DEF Acquired
<1>7. \A c : IngestCode(signals, origin, c) = IF Asked THEN TakenIn(files, origin.rebuild, c)
                                              ELSE [c EXCEPT !.raised = TRUE]
  BY DEF IngestCode
<1>8. \A c : IngestCode(signals, sound, c) = IF Asked THEN TakenIn(WalkCodeFiles(still), "never", c)
                                             ELSE [c EXCEPT !.raised = TRUE]
  BY <1>5, <1>6 DEF IngestCode
<1>9. empty \in Corpora(Paths) /\ Stored(empty)
  BY DEF Corpora, Stored
<1>10. RaisedBetween(files) \subseteq RaisedBetween(tree)
  <2>1. ToSet(files) = Elements(files) /\ ToSet(tree) = Elements(tree)
    BY DEF ToSet, Elements
  <2> HIDE DEF files, tree
  <2> QED BY <1>2, <2>1 DEF RaisedBetween
<1> DEFINE Kept(c) == /\ c.documents \cup c.rows \cup c.graph \subseteq FirstParty(tree)
                      /\ ~c.raised => c.documents = FirstParty(tree) /\ GraphCurrent(c)
<1>11. CASE ~Asked
  <2> DEFINE no == [empty EXCEPT !.raised = TRUE]
  <2>1. once = no
    BY <1>7, <1>11
  <2> HIDE DEF no, once
  <2>2. /\ no \in Corpora(Paths) /\ no.raised /\ Refused(no, no)
        /\ no.documents = empty.documents /\ no.rows = empty.rows /\ no.graph = empty.graph
    <3>1. Refused(empty, no) BY DEF no, Refused
    <3> HIDE DEF empty
    <3> QED BY <1>9, <3>1, RefusedKeeps
  <2>3. again = no
    <3>1. again = [once EXCEPT !.raised = TRUE]
      BY <1>7, <1>11
    <3> QED BY <2>1, <2>2, <3>1 DEF Refused
  <2> HIDE DEF again
  <2>4. mended = no
    <3>1. mended = [again EXCEPT !.raised = TRUE]
      BY <1>8, <1>11
    <3> QED BY <2>2, <2>3, <3>1 DEF Refused
  <2>5. Kept(no)
    <3>1. empty.documents = {} /\ empty.rows = {} /\ empty.graph = {} OBVIOUS
    <3> HIDE DEF empty
    <3> QED BY <2>2, <3>1
  <2> HIDE DEF empty, mended, Kept, tree
  <2>6. GraphMarked(empty, no, RaisedBetween(tree)) /\ GraphMarked(no, no, RaisedBetween(tree))
    BY <2>2, RefusedMarked
  <2>7. /\ \A c \in {once, again, mended} : Kept(c)
        /\ GraphMarked(empty, once, RaisedBetween(tree)) /\ GraphMarked(once, again, RaisedBetween(tree))
        /\ once.documents \subseteq again.documents
        /\ mended.raised => once = [empty EXCEPT !.raised = TRUE] /\ again = once
    BY <2>1, <2>3, <2>4, <2>5, <2>6 DEF no
  <2> QED BY <2>7 DEF CodeWhole, FirstParty, tree, still, sound, empty, once, again, mended, Kept
<1>12. CASE Asked
  <2>1. once = TakenIn(files, origin.rebuild, empty)
    BY <1>7, <1>12
  <2>2. again = TakenIn(files, origin.rebuild, once)
    BY <1>7, <1>12
  <2>3. mended = TakenIn(WalkCodeFiles(still), "never", again)
    BY <1>8, <1>12
  <2>4. "never" \in Rebuilds
    BY DEF Rebuilds
  <2> DEFINE w == WalkCodeFiles(still)
  <2>5. w \in Seq(Sourced(Paths)) /\ PathsOf(w) = FirstParty(tree) /\ Elements(w) \subseteq Elements(still)
    <3> HIDE DEF still, tree
    <3> QED BY <1>3, <1>4, WalkedIs
  <2>6. \A i \in DOMAIN w : w[i].raises = "never"
    <3> HIDE DEF still
    <3>1. \A f \in Elements(w) : f.raises = "never" BY <2>5, <1>3
    <3> HIDE DEF w
    <3> QED BY <3>1 DEF Elements
  <2> HIDE DEF w, files, once, again, mended, still, tree
  <2>7. empty.documents = {} /\ empty.rows = {} /\ empty.graph = {} OBVIOUS
  <2> HIDE DEF empty, sound, Asked
  <2>8. once \in Corpora(Paths) /\ Stored(once) /\ Takes(files, empty, once)
    BY <1>1, <1>2, <1>9, <2>1, CallTakes
  <2>9. again \in Corpora(Paths) /\ Stored(again) /\ Takes(files, once, again)
    BY <1>1, <1>2, <2>2, <2>8, CallTakes
  <2>10. mended \in Corpora(Paths) /\ Takes(w, again, mended) /\ ~mended.raised
    BY <2>3, <2>4, <2>5, <2>6, <2>9, CallTakes DEF w
  <2>11. Kept(once)
    BY <1>2, <2>7, <2>8 DEF Takes
  <2>12. Kept(again)
    BY <1>2, <2>9, <2>11 DEF Takes
  <2>13. Kept(mended)
    BY <2>5, <2>10, <2>12 DEF Takes
  <2>14. GraphMarked(empty, once, RaisedBetween(files)) /\ GraphMarked(once, again, RaisedBetween(files))
    BY <2>8, <2>9 DEF Takes
  <2>15. GraphMarked(empty, once, RaisedBetween(tree)) /\ GraphMarked(once, again, RaisedBetween(tree))
    BY <1>10, <2>14, MarkedOfMore
  <2>16. once.documents \subseteq again.documents
    BY <2>9 DEF Takes
  <2> HIDE DEF Kept
  <2>17. /\ \A c \in {once, again, mended} : Kept(c)
         /\ mended.raised => once = [empty EXCEPT !.raised = TRUE] /\ again = once
    BY <2>10, <2>11, <2>12, <2>13
  <2> QED BY <2>15, <2>16, <2>17 DEF CodeWhole, FirstParty, tree, still, sound, empty, once, again, mended, Kept
<1> QED
  BY <1>11, <1>12

Described(Paths, X) ==
    [suffix : X, namesOpenapi : BOOLEAN, createsTable : BOOLEAN, opensObject : BOOLEAN, hasMarker : BOOLEAN,
     connection : BOOLEAN, rebuild : Rebuilds, file : Sourced(Paths)]

\* Whatever a schema is named and says, whatever there was, and wherever its ingest or
\* the rebuild raises: a call that returns has it in the graph, and one that raises has
\* marked the graph for it or was cut between the two; a retry in which nothing raises
\* mends it; a live database is refused, and nothing of it stays; and what creates a
\* table is never read as plain text (schema/facade.py).
THEOREM SchemaIsTakenWhole ==
    ASSUME NEW Paths, NEW X, NEW origin \in Described(Paths, X), NEW corpus \in Corpora(Paths), Stored(corpus),
           NEW signals
    PROVE  SchemaWhole(signals, origin, corpus)
<1> DEFINE sound == [origin EXCEPT !.rebuild = "never", !.file.raises = "never"]
           once == IngestSchema(signals, origin, corpus)
           mended == IngestSchema(signals, sound, once)
           file == origin.file
           still == sound.file
           Asked == GraphSignal(signals) /\ ~origin.connection
<1>1. file \in Sourced(Paths) /\ origin.connection \in BOOLEAN /\ origin.rebuild \in Rebuilds
  BY DEF Described
<1>2. /\ still \in Sourced(Paths) /\ still.raises = "never" /\ still.parts = file.parts
      /\ sound.rebuild = "never" /\ sound.connection = origin.connection
  BY <1>1 DEF Described, Sourced, Raises
<1>3. ASSUME NEW f \in Sourced(Paths)
      PROVE  /\ <<f>> \in Seq(Sourced(Paths)) /\ DOMAIN <<f>> = {1} /\ <<f>>[1] = f /\ PathsOf(<<f>>) = {f.parts}
  <2>1. <<f>> \in Seq(Sourced(Paths)) /\ DOMAIN <<f>> = {1} /\ <<f>>[1] = f
    OBVIOUS
  <2> QED BY <2>1 DEF PathsOf
<1>4. \A c : IngestSchema(signals, origin, c) = IF Asked THEN TakenIn(<<file>>, origin.rebuild, c)
                                                ELSE [c EXCEPT !.raised = TRUE]
  BY DEF IngestSchema
<1>5. \A c : IngestSchema(signals, sound, c) = IF Asked THEN TakenIn(<<still>>, "never", c)
                                               ELSE [c EXCEPT !.raised = TRUE]
  BY <1>2 DEF IngestSchema
<1>6. ASSUME NEW suffix \in {"sql", "json", "txt"}, NEW named \in BOOLEAN,
             Classify([origin EXCEPT !.suffix = suffix, !.namesOpenapi = named]) = "plain"
      PROVE  suffix = "txt" /\ ~origin.createsTable
  <2> DEFINE s == [origin EXCEPT !.suffix = suffix, !.namesOpenapi = named]
  <2>1. s.suffix = suffix /\ s.createsTable = origin.createsTable /\ s.namesOpenapi = named
    BY DEF Described
  <2>2. Classify(s) = "plain" BY <1>6
  <2> HIDE DEF s
  <2>3. s.suffix # "sql" /\ s.suffix \notin {"json", "yaml"} /\ ~s.createsTable
    BY <2>2 DEF Classify
  <2> QED BY <2>1, <2>3
<1> DEFINE Half == /\ corpus.documents \subseteq once.documents
                   /\ once.documents \subseteq corpus.documents \cup {file.parts}
                   /\ GraphMarked(corpus, once, RaisedBetween(<<file>>))
                   /\ \A c \in {once, mended} : ~c.raised => file.parts \in c.documents /\ GraphCurrent(c)
                   /\ origin.connection => mended.raised
                   /\ mended.raised => once = [corpus EXCEPT !.raised = TRUE]
<1>7. ASSUME ~Asked PROVE Half
  <2>1. once = [corpus EXCEPT !.raised = TRUE]
    BY <1>4, <1>7
  <2> HIDE DEF once
  <2>2. /\ once \in Corpora(Paths) /\ once.raised /\ Refused(once, once)
        /\ once.documents = corpus.documents /\ once.graph = corpus.graph
    <3>1. Refused(corpus, once) BY <2>1 DEF Refused
    <3> QED BY <3>1, RefusedKeeps
  <2>3. mended = once
    <3>1. mended = [once EXCEPT !.raised = TRUE]
      BY <1>5, <1>7
    <3> HIDE DEF mended
    <3> QED BY <2>2, <3>1 DEF Refused
  <2>4. GraphMarked(corpus, once, RaisedBetween(<<file>>))
    BY <2>2, RefusedMarked
  <2> HIDE DEF mended, file
  <2> QED BY <2>1, <2>2, <2>3, <2>4
<1>8. ASSUME Asked PROVE Half
  <2>1. once = TakenIn(<<file>>, origin.rebuild, corpus)
    BY <1>4, <1>8
  <2>2. mended = TakenIn(<<still>>, "never", once)
    BY <1>5, <1>8
  <2>3. /\ <<file>> \in Seq(Sourced(Paths)) /\ PathsOf(<<file>>) = {file.parts}
        /\ <<still>> \in Seq(Sourced(Paths)) /\ PathsOf(<<still>>) = {file.parts}
        /\ \A i \in DOMAIN <<still>> : <<still>>[i].raises = "never"
    <3> HIDE DEF file, still
    <3> QED BY <1>1, <1>2, <1>3
  <2>4. "never" \in Rebuilds /\ ~origin.connection
    BY <1>8 DEF Rebuilds
  <2> HIDE DEF once, mended, file, still, Asked
  <2>5. once \in Corpora(Paths) /\ Stored(once) /\ Takes(<<file>>, corpus, once)
    BY <1>1, <2>1, <2>3, CallTakes
  <2>6. Takes(<<still>>, once, mended) /\ ~mended.raised
    BY <2>2, <2>3, <2>4, <2>5, CallTakes
  <2>7. \A c \in {once, mended} : ~c.raised => file.parts \in c.documents /\ GraphCurrent(c)
    BY <2>3, <2>5, <2>6 DEF Takes
  <2>8. /\ corpus.documents \subseteq once.documents
        /\ once.documents \subseteq corpus.documents \cup {file.parts}
        /\ GraphMarked(corpus, once, RaisedBetween(<<file>>))
    BY <2>3, <2>5 DEF Takes
  <2> QED BY <2>4, <2>6, <2>7, <2>8
<1> HIDE DEF Half
<1>9. Half
  BY <1>7, <1>8
<1> QED
  BY <1>6, <1>9 DEF SchemaWhole, Half, sound, once, mended, file

-----------------------------------------------------------------------------
(* The scopes of a hierarchy *)

\* What may be seen is what lies below an allowed path.
LEMMA AllowedIs ==
    ASSUME NEW V, NEW p \in Seq(V), NEW allowed \in SUBSET Seq(V)
    PROVE  AllowedPartition(p, allowed) <=> {SubSeq(p, 1, n) : n \in 0..Len(p)} \cap allowed # {}
<1>1. ASSUME NEW a \in allowed, IsPrefix(a, p)
      PROVE  a = SubSeq(p, 1, Len(a)) /\ Len(a) \in 0..Len(p)
  <2>1. a \in Seq(V) /\ Len(a) \in Nat /\ Len(a) <= Len(p) /\ SubSeq(a, 1, Len(a)) = SubSeq(p, 1, Len(a))
    BY <1>1 DEF IsPrefix
  <2>2. SubSeq(a, 1, Len(a)) = a
    BY <2>1
  <2> QED BY <2>1, <2>2
<1>2. ASSUME NEW n \in 0..Len(p), SubSeq(p, 1, n) \in allowed
      PROVE  IsPrefix(SubSeq(p, 1, n), p)
  <2> DEFINE a == SubSeq(p, 1, n)
  <2>1. a \in Seq(V) /\ Len(a) = n
    OBVIOUS
  <2>2. SubSeq(a, 1, n) = a
    BY <2>1
  <2> QED BY <2>1, <2>2 DEF IsPrefix
<1> QED
  BY <1>1, <1>2 DEF AllowedPartition

\* Who may see a path may see every path below it.
LEMMA AllowedBelow ==
    ASSUME NEW V, NEW q \in Seq(V), NEW n \in 0..Len(q), NEW allowed \in SUBSET Seq(V),
           AllowedPartition(SubSeq(q, 1, n), allowed)
    PROVE  AllowedPartition(q, allowed)
<1> DEFINE p == SubSeq(q, 1, n)
<1>1. p \in Seq(V) /\ Len(p) = n
  OBVIOUS
<1>2. PICK m \in 0..n : SubSeq(p, 1, m) \in allowed
  <2>0. AllowedPartition(p, allowed) OBVIOUS
  <2> HIDE DEF p
  <2>1. {SubSeq(p, 1, m) : m \in 0..Len(p)} \cap allowed # {}
    BY <1>1, <2>0, AllowedIs
  <2> QED BY <2>1, <1>1
<1>3. SubSeq(p, 1, m) = SubSeq(q, 1, m) /\ m \in 0..Len(q)
  BY <1>1, <1>2
<1> QED
  BY <1>2, <1>3, AllowedIs

\* Of two partitions, those are kept that may be seen and that the predicate keeps.
LEMMA FilteredIs ==
    ASSUME NEW p, NEW q, NEW allowed, NEW predicate
    PROVE  ToSet(Filtered(<<p, q>>, allowed, predicate))
              = {c \in {p, q} : AllowedPartition(c, allowed) /\ predicate[c]}
<1> DEFINE both == <<p, q>>
           S == {c \in ToSet(both) : AllowedPartition(c, allowed) /\ predicate[c]}
<1>1. both \in Seq({p, q}) /\ ToSet(both) = {p, q} /\ Elements(both) = {p, q}
  BY DEF ToSet, Elements
<1>2. S = {c \in {p, q} : AllowedPartition(c, allowed) /\ predicate[c]}
  BY <1>1
<1>3. Elements(Within(both, S)) = Elements(both) \cap S
  BY <1>1, WithinIs
<1>4. Filtered(both, allowed, predicate) = Within(both, S)
  BY DEF Filtered
<1>5. ToSet(Within(both, S)) = Elements(Within(both, S))
  BY DEF ToSet, Elements
<1> QED
  BY <1>1, <1>2, <1>3, <1>4, <1>5

\* The pairs of the first k levels.
LevelPairs(hierarchy, scope, k) == [i \in 1..k |-> <<hierarchy[i], scope[hierarchy[i]]>>]

Covers(hierarchy, scope, k) == DOMAIN scope = {hierarchy[i] : i \in 1..k}

\* A path that a scope resolves to names its levels from the root down.
LEMMA ResolvedIs ==
    ASSUME NEW L, NEW hierarchy \in Seq(L), NEW scope, NEW p \in ResolveScope(scope, hierarchy)
    PROVE  \E k \in 0..Len(hierarchy) : Covers(hierarchy, scope, k) /\ p = LevelPairs(hierarchy, scope, k)
<1> DEFINE given == {i \in DOMAIN hierarchy : hierarchy[i] \in DOMAIN scope}
           k == Cardinality(given)
<1>1. /\ DOMAIN scope \subseteq ToSet(hierarchy) /\ given = 1..k
      /\ p = [i \in given |-> <<hierarchy[i], scope[hierarchy[i]]>>]
  BY DEF ResolveScope
<1>2. given \subseteq 1..Len(hierarchy) /\ Len(hierarchy) \in Nat
  OBVIOUS
<1>3. IsFiniteSet(given) /\ k \in Nat
  <2>1. IsFiniteSet(1..Len(hierarchy))
    BY <1>2, FS_Interval
  <2> HIDE DEF given
  <2>2. IsFiniteSet(given)
    BY <1>2, <2>1, FS_Subset
  <2> QED BY <2>2, FS_CardinalityType
<1>4. DOMAIN scope = {hierarchy[i] : i \in given}
  BY <1>1 DEF ToSet
<1> HIDE DEF k, given
<1>5. k \in 0..Len(hierarchy)
  <2>1. CASE k = 0
    BY <2>1, <1>2
  <2>2. CASE k # 0
    <3>1. k \in 1..k
      BY <2>2, <1>3
    <3> QED BY <3>1, <1>1, <1>2
  <2> QED BY <2>1, <2>2
<1> QED
  BY <1>1, <1>4, <1>5 DEF Covers, LevelPairs

\* And a scope of the first k levels resolves to them.
LEMMA ResolvesTo ==
    ASSUME NEW L, NEW hierarchy \in Seq(L), \A i, j \in DOMAIN hierarchy : hierarchy[i] = hierarchy[j] => i = j,
           NEW scope, NEW k \in 0..Len(hierarchy), Covers(hierarchy, scope, k)
    PROVE  LevelPairs(hierarchy, scope, k) \in ResolveScope(scope, hierarchy)
<1> DEFINE given == {i \in DOMAIN hierarchy : hierarchy[i] \in DOMAIN scope}
<1>1. DOMAIN hierarchy = 1..Len(hierarchy) /\ Len(hierarchy) \in Nat /\ 1..k \subseteq DOMAIN hierarchy
  OBVIOUS
<1>2. given = 1..k
  BY <1>1 DEF Covers
<1>3. Cardinality(1..k) = k
  <2>1. k \in Nat OBVIOUS
  <2> QED BY <2>1, FS_Interval
<1>4. DOMAIN scope \subseteq ToSet(hierarchy)
  BY <1>1 DEF Covers, ToSet
<1> QED
  BY <1>2, <1>3, <1>4 DEF ResolveScope, LevelPairs

ScopesOf(LevelNames, Values) == UNION {[levels -> Values] : levels \in SUBSET LevelNames}

ResolvedPath(p, scope, LevelNames, Values, hierarchy) ==
    /\ p \in Seq(LevelNames \X Values)
    /\ ToSet(p) = {<<l, scope[l]>> : l \in DOMAIN scope}
    /\ \A n \in 0..Len(p) : SubSeq(p, 1, n) \in UNION {ResolveScope(s, hierarchy) : s \in ScopesOf(LevelNames, Values)}

\* Paths are sequences of pairs, and what is above one is a path.
LEMMA PathsAre ==
    ASSUME NEW LevelNames, NEW Values, NEW hierarchy \in Seq(LevelNames),
           \A i, j \in DOMAIN hierarchy : hierarchy[i] = hierarchy[j] => i = j,
           NEW scope \in ScopesOf(LevelNames, Values), NEW p \in ResolveScope(scope, hierarchy)
    PROVE  ResolvedPath(p, scope, LevelNames, Values, hierarchy)
<1>1. PICK k \in 0..Len(hierarchy) : Covers(hierarchy, scope, k) /\ p = LevelPairs(hierarchy, scope, k)
  BY ResolvedIs
<1>2. PICK levels \in SUBSET LevelNames : scope \in [levels -> Values]
  BY DEF ScopesOf
<1>3. k \in Nat /\ Len(hierarchy) \in Nat /\ \A i \in 1..k : hierarchy[i] \in LevelNames /\ hierarchy[i] \in DOMAIN scope
  BY <1>1 DEF Covers
<1>4. \A i \in 1..k : scope[hierarchy[i]] \in Values
  BY <1>2, <1>3
<1>5. p \in Seq(LevelNames \X Values) /\ Len(p) = k
  <2>1. \A i \in 1..k : p[i] \in LevelNames \X Values
    BY <1>1, <1>3, <1>4 DEF LevelPairs
  <2>2. p \in [1..k -> LevelNames \X Values]
    BY <1>1, <2>1 DEF LevelPairs
  <2> QED BY <2>2, <1>3
<1>6. ToSet(p) = {<<l, scope[l]>> : l \in DOMAIN scope}
  <2>1. DOMAIN p = 1..k /\ \A i \in 1..k : p[i] = <<hierarchy[i], scope[hierarchy[i]]>>
    BY <1>1 DEF LevelPairs
  <2>2. ToSet(p) = {p[i] : i \in 1..k}
    BY <2>1 DEF ToSet
  <2>3. DOMAIN scope = {hierarchy[i] : i \in 1..k}
    BY <1>1 DEF Covers
  <2> DEFINE pair(i) == <<hierarchy[i], scope[hierarchy[i]]>>
  <2>3a. \A i \in 1..k : p[i] = pair(i)
    BY <2>1
  <2> HIDE DEF pair
  <2>4a. {p[i] : i \in 1..k} = {pair(i) : i \in 1..k}
    BY <2>3a
  <2>4. {p[i] : i \in 1..k} = {<<hierarchy[i], scope[hierarchy[i]]>> : i \in 1..k}
    BY <2>4a DEF pair
  <2>5. {<<hierarchy[i], scope[hierarchy[i]]>> : i \in 1..k} = {<<l, scope[l]>> : l \in {hierarchy[i] : i \in 1..k}}
    OBVIOUS
  <2> QED BY <2>2, <2>3, <2>4, <2>5
<1>7. ASSUME NEW n \in 0..k
      PROVE  \E narrow \in ScopesOf(LevelNames, Values) : SubSeq(p, 1, n) \in ResolveScope(narrow, hierarchy)
  <2> DEFINE D == {hierarchy[i] : i \in 1..n}
             narrow == [l \in D |-> scope[l]]
  <2>1. 1..n \subseteq 1..k /\ n \in 0..Len(hierarchy)
    BY <1>1, <1>3
  <2>2. D \in SUBSET LevelNames /\ narrow \in [D -> Values]
    BY <2>1, <1>3, <1>4
  <2>3. narrow \in ScopesOf(LevelNames, Values)
    BY <2>2 DEF ScopesOf
  <2>4. Covers(hierarchy, narrow, n)
    BY DEF Covers
  <2>5. SubSeq(p, 1, n) = LevelPairs(hierarchy, narrow, n)
    <3>1. SubSeq(p, 1, n) = [i \in 1..n |-> p[i]]
      BY <1>5, <2>1
    <3>2. \A i \in 1..n : p[i] = <<hierarchy[i], narrow[hierarchy[i]]>>
      BY <1>1, <2>1 DEF LevelPairs
    <3> QED BY <3>1, <3>2 DEF LevelPairs
  <2>6. LevelPairs(hierarchy, narrow, n) \in ResolveScope(narrow, hierarchy)
    <3> HIDE DEF narrow
    <3> QED BY <2>1, <2>4, ResolvesTo
  <2> QED BY <2>3, <2>5, <2>6
<1> QED
  BY <1>5, <1>6, <1>7 DEF ResolvedPath

\* Whatever the hierarchy, if it names no level twice, and whatever may be seen: whoever
\* may see a scope may see every scope within it and nothing beside it, and a partition
\* is seen or not whatever else is listed (access/scope.py, access/prefilter.py).
THEOREM ScopesNarrow ==
    ASSUME NEW LevelNames, NEW Values, NEW hierarchy \in Seq(LevelNames),
           \A i, j \in DOMAIN hierarchy : hierarchy[i] = hierarchy[j] => i = j,
           NEW allowed \in SUBSET Seq(LevelNames \X Values)
    PROVE  ScopeNarrows(hierarchy, ScopesOf(LevelNames, Values), allowed)
<1> DEFINE V == LevelNames \X Values
           scopes == ScopesOf(LevelNames, Values)
           paths == UNION {ResolveScope(s, hierarchy) : s \in scopes}
           above(p) == {SubSeq(p, 1, n) : n \in 0..Len(p)}
           seen == {p \in paths : above(p) \cap allowed # {}}
<1>1. ASSUME NEW s \in scopes, NEW p \in ResolveScope(s, hierarchy)
      PROVE  p \in Seq(V) /\ ToSet(p) = {<<l, s[l]>> : l \in DOMAIN s} /\ above(p) \subseteq paths
  <2>1. ResolvedPath(p, s, LevelNames, Values, hierarchy)
    BY PathsAre
  <2> QED BY <2>1 DEF ResolvedPath
<1>2. paths \in SUBSET Seq(V)
  BY <1>1
<1> HIDE DEF scopes, paths, V
<1>3. ASSUME NEW p \in paths, NEW q \in paths, AllowedPartition(p, allowed), p \in above(q)
      PROVE  AllowedPartition(q, allowed)
  <2>1. q \in Seq(V) /\ allowed \in SUBSET Seq(V)
    BY <1>2 DEF V
  <2>2. PICK n \in 0..Len(q) : p = SubSeq(q, 1, n)
    BY <1>3
  <2> QED BY <1>3, <2>1, <2>2, AllowedBelow
<1>4. \A p \in paths : AllowedPartition(p, allowed) <=> p \in seen
  <2> SUFFICES ASSUME NEW p \in paths PROVE AllowedPartition(p, allowed) <=> p \in seen
    OBVIOUS
  <2>1. p \in Seq(V) /\ allowed \in SUBSET Seq(V)
    BY <1>2 DEF V
  <2> QED BY <2>1, AllowedIs
<1>5. ASSUME NEW p \in paths, NEW q \in paths, NEW hidden \in paths
      PROVE  ToSet(Filtered(<<p, q>>, allowed, [r \in paths |-> r # hidden])) = (seen \cap {p, q}) \ {hidden}
  <2> DEFINE acl == [r \in paths |-> r # hidden]
  <2>1. \A c \in {p, q} : acl[c] = (c # hidden)
    OBVIOUS
  <2> HIDE DEF acl
  <2>2. ToSet(Filtered(<<p, q>>, allowed, acl)) = {c \in {p, q} : AllowedPartition(c, allowed) /\ acl[c]}
    BY FilteredIs
  <2> HIDE DEF seen
  <2>3. ToSet(Filtered(<<p, q>>, allowed, acl)) = (seen \cap {p, q}) \ {hidden}
    BY <2>1, <2>2, <1>4
  <2> QED BY <2>3 DEF acl
<1>6. /\ \A s \in scopes : \A p \in ResolveScope(s, hierarchy) :
            ToSet(p) = {<<l, s[l]>> : l \in DOMAIN s} /\ above(p) \subseteq paths
      /\ \A p, q \in paths : AllowedPartition(p, allowed) /\ p \in above(q) => AllowedPartition(q, allowed)
      /\ \A p, q, hidden \in paths :
            ToSet(Filtered(<<p, q>>, allowed, [r \in paths |-> r # hidden])) = (seen \cap {p, q}) \ {hidden}
  <2> HIDE DEF above, seen
  <2> QED BY <1>1, <1>3, <1>5
<1> QED
  BY <1>6, Zenon DEF ScopeNarrows, scopes, paths

-----------------------------------------------------------------------------
(* The layers that a new plugin makes stale *)

Calls(Names, Versions) ==
    [verb : {"use", "register", "register_retriever"},
     plugin : [protocols : SUBSET Protocols, name : Names, version : Versions]]

\* A call that gives a stage's slot to its plugin.
Accepted(call, stage) ==
    call.plugin.version # "" /\ call.verb # "register_retriever" /\ call.plugin.protocols = {stage}

IsRegistry(registry) == registry = [slots |-> registry.slots, retrievers |-> registry.retrievers]

\* Only a plugin of one protocol is classified.
LEMMA ClassifiedIs ==
    ASSUME NEW plugin, plugin.protocols \in SUBSET Protocols
    PROVE  Classified(plugin) <=> \E p \in Protocols : plugin.protocols = {p}
<1>1. plugin.protocols \cap Protocols = plugin.protocols
  OBVIOUS
<1> QED
  BY <1>1 DEF Classified

\* A plugin of one protocol takes the slot of that protocol, and no other.
LEMMA InSlotIs ==
    ASSUME NEW registry, IsRegistry(registry), NEW plugin, NEW p \in Protocols, plugin.protocols = {p},
           NEW stage \in Stages
    PROVE  /\ IsRegistry(InSlot(registry, plugin))
           /\ StageStamp(InSlot(registry, plugin), stage)
                 = IF stage = p THEN <<plugin.name, plugin.version>> ELSE StageStamp(registry, stage)
<1> DEFINE after == InSlot(registry, plugin)
           slots == [q \in DOMAIN registry.slots \cup {p} |-> IF q = p THEN plugin ELSE registry.slots[q]]
<1>1. (CHOOSE q \in Protocols : q \in plugin.protocols) = p
  OBVIOUS
<1>2. after = [slots |-> slots, retrievers |-> registry.retrievers]
  <2>1. after = [registry EXCEPT !.slots = slots]
    BY <1>1 DEF InSlot
  <2> QED BY <2>1 DEF IsRegistry
<1>3. /\ DOMAIN slots = {p} \cup DOMAIN registry.slots
      /\ slots[p] = plugin
      /\ \A q \in DOMAIN registry.slots : q # p => slots[q] = registry.slots[q]
  OBVIOUS
<1> HIDE DEF slots
<1>4. after.slots = slots
  BY <1>2
<1> HIDE DEF after
<1>5. StageStamp(after, stage) = IF stage = p THEN <<plugin.name, plugin.version>> ELSE StageStamp(registry, stage)
  BY <1>3, <1>4 DEF StageStamp
<1> QED
  BY <1>2, <1>5 DEF IsRegistry, after

\* What a call does to the stamp of a stage.
LEMMA ApplyIs ==
    ASSUME NEW Names, NEW Versions, NEW registry, IsRegistry(registry), NEW call \in Calls(Names, Versions),
           NEW stage \in Stages
    PROVE  /\ IsRegistry(Apply(registry, call))
           /\ StageStamp(Apply(registry, call), stage)
                 = IF Accepted(call, stage) THEN <<call.plugin.name, call.plugin.version>>
                   ELSE StageStamp(registry, stage)
<1> DEFINE plugin == call.plugin
           after == Apply(registry, call)
           joined == RegisterRetriever(registry, plugin)
           taken == Register(registry, plugin)
<1>1. plugin.protocols \in SUBSET Protocols /\ call.verb \in {"use", "register", "register_retriever"}
  BY DEF Calls
<1>2. Classified(plugin) <=> \E p \in Protocols : plugin.protocols = {p}
  <2> HIDE DEF plugin
  <2> QED BY <1>1, ClassifiedIs
<1>3. IsRegistry(joined) /\ joined.slots = registry.slots
  <2>1. joined = registry \/ joined = [registry EXCEPT !.retrievers = Append(@, plugin)]
    BY DEF RegisterRetriever
  <2> DEFINE r == Append(registry.retrievers, plugin)
  <2>2. joined = registry \/ joined = [slots |-> registry.slots, retrievers |-> r]
    BY <2>1 DEF IsRegistry
  <2> HIDE DEF r, joined
  <2> QED BY <2>2 DEF IsRegistry
<1>4. StageStamp(joined, stage) = StageStamp(registry, stage)
  BY <1>3 DEF StageStamp
<1>5. Stages \subseteq Protocols /\ "retriever" \notin Stages
  BY DEF Stages, Protocols, SingleSlots
<1> HIDE DEF joined
<1>6. /\ IsRegistry(taken)
      /\ StageStamp(taken, stage) = IF plugin.version # "" /\ plugin.protocols = {stage}
                                    THEN <<plugin.name, plugin.version>> ELSE StageStamp(registry, stage)
  <2>1. CASE ~(Classified(plugin) /\ "retriever" \notin plugin.protocols /\ Versioned(plugin))
    <3>1. taken = registry
      BY <2>1 DEF Register
    <3>2. ~(plugin.version # "" /\ plugin.protocols = {stage})
      BY <2>1, <1>2, <1>5 DEF Versioned
    <3> QED BY <3>1, <3>2
  <2>2. CASE Classified(plugin) /\ "retriever" \notin plugin.protocols /\ Versioned(plugin)
    <3>1. PICK p \in Protocols : plugin.protocols = {p}
      BY <2>2, <1>2
    <3>2. taken = InSlot(registry, plugin)
      BY <2>2 DEF Register
    <3>3. plugin.version # "" /\ (plugin.protocols = {stage} <=> stage = p)
      BY <2>2, <3>1 DEF Versioned
    <3> HIDE DEF plugin, taken
    <3>4. IsRegistry(taken)
      BY <3>1, <3>2, InSlotIs
    <3>5. StageStamp(taken, stage) = IF stage = p THEN <<plugin.name, plugin.version>> ELSE StageStamp(registry, stage)
      BY <3>1, <3>2, InSlotIs
    <3> QED BY <3>3, <3>4, <3>5
  <2> QED BY <2>1, <2>2
<1> HIDE DEF taken
<1>7. CASE call.verb = "use"
  <2>1. after = Use(registry, plugin)
    BY <1>7 DEF Apply
  <2>2. CASE ~Classified(plugin)
    <3>1. after = registry /\ ~Accepted(call, stage)
      BY <2>1, <2>2, <1>2, <1>5 DEF Use, Accepted
    <3> QED BY <3>1
  <2>3. CASE Classified(plugin) /\ "retriever" \in plugin.protocols
    <3>1. after = joined /\ ~Accepted(call, stage)
      BY <2>1, <2>3, <1>5 DEF Use, Accepted, joined
    <3> QED BY <3>1, <1>3, <1>4
  <2>4. CASE Classified(plugin) /\ "retriever" \notin plugin.protocols
    <3>1. after = taken
      BY <2>1, <2>4 DEF Use, taken
    <3>2. Accepted(call, stage) <=> plugin.version # "" /\ plugin.protocols = {stage}
      BY <1>7 DEF Accepted
    <3> QED BY <3>1, <3>2, <1>6
  <2> QED BY <2>2, <2>3, <2>4
<1>8. CASE call.verb = "register"
  <2>1. after = taken
    BY <1>8 DEF Apply, taken
  <2>2. Accepted(call, stage) <=> plugin.version # "" /\ plugin.protocols = {stage}
    BY <1>8 DEF Accepted
  <2> QED BY <2>1, <2>2, <1>6
<1>9. CASE call.verb = "register_retriever"
  <2>1. after = joined /\ ~Accepted(call, stage)
    BY <1>9 DEF Apply, joined, Accepted
  <2> QED BY <2>1, <1>3, <1>4
<1> QED
  BY <1>1, <1>7, <1>8, <1>9

Plugins(Names, Versions) == [protocols : SUBSET Protocols, name : Names, version : Versions]

Slots(P) == UNION {[D -> P] : D \in SUBSET Protocols}

Registries(P) == [slots : Slots(P), retrievers : Seq(P)]

\* A slot that is taken leaves a registry.
LEMMA InSlotTyped ==
    ASSUME NEW Names, NEW Versions, NEW registry \in Registries(Plugins(Names, Versions)),
           NEW plugin \in Plugins(Names, Versions), Classified(plugin)
    PROVE  InSlot(registry, plugin) \in Registries(Plugins(Names, Versions))
<1> DEFINE P == Plugins(Names, Versions)
           slot == CHOOSE p \in Protocols : p \in plugin.protocols
           slots == [q \in DOMAIN registry.slots \cup {slot} |-> IF q = slot THEN plugin ELSE registry.slots[q]]
<1>1. slot \in Protocols
  <2>1. \E p \in Protocols : p \in plugin.protocols
    BY DEF Classified
  <2> QED BY <2>1
<1>2. PICK D \in SUBSET Protocols : registry.slots \in [D -> P]
  BY DEF Registries, Slots
<1>3. registry.retrievers \in Seq(P) /\ registry = [slots |-> registry.slots, retrievers |-> registry.retrievers]
  BY DEF Registries
<1> HIDE DEF slot, P
<1>4. slots \in [D \cup {slot} -> P] /\ D \cup {slot} \in SUBSET Protocols
  BY <1>1, <1>2 DEF P
<1>5. InSlot(registry, plugin) = [registry EXCEPT !.slots = slots]
  BY DEF InSlot, slot
<1> HIDE DEF slots
<1>6. slots \in Slots(P)
  BY <1>4 DEF Slots
<1>7. InSlot(registry, plugin) = [slots |-> slots, retrievers |-> registry.retrievers]
  BY <1>3, <1>5
<1> QED
  BY <1>3, <1>6, <1>7 DEF Registries, P

\* Whatever the call, there is a registry after it.
LEMMA ApplyTyped ==
    ASSUME NEW Names, NEW Versions, NEW registry \in Registries(Plugins(Names, Versions)),
           NEW call \in Calls(Names, Versions)
    PROVE  Apply(registry, call) \in Registries(Plugins(Names, Versions))
<1> DEFINE P == Plugins(Names, Versions)
           plugin == call.plugin
           joined == RegisterRetriever(registry, plugin)
           taken == Register(registry, plugin)
<1>1. plugin \in P
  BY DEF Calls, Plugins
<1>2. joined \in Registries(P)
  <2>1. joined = registry \/ joined = [registry EXCEPT !.retrievers = Append(@, plugin)]
    BY DEF RegisterRetriever
  <2>2. registry.retrievers \in Seq(P) /\ registry.slots \in Slots(P)
        /\ registry = [slots |-> registry.slots, retrievers |-> registry.retrievers]
    BY DEF Registries
  <2>3. Append(registry.retrievers, plugin) \in Seq(P)
    BY <1>1, <2>2
  <2> DEFINE r == Append(registry.retrievers, plugin)
  <2>4. joined = registry \/ joined = [slots |-> registry.slots, retrievers |-> r]
    BY <2>1, <2>2
  <2>5. r \in Seq(P)
    BY <2>3
  <2> HIDE DEF r, joined, P
  <2> QED BY <2>2, <2>4, <2>5 DEF Registries, P
<1>3. taken \in Registries(P)
  <2>1. Classified(plugin) => InSlot(registry, plugin) \in Registries(P)
    <3> HIDE DEF plugin
    <3> QED BY <1>1, InSlotTyped
  <2> QED BY <2>1 DEF Register
<1>4. Apply(registry, call) \in {registry, joined, taken}
  BY DEF Apply, Use
<1> QED
  BY <1>2, <1>3, <1>4

TurnOf(registry, history, V) ==
    /\ RegistryAfter(history) = registry[Len(history)]
    /\ registry[0] = EmptyRegistry
    /\ \A i \in 0..Len(history) : registry[i] \in V
    /\ \A i \in 1..Len(history) : registry[i] = Apply(registry[i - 1], history[i])

\* What RegistryAfter computes, one call after the other.
LEMMA RegistryUnfolds ==
    ASSUME NEW Names, NEW Versions, NEW history \in Seq(Calls(Names, Versions))
    PROVE  \E registry : TurnOf(registry, history, Registries(Plugins(Names, Versions)))
<1> DEFINE n == Len(history)
           V == Registries(Plugins(Names, Versions))
           G == [i \in 1..n |-> [x \in V |-> Apply(x, history[i])]]
           K(g) == [i \in 0..n |-> IF i = 0 THEN EmptyRegistry ELSE Apply(g[i - 1], history[i])]
           registry == CHOOSE g : g = K(g)
<1>0. n \in Nat /\ \A i \in 1..n : history[i] \in Calls(Names, Versions)
  OBVIOUS
<1>1. G \in [1..n -> [V -> V]]
  <2>1. \A i \in 1..n : \A x \in V : Apply(x, history[i]) \in V
    BY <1>0, ApplyTyped
  <2> HIDE DEF V, n
  <2> QED BY <2>1
<1>2. EmptyRegistry \in V
  <2>1. <<>> \in [{} -> Plugins(Names, Versions)] /\ {} \in SUBSET Protocols
    OBVIOUS
  <2>2. <<>> \in Slots(Plugins(Names, Versions))
    BY <2>1 DEF Slots
  <2> QED BY <2>2 DEF EmptyRegistry, Registries
<1>3. PICK f : Recurs(f, n, V, EmptyRegistry, G)
  <2> HIDE DEF V, G, n
  <2> QED BY <1>0, <1>1, <1>2, SeqRecursion
<1>4. f \in [0..n -> V] /\ f[0] = EmptyRegistry /\ \A i \in 1..n : f[i] = G[i][f[i - 1]]
  BY <1>3 DEF Recurs
<1>5. f = K(f)
  <2>1. \A i \in 0..n : f[i] = K(f)[i]
    <3> SUFFICES ASSUME NEW i \in 0..n PROVE f[i] = K(f)[i]
      OBVIOUS
    <3> HIDE DEF n, V
    <3>1. CASE i = 0 BY <3>1, <1>4, <1>0
    <3>2. CASE i # 0
      <4>1. i \in 1..n /\ i - 1 \in 0..n BY <3>2, <1>0
      <4>2. f[i] = G[i][f[i - 1]] /\ f[i - 1] \in V BY <4>1, <1>4
      <4> QED BY <4>1, <4>2, <3>2
    <3> QED BY <3>1, <3>2
  <2>2. f = [i \in 0..n |-> f[i]]
    BY <1>4
  <2> QED BY <2>1, <2>2
<1>6. registry = K(registry)
  BY <1>5
<1>7. RegistryAfter(history) = registry[Len(history)]
  BY DEF RegistryAfter
<1> HIDE DEF registry, V
<1>8. registry[0] = EmptyRegistry /\ \A i \in 1..n : registry[i] = Apply(registry[i - 1], history[i])
  <2>1. \A i \in 0..n : registry[i] = K(registry)[i]
    BY <1>6
  <2> QED BY <2>1, <1>0
<1>9. \A i \in 0..n : registry[i] \in V
  <2> DEFINE T == {i \in Nat : i <= n => registry[i] \in V}
  <2>1. 0 \in T
    BY <1>2, <1>8
  <2>2. ASSUME NEW i \in Nat, i \in T PROVE i + 1 \in T
    <3> SUFFICES ASSUME i + 1 <= n PROVE registry[i + 1] \in V
      OBVIOUS
    <3>1. registry[i] \in V /\ i + 1 \in 1..n /\ (i + 1) - 1 = i
      BY <2>2, <1>0
    <3>2. registry[i + 1] = Apply(registry[i], history[i + 1]) /\ history[i + 1] \in Calls(Names, Versions)
      BY <3>1, <1>8, <1>0
    <3> QED BY <3>1, <3>2, ApplyTyped DEF V
  <2> HIDE DEF T
  <2>3. \A i \in Nat : i \in T
    BY <2>1, <2>2, Induct
  <2> QED BY <2>3, <1>0 DEF T
<1> QED
  BY <1>7, <1>8, <1>9 DEF TurnOf, V

\* The maximum of a set of numbers that has a bound is one of them.
LEMMA MaxIs ==
    ASSUME NEW n \in Nat, NEW S \in SUBSET (1..n), S # {}
    PROVE  Max(S) \in S /\ \A x \in S : Max(S) >= x
<1> DEFINE T == {k \in Nat : \E m \in S : m + k = n}
<1>1. T # {} /\ T \subseteq Nat
  <2>1. PICK m \in S : m \in 1..n
    OBVIOUS
  <2>2. n - m \in Nat /\ m + (n - m) = n
    BY <2>1
  <2> QED BY <2>1, <2>2
<1>2. PICK k \in T : \A l \in T : k <= l
  <2> HIDE DEF T
  <2> QED BY <1>1, NatMin
<1>3. PICK m \in S : m + k = n
  BY <1>2
<1>4. \A x \in S : m >= x
  <2> SUFFICES ASSUME NEW x \in S PROVE m >= x
    OBVIOUS
  <2>1. n - x \in Nat /\ x + (n - x) = n /\ x \in 1..n /\ m \in 1..n
    BY <1>3
  <2>2. n - x \in T
    BY <2>1
  <2>3. k <= n - x
    BY <1>2, <2>2
  <2>4. k \in Nat
    BY <1>2
  <2> HIDE DEF T
  <2> QED BY <1>3, <2>1, <2>3, <2>4
<1> QED
  BY <1>4 DEF Max

\* The plugin of the last accepted among the first n calls.
Newest(history, n, stage) ==
    LET of == {i \in 1..n : Accepted(history[i], stage)}
    IN  IF of = {} THEN <<>> ELSE <<history[Max(of)].plugin.name, history[Max(of)].plugin.version>>

\* A call more is the newest, or changes nothing.
LEMMA NewestNext ==
    ASSUME NEW history, NEW n \in Nat, NEW stage
    PROVE  Newest(history, n + 1, stage) = IF Accepted(history[n + 1], stage)
                                         THEN <<history[n + 1].plugin.name, history[n + 1].plugin.version>>
                                         ELSE Newest(history, n, stage)
<1> DEFINE of(m) == {i \in 1..m : Accepted(history[i], stage)}
<1>0. 1..(n + 1) = 1..n \cup {n + 1}
  OBVIOUS
<1>1. CASE Accepted(history[n + 1], stage)
  <2>1. n + 1 \in of(n + 1) /\ \A i \in of(n + 1) : n + 1 >= i /\ i \in Nat
    BY <1>1, <1>0
  <2>2. \A x \in of(n + 1) : (\A y \in of(n + 1) : x >= y) => x = n + 1
    BY <2>1
  <2> HIDE DEF of
  <2>3. Max(of(n + 1)) = n + 1
    BY <2>1, <2>2 DEF Max
  <2>4. of(n + 1) # {}
    BY <2>1
  <2>5. Newest(history, n + 1, stage) = IF of(n + 1) = {} THEN <<>>
           ELSE <<history[Max(of(n + 1))].plugin.name, history[Max(of(n + 1))].plugin.version>>
    BY DEF Newest, of
  <2> QED BY <2>3, <2>4, <2>5, <1>1
<1>2. CASE ~Accepted(history[n + 1], stage)
  <2>1. of(n + 1) = of(n)
    BY <1>0, <1>2
  <2>2. \A m \in {n, n + 1} : Newest(history, m, stage) = IF of(m) = {} THEN <<>>
           ELSE <<history[Max(of(m))].plugin.name, history[Max(of(m))].plugin.version>>
    BY DEF Newest
  <2> HIDE DEF of
  <2> QED BY <2>1, <2>2, <1>2
<1> QED
  BY <1>1, <1>2

\* The stamp of a stage is that of its newest plugin.
LEMMA StampIs ==
    ASSUME NEW Names, NEW Versions, NEW history \in Seq(Calls(Names, Versions)), NEW stage \in Stages
    PROVE  StageStamp(RegistryAfter(history), stage) = Newest(history, Len(history), stage)
<1> DEFINE n == Len(history)
           P == Plugins(Names, Versions)
<1>1. PICK registry : TurnOf(registry, history, Registries(P))
  BY RegistryUnfolds
<1>2. /\ RegistryAfter(history) = registry[n] /\ registry[0] = EmptyRegistry
      /\ \A i \in 0..n : registry[i] \in Registries(P)
      /\ \A i \in 1..n : registry[i] = Apply(registry[i - 1], history[i])
  BY <1>1 DEF TurnOf
<1>3. n \in Nat /\ \A i \in 1..n : history[i] \in Calls(Names, Versions)
  OBVIOUS
<1> DEFINE T == {i \in Nat : i <= n => StageStamp(registry[i], stage) = Newest(history, i, stage)}
<1>4. 0 \in T
  <2>1. StageStamp(EmptyRegistry, stage) = <<>>
    BY DEF StageStamp, EmptyRegistry
  <2>2. {i \in 1..0 : Accepted(history[i], stage)} = {}
    OBVIOUS
  <2>3. Newest(history, 0, stage) = <<>>
    BY <2>2 DEF Newest
  <2> QED BY <2>1, <2>3, <1>2
<1> HIDE DEF n
<1>5. ASSUME NEW i \in Nat, i \in T PROVE i + 1 \in T
  <2> SUFFICES ASSUME i + 1 <= n PROVE StageStamp(registry[i + 1], stage) = Newest(history, i + 1, stage)
    OBVIOUS
  <2>1. i \in 0..n /\ i + 1 \in 1..n /\ (i + 1) - 1 = i
    BY <1>3
  <2>2. StageStamp(registry[i], stage) = Newest(history, i, stage)
    BY <1>5, <2>1
  <2> DEFINE r == registry[i]
             c == history[i + 1]
  <2>3. registry[i + 1] = Apply(r, c) /\ r \in Registries(P) /\ c \in Calls(Names, Versions)
    BY <2>1, <1>2, <1>3
  <2> HIDE DEF r, c
  <2>4. IsRegistry(r)
    BY <2>3 DEF Registries, IsRegistry
  <2>5. StageStamp(Apply(r, c), stage) = IF Accepted(c, stage) THEN <<c.plugin.name, c.plugin.version>>
                                         ELSE StageStamp(r, stage)
    BY <2>3, <2>4, ApplyIs
  <2>6. Newest(history, i + 1, stage) = IF Accepted(c, stage) THEN <<c.plugin.name, c.plugin.version>>
                                      ELSE Newest(history, i, stage)
    BY NewestNext DEF c
  <2> QED BY <2>2, <2>3, <2>5, <2>6 DEF r
<1> HIDE DEF T
<1>6. \A i \in Nat : i \in T
  BY <1>4, <1>5, Induct
<1> QED
  BY <1>6, <1>2, <1>3 DEF T, n

\* And after some of the calls, that of the newest among these.
LEMMA StampThen ==
    ASSUME NEW Names, NEW Versions, NEW history \in Seq(Calls(Names, Versions)), NEW n \in 0..Len(history),
           NEW stage \in Stages
    PROVE  StageStamp(RegistryAfter(SubSeq(history, 1, n)), stage) = Newest(history, n, stage)
<1> DEFINE first == SubSeq(history, 1, n)
           of(s) == {i \in 1..n : Accepted(s[i], stage)}
<1>1. first \in Seq(Calls(Names, Versions)) /\ Len(first) = n /\ \A i \in 1..n : first[i] = history[i]
  OBVIOUS
<1> HIDE DEF first
<1>2. StageStamp(RegistryAfter(first), stage) = Newest(first, n, stage)
  BY <1>1, StampIs
<1>3. of(first) = of(history)
  BY <1>1
<1>4. of(history) # {} => Max(of(history)) \in 1..n
  <2>1. of(history) \subseteq 1..n /\ n \in Nat
    OBVIOUS
  <2> HIDE DEF of
  <2> QED BY <2>1, MaxIs
<1>5. /\ Newest(first, n, stage) = IF of(first) = {} THEN <<>>
           ELSE <<first[Max(of(first))].plugin.name, first[Max(of(first))].plugin.version>>
      /\ Newest(history, n, stage) = IF of(history) = {} THEN <<>>
           ELSE <<history[Max(of(history))].plugin.name, history[Max(of(history))].plugin.version>>
  BY DEF Newest
<1> HIDE DEF of
<1> QED
  BY <1>1, <1>2, <1>3, <1>4, <1>5 DEF first

\* A layer, and everything that is made from it.
Reach(l) ==
    CASE l = "extract" -> Layers
      [] l = "ocr" -> Layers \ {"extract", "vision"}
      [] l = "vision" -> Layers \ {"extract", "ocr"}
      [] l = "eu_chunk" -> {"eu_chunk", "embedding", "structure", "graph", "community_summary"}
      [] l = "graph" -> {"graph", "community_summary"}
      [] OTHER -> {l}

OneStep(found) == found \cup UNION {Downstream[l] : l \in found}

Finding(found, seeds, n) ==
    /\ DownstreamClosure(seeds) = found[n]
    /\ found[0] = seeds
    /\ \A k \in 0..n : found[k] \in SUBSET Layers
    /\ \A k \in 1..n : found[k] = OneStep(found[k - 1])

\* Downstream of a layer are layers.
LEMMA DownstreamIs ==
    /\ \A l \in Layers : Downstream[l] \subseteq Layers
    /\ Downstream["extract"] = {"ocr", "vision"}
    /\ Downstream["ocr"] = {"eu_chunk"} /\ Downstream["vision"] = {"eu_chunk"}
    /\ Downstream["eu_chunk"] = {"embedding", "structure", "graph"}
    /\ Downstream["graph"] = {"community_summary"}
    /\ Downstream["embedding"] = {} /\ Downstream["structure"] = {} /\ Downstream["community_summary"] = {}
BY DEF Downstream, Layers

\* What DownstreamClosure computes, one step after the other.
LEMMA ClosureUnfolds ==
    ASSUME NEW seeds \in SUBSET Layers, Cardinality(Layers) \in Nat
    PROVE  \E found : Finding(found, seeds, Cardinality(Layers))
<1> DEFINE n == Cardinality(Layers)
           V == SUBSET Layers
           G == [k \in 1..n |-> [x \in V |-> x \cup UNION {Downstream[l] : l \in x}]]
           K(g) == [k \in 0..n |-> IF k = 0 THEN seeds ELSE g[k - 1] \cup UNION {Downstream[l] : l \in g[k - 1]}]
           found == CHOOSE g : g = K(g)
<1>0. n \in Nat
  OBVIOUS
<1> HIDE DEF n
<1>1. \A x \in V : x \cup UNION {Downstream[l] : l \in x} \in V
  BY DownstreamIs
<1>2. G \in [1..n -> [V -> V]]
  <2> HIDE DEF V
  <2> QED BY <1>1
<1>3. PICK f : Recurs(f, n, V, seeds, G)
  <2>1. seeds \in V OBVIOUS
  <2> HIDE DEF V, G
  <2> QED BY <1>0, <1>2, <2>1, SeqRecursion
<1>4. f \in [0..n -> V] /\ f[0] = seeds /\ \A k \in 1..n : f[k] = G[k][f[k - 1]]
  BY <1>3 DEF Recurs
<1>5. f = K(f)
  <2>1. \A k \in 0..n : f[k] = K(f)[k]
    <3> SUFFICES ASSUME NEW k \in 0..n PROVE f[k] = K(f)[k]
      OBVIOUS
    <3> HIDE DEF V
    <3>1. CASE k = 0 BY <3>1, <1>4, <1>0
    <3>2. CASE k # 0
      <4>1. k \in 1..n /\ k - 1 \in 0..n BY <3>2, <1>0
      <4>2. f[k] = G[k][f[k - 1]] /\ f[k - 1] \in V BY <4>1, <1>4
      <4> QED BY <4>1, <4>2, <3>2
    <3> QED BY <3>1, <3>2
  <2>2. f = [k \in 0..n |-> f[k]]
    BY <1>4
  <2> QED BY <2>1, <2>2
<1>6. found = K(found)
  BY <1>5
<1>7. DownstreamClosure(seeds) = found[n]
  BY DEF DownstreamClosure, n
<1> HIDE DEF found
<1>8. found[0] = seeds /\ \A k \in 1..n : found[k] = OneStep(found[k - 1])
  <2>1. \A k \in 0..n : found[k] = K(found)[k]
    BY <1>6
  <2>2. found[0] = seeds
    <3>1. 0 \in 0..n /\ K(found)[0] = seeds
      BY <1>0
    <3> HIDE DEF K
    <3> QED BY <2>1, <3>1
  <2>3. ASSUME NEW k \in 1..n PROVE found[k] = OneStep(found[k - 1])
    <3>1. k \in 0..n /\ k # 0
      BY <1>0
    <3>2. found[k] = found[k - 1] \cup UNION {Downstream[l] : l \in found[k - 1]}
      BY <2>1, <3>1
    <3> QED BY <3>2 DEF OneStep
  <2> QED BY <2>2, <2>3
<1>9. \A k \in 0..n : found[k] \in V
  <2> DEFINE T == {k \in Nat : k <= n => found[k] \in V}
  <2>1. 0 \in T
    BY <1>8
  <2>2. ASSUME NEW k \in Nat, k \in T PROVE k + 1 \in T
    <3> SUFFICES ASSUME k + 1 <= n PROVE found[k + 1] \in V
      OBVIOUS
    <3>1. found[k] \in V /\ k + 1 \in 1..n /\ (k + 1) - 1 = k
      BY <2>2, <1>0
    <3>2. found[k + 1] = OneStep(found[k])
      BY <3>1, <1>8
    <3> QED BY <3>1, <3>2, <1>1 DEF OneStep
  <2> HIDE DEF T
  <2>3. \A k \in Nat : k \in T
    BY <2>1, <2>2, Induct
  <2> QED BY <2>3, <1>0 DEF T
<1> QED
  BY <1>7, <1>8, <1>9 DEF Finding, n

\* There are enough steps to reach what is furthest.
LEMMA LayersEnough ==
    Cardinality(Layers) \in Nat /\ Cardinality(Layers) >= 4
<1> DEFINE S1 == {"extract"}
           S2 == S1 \cup {"ocr"}
           S3 == S2 \cup {"vision"}
           S4 == S3 \cup {"eu_chunk"}
           S5 == S4 \cup {"embedding"}
           S6 == S5 \cup {"structure"}
           S7 == S6 \cup {"graph"}
           S8 == S7 \cup {"community_summary"}
<1>1. IsFiniteSet(S1) /\ Cardinality(S1) = 1
  BY FS_Singleton
<1>2. IsFiniteSet(S2) /\ Cardinality(S2) = 2
  <2>1. "ocr" \notin S1 OBVIOUS
  <2> HIDE DEF S1
  <2> QED BY <1>1, <2>1, FS_AddElement
<1>3. IsFiniteSet(S3) /\ Cardinality(S3) = 3
  <2>1. "vision" \notin S2 OBVIOUS
  <2> HIDE DEF S2
  <2> QED BY <1>2, <2>1, FS_AddElement
<1>4. IsFiniteSet(S4) /\ Cardinality(S4) = 4
  <2>1. "eu_chunk" \notin S3 OBVIOUS
  <2> HIDE DEF S3
  <2> QED BY <1>3, <2>1, FS_AddElement
<1>5. Layers = S8 /\ S4 \subseteq Layers
  BY DEF Layers
<1>6. IsFiniteSet(S8)
  <2>1. \A T : \A x : IsFiniteSet(T) => IsFiniteSet(T \cup {x})
    BY FS_AddElement
  <2> HIDE DEF S4
  <2>2. IsFiniteSet(S5) BY <1>4, <2>1
  <2> HIDE DEF S5
  <2>3. IsFiniteSet(S6) BY <2>2, <2>1
  <2> HIDE DEF S6
  <2>4. IsFiniteSet(S7) BY <2>3, <2>1
  <2> HIDE DEF S7
  <2> QED BY <2>4, <2>1
<1> HIDE DEF S4, S8
<1> QED
  BY <1>4, <1>5, <1>6, FS_Subset, FS_CardinalityType

\* What is made from what is reached is reached.
LEMMA ReachCloses ==
    ASSUME NEW l \in Layers
    PROVE  l \in Reach(l) /\ Reach(l) \subseteq Layers /\ \A m \in Reach(l) : Downstream[m] \subseteq Reach(l)
<1>1. CASE l = "extract" BY <1>1, DownstreamIs DEF Reach, Layers
<1>2. CASE l = "ocr" BY <1>2, DownstreamIs DEF Reach, Layers
<1>3. CASE l = "vision" BY <1>3, DownstreamIs DEF Reach, Layers
<1>4. CASE l = "eu_chunk" BY <1>4, DownstreamIs DEF Reach, Layers
<1>5. CASE l = "graph" BY <1>5, DownstreamIs DEF Reach, Layers
<1>6. CASE l \in {"embedding", "structure", "community_summary"} BY <1>6, DownstreamIs DEF Reach, Layers
<1> QED
  BY <1>1, <1>2, <1>3, <1>4, <1>5, <1>6 DEF Layers

\* Four steps reach everything.
LEMMA ReachInFour ==
    ASSUME NEW found \in SUBSET Layers, NEW l \in found
    PROVE  Reach(l) \subseteq OneStep(OneStep(OneStep(OneStep(found))))
<1> DEFINE F1 == OneStep(found)
           F2 == OneStep(F1)
           F3 == OneStep(F2)
           F4 == OneStep(F3)
<1>1. \A S : S \subseteq OneStep(S) /\ \A m \in S : Downstream[m] \subseteq OneStep(S)
  BY DEF OneStep
<1>2. found \subseteq F1 /\ F1 \subseteq F2 /\ F2 \subseteq F3 /\ F3 \subseteq F4
  BY <1>1
<1>3. /\ \A m \in found : Downstream[m] \subseteq F1
      /\ \A m \in F1 : Downstream[m] \subseteq F2
      /\ \A m \in F2 : Downstream[m] \subseteq F3
      /\ \A m \in F3 : Downstream[m] \subseteq F4
  BY <1>1
<1> HIDE DEF F1, F2, F3, F4
<1>g. "graph" \in F3 => {"graph", "community_summary"} \subseteq F4
  BY <1>2, <1>3, DownstreamIs
<1>h. "graph" \in found => {"graph", "community_summary"} \subseteq F4
  BY <1>2, <1>g
<1>e. "eu_chunk" \in F2 => {"eu_chunk", "embedding", "structure", "graph", "community_summary"} \subseteq F4
  BY <1>2, <1>3, <1>g, DownstreamIs
<1>o. "ocr" \in F1 \/ "vision" \in F1 => {"eu_chunk", "embedding", "structure", "graph", "community_summary"} \subseteq F4
  BY <1>2, <1>3, <1>e, DownstreamIs
<1>4. CASE l = "extract"
  <2>1. "ocr" \in F1 /\ "vision" \in F1 /\ "extract" \in F4
    BY <1>4, <1>2, <1>3, DownstreamIs
  <2> QED BY <2>1, <1>4, <1>o, <1>2 DEF Reach, Layers, F4, F3, F2, F1
<1>5. CASE l = "ocr"
  <2>1. "ocr" \in F1 /\ "ocr" \in F4
    BY <1>5, <1>2
  <2> QED BY <2>1, <1>5, <1>o DEF Reach, Layers, F4, F3, F2, F1
<1>6. CASE l = "vision"
  <2>1. "vision" \in F1 /\ "vision" \in F4
    BY <1>6, <1>2
  <2> QED BY <2>1, <1>6, <1>o DEF Reach, Layers, F4, F3, F2, F1
<1>7. CASE l = "eu_chunk"
  <2>1. "eu_chunk" \in F2
    BY <1>7, <1>2
  <2> QED BY <2>1, <1>7, <1>e DEF Reach, F4, F3, F2, F1
<1>8. CASE l = "graph"
  BY <1>8, <1>h DEF Reach, F4, F3, F2, F1
<1>9. CASE l \in {"embedding", "structure", "community_summary"}
  <2>1. l \in F4 /\ Reach(l) = {l}
    BY <1>9, <1>2 DEF Reach
  <2> QED BY <2>1 DEF F4, F3, F2, F1
<1> QED
  BY <1>4, <1>5, <1>6, <1>7, <1>8, <1>9 DEF Layers

\* The downstream closure is what the seeds reach.
LEMMA ClosureIs ==
    ASSUME NEW seeds \in SUBSET Layers
    PROVE  DownstreamClosure(seeds) = UNION {Reach(l) : l \in seeds}
<1> DEFINE n == Cardinality(Layers)
           all == UNION {Reach(l) : l \in seeds}
<1>1. n \in Nat /\ n >= 4
  BY LayersEnough
<1>2. PICK found : Finding(found, seeds, n)
  BY <1>1, ClosureUnfolds
<1>3. /\ DownstreamClosure(seeds) = found[n] /\ found[0] = seeds
      /\ \A k \in 0..n : found[k] \in SUBSET Layers
      /\ \A k \in 1..n : found[k] = OneStep(found[k - 1])
  BY <1>2 DEF Finding
<1> HIDE DEF n
<1>4. found[1] = OneStep(seeds) /\ found[2] = OneStep(found[1]) /\ found[3] = OneStep(found[2])
      /\ found[4] = OneStep(found[3])
  BY <1>1, <1>3
<1>5. all \subseteq found[4]
  <2>1. \A l \in seeds : Reach(l) \subseteq found[4]
    BY <1>4, ReachInFour
  <2> QED BY <2>1
<1>6. \A l \in seeds : l \in all /\ \A m \in all : Downstream[m] \subseteq all
  <2>1. \A l \in Layers : l \in Reach(l) /\ \A m \in Reach(l) : Downstream[m] \subseteq Reach(l)
    BY ReachCloses
  <2>2. \A l \in seeds : l \in all
    BY <2>1
  <2>3. ASSUME NEW m \in all PROVE Downstream[m] \subseteq all
    <3>1. PICK l \in seeds : m \in Reach(l)
      OBVIOUS
    <3>2. Downstream[m] \subseteq Reach(l)
      BY <2>1, <3>1
    <3> QED BY <3>2
  <2> QED BY <2>2, <2>3
<1> HIDE DEF all
<1>7. seeds \subseteq all /\ \A m \in all : Downstream[m] \subseteq all
  <2>1. CASE seeds = {}
    BY <2>1 DEF all
  <2>2. CASE seeds # {}
    BY <2>2, <1>6
  <2> QED BY <2>1, <2>2
<1> DEFINE T == {k \in Nat : k <= n => found[k] \subseteq all}
           U == {k \in Nat : k + 4 <= n => found[4] \subseteq found[k + 4]}
<1>8. \A k \in Nat : k \in T
  <2>1. 0 \in T
    BY <1>3, <1>7
  <2>2. ASSUME NEW k \in Nat, k \in T PROVE k + 1 \in T
    <3> SUFFICES ASSUME k + 1 <= n PROVE found[k + 1] \subseteq all
      OBVIOUS
    <3>1. found[k] \subseteq all /\ k + 1 \in 1..n /\ (k + 1) - 1 = k
      BY <2>2, <1>1
    <3>2. found[k + 1] = OneStep(found[k])
      BY <3>1, <1>3
    <3> QED BY <3>1, <3>2, <1>7 DEF OneStep
  <2> HIDE DEF T
  <2> QED BY <2>1, <2>2, Induct
<1>9. \A k \in Nat : k \in U
  <2>1. 0 \in U
    OBVIOUS
  <2>2. ASSUME NEW k \in Nat, k \in U PROVE k + 1 \in U
    <3> SUFFICES ASSUME (k + 1) + 4 <= n PROVE found[4] \subseteq found[(k + 1) + 4]
      OBVIOUS
    <3>1. found[4] \subseteq found[k + 4] /\ (k + 1) + 4 \in 1..n /\ ((k + 1) + 4) - 1 = k + 4
      BY <2>2, <1>1
    <3>2. found[(k + 1) + 4] = OneStep(found[k + 4])
      BY <3>1, <1>3
    <3> QED BY <3>1, <3>2 DEF OneStep
  <2> HIDE DEF U
  <2> QED BY <2>1, <2>2, Induct
<1>10. found[n] \subseteq all
  BY <1>8, <1>1
<1>11. found[4] \subseteq found[n]
  <2>1. n - 4 \in U /\ (n - 4) + 4 = n
    BY <1>9, <1>1
  <2> QED BY <2>1
<1> QED
  BY <1>3, <1>5, <1>10, <1>11 DEF all

\* What is planned for the stages that changed is what the matrix names for them.
LEMMA PlanIs ==
    ASSUME NEW current, NEW stamp
    PROVE  Plan(current, stamp) = UNION {Matrix[s] : s \in {s \in Stages : current[s] # stamp[s]}}
<1> DEFINE changed == {s \in Stages : current[s] # stamp[s]}
           seeds == {SeedOf[s] : s \in changed}
<1>1. \A s \in Stages : SeedOf[s] \in Layers /\ Reach(SeedOf[s]) = Matrix[s]
  <2>1. SeedOf["extractor"] = "extract" /\ SeedOf["chunker"] = "eu_chunk" /\ SeedOf["vision"] = "vision"
        /\ SeedOf["embedding"] = "embedding" /\ SeedOf["graph_extractor"] = "graph"
    BY DEF SeedOf
  <2>2. /\ Matrix["extractor"] = Layers /\ Matrix["vision"] = Layers \ {"extract", "ocr"}
        /\ Matrix["chunker"] = {"eu_chunk", "embedding", "structure", "graph", "community_summary"}
        /\ Matrix["embedding"] = {"embedding"} /\ Matrix["graph_extractor"] = {"graph", "community_summary"}
    BY DEF Matrix
  <2>3. /\ Reach("extract") = Layers /\ Reach("vision") = Layers \ {"extract", "ocr"}
        /\ Reach("eu_chunk") = {"eu_chunk", "embedding", "structure", "graph", "community_summary"}
        /\ Reach("embedding") = {"embedding"} /\ Reach("graph") = {"graph", "community_summary"}
    BY DEF Reach
  <2> QED BY <2>1, <2>2, <2>3 DEF Stages, Layers
<1>2. seeds \in SUBSET Layers
  BY <1>1
<1>3. Plan(current, stamp) = DownstreamClosure(seeds)
  BY DEF Plan, ChangedStages
<1> HIDE DEF seeds
<1>4. Plan(current, stamp) = UNION {Reach(l) : l \in seeds}
  BY <1>2, <1>3, ClosureIs
<1>5. \A s \in changed : s \in Stages
  OBVIOUS
<1> HIDE DEF changed
<1>6. {Reach(l) : l \in seeds} = {Matrix[s] : s \in changed}
  BY <1>1, <1>5 DEF seeds
<1> QED
  BY <1>4, <1>6 DEF changed

\* Whatever calls a client's plugins came by, accepted or not, and at whatever point an
\* artifact was stamped: exactly those layers are made again that the matrix names for a
\* stage whose last accepted plugin is another one by now, and of several artifacts
\* those of each (plugins/registry.py, provenance/rebuild_planner.py).
THEOREM RebuildsAreMinimal ==
    ASSUME NEW Names, NEW Versions, NEW history \in Seq(Calls(Names, Versions))
    PROVE  RebuildsMinimum(history)
<1> DEFINE accepted(c) == /\ c.plugin.version # "" /\ c.verb # "register_retriever"
                          /\ \E p \in Stages : c.plugin.protocols = {p}
           last(n, stage) ==
               LET of == {i \in 1..n : accepted(history[i]) /\ stage \in history[i].plugin.protocols}
               IN  IF of = {} THEN {} ELSE {<<history[Max(of)].plugin.name, history[Max(of)].plugin.version>>}
           stale(n) == UNION {Matrix[s] : s \in {s \in Stages : last(n, s) # last(Len(history), s)}}
           now == ModelManifest(RegistryAfter(history))
           then(n) == ProducedBy(RegistryAfter(SubSeq(history, 1, n)))
<1>1. \A n \in 0..Len(history) : \A s \in Stages :
         last(n, s) = IF Newest(history, n, s) = <<>> THEN {} ELSE {Newest(history, n, s)}
  <2> SUFFICES ASSUME NEW n \in 0..Len(history), NEW s \in Stages
               PROVE  last(n, s) = IF Newest(history, n, s) = <<>> THEN {} ELSE {Newest(history, n, s)}
    OBVIOUS
  <2> DEFINE of == {i \in 1..n : accepted(history[i]) /\ s \in history[i].plugin.protocols}
             by == {i \in 1..n : Accepted(history[i], s)}
  <2>1. of = by
    BY DEF Accepted
  <2>2. last(n, s) = IF of = {} THEN {} ELSE {<<history[Max(of)].plugin.name, history[Max(of)].plugin.version>>}
    OBVIOUS
  <2>3. Newest(history, n, s) = IF by = {} THEN <<>> ELSE <<history[Max(by)].plugin.name, history[Max(by)].plugin.version>>
    BY DEF Newest
  <2>4. \A a, b : <<a, b>> # <<>>
    OBVIOUS
  <2> HIDE DEF of, by, last
  <2> QED BY <2>1, <2>2, <2>3, <2>4
<1>2. \A s \in Stages : now[s] = Newest(history, Len(history), s)
  <2> SUFFICES ASSUME NEW s \in Stages PROVE now[s] = Newest(history, Len(history), s)
    OBVIOUS
  <2>1. StageStamp(RegistryAfter(history), s) = Newest(history, Len(history), s)
    BY StampIs
  <2> QED BY <2>1 DEF ModelManifest
<1>3. \A n \in 0..Len(history) : \A s \in Stages : then(n)[s] = Newest(history, n, s)
  <2> SUFFICES ASSUME NEW n \in 0..Len(history), NEW s \in Stages PROVE then(n)[s] = Newest(history, n, s)
    OBVIOUS
  <2>1. StageStamp(RegistryAfter(SubSeq(history, 1, n)), s) = Newest(history, n, s)
    BY StampThen
  <2> QED BY <2>1 DEF ProducedBy
<1>4. Len(history) \in 0..Len(history)
  OBVIOUS
<1> HIDE DEF last, now, then
<1>5. \A n \in 0..Len(history) : Plan(now, then(n)) = stale(n)
  <2> SUFFICES ASSUME NEW n \in 0..Len(history) PROVE Plan(now, then(n)) = stale(n)
    OBVIOUS
  <2>1. Plan(now, then(n)) = UNION {Matrix[s] : s \in {s \in Stages : now[s] # then(n)[s]}}
    BY PlanIs
  <2>2. \A s \in Stages : now[s] # then(n)[s] <=> last(n, s) # last(Len(history), s)
    <3> SUFFICES ASSUME NEW s \in Stages PROVE now[s] # then(n)[s] <=> last(n, s) # last(Len(history), s)
      OBVIOUS
    <3> DEFINE a == Newest(history, n, s)
               b == Newest(history, Len(history), s)
    <3>1. now[s] = b /\ then(n)[s] = a
      BY <1>2, <1>3
    <3>2. last(n, s) = (IF a = <<>> THEN {} ELSE {a}) /\ last(Len(history), s) = (IF b = <<>> THEN {} ELSE {b})
      BY <1>1, <1>4
    <3> HIDE DEF a, b
    <3>3. (IF a = <<>> THEN {} ELSE {a}) # (IF b = <<>> THEN {} ELSE {b}) <=> b # a
      OBVIOUS
    <3> QED BY <3>1, <3>2, <3>3
  <2>3. {s \in Stages : now[s] # then(n)[s]} = {s \in Stages : last(n, s) # last(Len(history), s)}
    BY <2>2
  <2> QED BY <2>1, <2>3
<1>6. PlanAll(now, {then(n) : n \in 0..Len(history)}) = UNION {stale(n) : n \in 0..Len(history)}
  <2>1. PlanAll(now, {then(n) : n \in 0..Len(history)}) = UNION {Plan(now, then(n)) : n \in 0..Len(history)}
    BY DEF PlanAll
  <2> HIDE DEF stale
  <2> QED BY <2>1, <1>5
<1> QED
  BY <1>5, <1>6, Zenon DEF RebuildsMinimum, last, now, then

-----------------------------------------------------------------------------
(* The settings that a client is built from *)

Settings(Keys, Values) == [path : Seq(Keys), value : Values]

\* Two settings at most are the same one, none is a section of another.
Tree(tree) == \A s, t \in tree : Through(s.path, t.path) => s = t

\* The settings of an environment that no later one goes through.
Latest(env) ==
    {env[i] : i \in {i \in DOMAIN env : \A j \in (i + 1)..Len(env) : ~Through(env[i].path, env[j].path)}}

\* Going through is mutual, and a path goes through itself.
LEMMA ThroughIs ==
    /\ \A p, q : Through(p, q) <=> Through(q, p)
    /\ \A Keys : \A p \in Seq(Keys) : Through(p, p)
<1>1. ASSUME NEW Keys, NEW p \in Seq(Keys) PROVE Through(p, p)
  BY DEF Through, IsPrefix
<1> QED
  BY <1>1 DEF Through

TreeOf(tree, env) ==
    /\ EnvToNested(env) = tree[Len(env)]
    /\ tree[0] = {}
    /\ \A i \in 1..Len(env) : tree[i] = DeepMerge(tree[i - 1], {env[i]})

\* What EnvToNested computes, one variable after the other.
LEMMA EnvUnfolds ==
    ASSUME NEW S, NEW env \in Seq(S)
    PROVE  \E tree : TreeOf(tree, env)
<1> DEFINE n == Len(env)
           V == SUBSET S
           G == [i \in 1..n |-> [x \in V |-> DeepMerge(x, {env[i]})]]
           K(g) == [i \in 0..n |-> IF i = 0 THEN {} ELSE DeepMerge(g[i - 1], {env[i]})]
           tree == CHOOSE g : g = K(g)
<1>0. n \in Nat /\ \A i \in 1..n : env[i] \in S
  OBVIOUS
<1>7. EnvToNested(env) = tree[n]
  BY DEF EnvToNested
<1> HIDE DEF n
<1>1. \A i \in 1..n : \A x \in V : DeepMerge(x, {env[i]}) \in V
  BY <1>0 DEF DeepMerge
<1>2. G \in [1..n -> [V -> V]]
  <2> HIDE DEF V
  <2> QED BY <1>1
<1>3. PICK f : Recurs(f, n, V, {}, G)
  <2>1. {} \in V OBVIOUS
  <2> HIDE DEF V, G
  <2> QED BY <1>0, <1>2, <2>1, SeqRecursion
<1>4. f \in [0..n -> V] /\ f[0] = {} /\ \A i \in 1..n : f[i] = G[i][f[i - 1]]
  BY <1>3 DEF Recurs
<1>5. f = K(f)
  <2>1. \A i \in 0..n : f[i] = K(f)[i]
    <3> SUFFICES ASSUME NEW i \in 0..n PROVE f[i] = K(f)[i]
      OBVIOUS
    <3> HIDE DEF V
    <3>1. CASE i = 0 BY <3>1, <1>4, <1>0
    <3>2. CASE i # 0
      <4>1. i \in 1..n /\ i - 1 \in 0..n BY <3>2, <1>0
      <4>2. f[i] = G[i][f[i - 1]] /\ f[i - 1] \in V BY <4>1, <1>4
      <4> QED BY <4>1, <4>2, <3>2
    <3> QED BY <3>1, <3>2
  <2>2. f = [i \in 0..n |-> f[i]]
    BY <1>4
  <2> QED BY <2>1, <2>2
<1>6. tree = K(tree)
  BY <1>5
<1> HIDE DEF tree
<1>8. tree[0] = {}
  <2>1. 0 \in 0..n /\ K(tree)[0] = {}
    BY <1>0
  <2> HIDE DEF K
  <2> QED BY <2>1, <1>6
<1>9. ASSUME NEW i \in 1..n PROVE tree[i] = DeepMerge(tree[i - 1], {env[i]})
  <2>1. i \in 0..n /\ i # 0
    BY <1>0
  <2>2. K(tree)[i] = DeepMerge(tree[i - 1], {env[i]})
    BY <2>1
  <2> HIDE DEF K
  <2> QED BY <1>6, <2>2
<1> QED
  BY <1>7, <1>8, <1>9 DEF TreeOf, n

\* An environment says what its last variables say.
LEMMA EnvIs ==
    ASSUME NEW S, NEW env \in Seq(S)
    PROVE  EnvToNested(env) = Latest(env)
<1> DEFINE n == Len(env)
           Upto(i) == {env[k] : k \in {k \in 1..i : \A j \in (k + 1)..i : ~Through(env[k].path, env[j].path)}}
<1>1. PICK tree : TreeOf(tree, env)
  BY EnvUnfolds
<1>2. EnvToNested(env) = tree[n] /\ tree[0] = {} /\ \A i \in 1..n : tree[i] = DeepMerge(tree[i - 1], {env[i]})
  BY <1>1 DEF TreeOf
<1>3. n \in Nat /\ DOMAIN env = 1..n
  OBVIOUS
<1>4. Latest(env) = Upto(n)
  BY <1>3 DEF Latest
<1> HIDE DEF n
<1> DEFINE T == {i \in Nat : i <= n => tree[i] = Upto(i)}
<1>5. 0 \in T
  BY <1>2
<1>6. ASSUME NEW i \in Nat, i \in T PROVE i + 1 \in T
  <2> SUFFICES ASSUME i + 1 <= n PROVE tree[i + 1] = Upto(i + 1)
    OBVIOUS
  <2> DEFINE e == env[i + 1]
  <2>1. tree[i] = Upto(i) /\ i + 1 \in 1..n /\ (i + 1) - 1 = i
    BY <1>6, <1>3
  <2>2. tree[i + 1] = DeepMerge(tree[i], {e})
    BY <2>1, <1>2
  <2>3. tree[i + 1] = {s \in Upto(i) : ~Through(s.path, e.path)} \cup {e}
    BY <2>1, <2>2 DEF DeepMerge
  <2>4. \A k \in 1..i : (k + 1)..(i + 1) = (k + 1)..i \cup {i + 1}
    BY <1>6
  <2>5. 1..(i + 1) = 1..i \cup {i + 1} /\ ((i + 1) + 1)..(i + 1) = {}
    BY <1>6
  <2>6. ASSUME NEW s, s \in Upto(i + 1) PROVE s \in tree[i + 1]
    <3>1. PICK k \in 1..(i + 1) : s = env[k] /\ \A j \in (k + 1)..(i + 1) : ~Through(env[k].path, env[j].path)
      BY <2>6
    <3>2. CASE k = i + 1
      BY <3>1, <3>2, <2>3
    <3>3. CASE k \in 1..i
      <4>1. ~Through(env[k].path, e.path) /\ \A j \in (k + 1)..i : ~Through(env[k].path, env[j].path)
        BY <3>1, <3>3, <2>4
      <4>2. s \in Upto(i)
        BY <3>1, <3>3, <4>1
      <4> QED BY <3>1, <4>1, <4>2, <2>3
    <3> QED BY <3>2, <3>3, <2>5
  <2>7. ASSUME NEW s, s \in tree[i + 1] PROVE s \in Upto(i + 1)
    <3>1. CASE s = e
      BY <3>1, <2>5
    <3>2. CASE s \in Upto(i) /\ ~Through(s.path, e.path)
      <4>1. PICK k \in 1..i : s = env[k] /\ \A j \in (k + 1)..i : ~Through(env[k].path, env[j].path)
        BY <3>2
      <4>2. \A j \in (k + 1)..(i + 1) : ~Through(env[k].path, env[j].path)
        BY <4>1, <3>2, <2>4
      <4>3. k \in 1..(i + 1)
        BY <2>5
      <4> QED BY <4>1, <4>2, <4>3
    <3> QED BY <3>1, <3>2, <2>7, <2>3
  <2> QED BY <2>6, <2>7
<1> HIDE DEF T
<1>7. \A i \in Nat : i \in T
  BY <1>5, <1>6, Induct
<1> QED
  BY <1>2, <1>3, <1>4, <1>7 DEF T

\* The last of three layers that goes through p, or the first.
Top(A, B, C, p) ==
    IF \E c \in C : Through(c.path, p) THEN C ELSE IF \E b \in B : Through(b.path, p) THEN B ELSE A

\* What is merged at a path is what the last layer that goes through it has there.
LEMMA TopIs ==
    ASSUME NEW Keys, NEW Values, NEW A \in SUBSET Settings(Keys, Values), NEW B \in SUBSET Settings(Keys, Values),
           NEW C \in SUBSET Settings(Keys, Values), NEW p
    PROVE  {s \in DeepMerge(DeepMerge(A, B), C) : s.path = p}
              = {s \in Top(A, B, C, p) : s.path = p}
<1> DEFINE T == DeepMerge(DeepMerge(A, B), C)
<1>1. \A q, r : Through(q, r) <=> Through(r, q)
  BY ThroughIs
<1>2. \A s \in A \cup B \cup C : Through(s.path, s.path)
  <2>1. \A s \in A \cup B \cup C : s.path \in Seq(Keys)
    BY DEF Settings
  <2> QED BY <2>1, ThroughIs
<1>3. T = {s \in {s \in A : \A o \in B : ~Through(s.path, o.path)} \cup B : \A o \in C : ~Through(s.path, o.path)} \cup C
  BY DEF DeepMerge
<1> HIDE DEF T, Top
<1>4. CASE \E c \in C : Through(c.path, p)
  BY <1>1, <1>3, <1>4 DEF T, Top
<1>5. CASE ~(\E c \in C : Through(c.path, p)) /\ \E b \in B : Through(b.path, p)
  BY <1>1, <1>2, <1>3, <1>5 DEF T, Top
<1>6. CASE ~(\E c \in C : Through(c.path, p)) /\ ~(\E b \in B : Through(b.path, p))
  BY <1>1, <1>2, <1>3, <1>6 DEF T, Top
<1> QED
  BY <1>4, <1>5, <1>6

\* The last settings of an environment are a tree.
LEMMA LatestIsTree ==
    ASSUME NEW Keys, NEW Values, NEW env \in Seq(Settings(Keys, Values))
    PROVE  Tree(Latest(env)) /\ Latest(env) \in SUBSET Settings(Keys, Values)
<1>1. \A q, r : Through(q, r) <=> Through(r, q)
  BY ThroughIs
<1>2. DOMAIN env = 1..Len(env) /\ Len(env) \in Nat /\ \A i \in 1..Len(env) : env[i] \in Settings(Keys, Values)
  OBVIOUS
<1>3. ASSUME NEW s \in Latest(env), NEW t \in Latest(env), Through(s.path, t.path) PROVE s = t
  <2>1. PICK i \in 1..Len(env) : s = env[i] /\ \A j \in (i + 1)..Len(env) : ~Through(env[i].path, env[j].path)
    BY <1>2 DEF Latest
  <2>2. PICK k \in 1..Len(env) : t = env[k] /\ \A j \in (k + 1)..Len(env) : ~Through(env[k].path, env[j].path)
    BY <1>2 DEF Latest
  <2>3. CASE i < k
    <3>1. k \in (i + 1)..Len(env)
      BY <2>3
    <3> QED BY <3>1, <2>1, <2>2, <1>3
  <2>4. CASE k < i
    <3>1. i \in (k + 1)..Len(env)
      BY <2>4
    <3> QED BY <3>1, <2>1, <2>2, <1>1, <1>3
  <2>5. i < k \/ k < i \/ i = k
    OBVIOUS
  <2> QED BY <2>1, <2>2, <2>3, <2>4, <2>5
<1> QED
  BY <1>2, <1>3 DEF Tree, Latest

\* Among three layers, the last that goes through a path.
LEMMA LastOfThree ==
    ASSUME NEW A, NEW B, NEW C, NEW p
    PROVE  LET said == <<A, B, C>>
               on == {i \in DOMAIN said : \E s \in said[i] : Through(s.path, p)}
           IN  /\ on = {} <=> \A s \in A \cup B \cup C : ~Through(s.path, p)
               /\ on # {} => said[Max(on)] = Top(A, B, C, p)
<1> DEFINE said == <<A, B, C>>
           on == {i \in DOMAIN said : \E s \in said[i] : Through(s.path, p)}
<1>1. DOMAIN said = 1..3 /\ said[1] = A /\ said[2] = B /\ said[3] = C /\ 1..3 = {1, 2, 3}
  OBVIOUS
<1> HIDE DEF said
<1>2. /\ 1 \in on <=> \E s \in A : Through(s.path, p)
      /\ 2 \in on <=> \E s \in B : Through(s.path, p)
      /\ 3 \in on <=> \E s \in C : Through(s.path, p)
      /\ on \in SUBSET (1..3)
  BY <1>1
<1> HIDE DEF on
<1>3. on = {} <=> \A s \in A \cup B \cup C : ~Through(s.path, p)
  BY <1>1, <1>2
<1>4. on # {} => Max(on) \in on /\ \A x \in on : Max(on) >= x
  BY <1>2, MaxIs
<1>5. on # {} => said[Max(on)] = Top(A, B, C, p)
  <2> DEFINE m == Max(on)
  <2> HIDE DEF m
  <2> SUFFICES ASSUME on # {}
               PROVE said[m] = Top(A, B, C, p)
    BY DEF m
  <2>1. m \in {1, 2, 3} /\ m \in on /\ \A x \in on : m >= x
    BY <1>1, <1>2, <1>4 DEF m
  <2>2. CASE m = 3 BY <1>1, <1>2, <2>1, <2>2 DEF Top
  <2>3. CASE m = 2 BY <1>1, <1>2, <2>1, <2>3 DEF Top
  <2>4. CASE m = 1 BY <1>1, <1>2, <2>1, <2>4 DEF Top
  <2> QED BY <2>1, <2>2, <2>3, <2>4
<1> QED
  BY <1>3, <1>5 DEF on, said

\* Whatever is set in a file, in the overrides and by the environment: the last layer that
\* says anything on a path, or on a section through it, has the word (config/loader.py).
THEOREM LastWordIsKept ==
    ASSUME NEW Keys, NEW Values, NEW A \in SUBSET Settings(Keys, Values), NEW B \in SUBSET Settings(Keys, Values),
           Tree(A), Tree(B), NEW env \in Seq(Settings(Keys, Values))
    PROVE  LastWordCounts(A, B, env)
<1> DEFINE C == Latest(env)
           said == <<A, B, C>>
           cfg == LoadConfig(A, B, env)
           on(p) == {i \in DOMAIN said : \E s \in said[i] : Through(s.path, p)}
           word(p) == IF on(p) = {} THEN {} ELSE {s.value : s \in {s \in said[Max(on(p))] : s.path = p}}
           T == DeepMerge(DeepMerge(A, B), C)
           W(p) == Top(A, B, C, p)
           at(p) == {s \in T : s.path = p}
<1>1. C \in SUBSET Settings(Keys, Values) /\ Tree(C)
  BY LatestIsTree
<1>2. cfg = ModelValidate(T)
  BY EnvIs DEF LoadConfig, Merged
<1>3. ASSUME cfg # <<>>, NEW p \in DOMAIN Schema
      PROVE  {cfg[p]} = IF word(p) = {} THEN {Defaults[p]} ELSE word(p)
  <2>1. cfg[p] = IF \E s \in T : s.path = p THEN (CHOOSE s \in T : s.path = p).value ELSE Defaults[p]
    <3> HIDE DEF T
    <3> QED BY <1>2, <1>3 DEF ModelValidate
  <2>2. at(p) = {s \in W(p) : s.path = p}
    <3> HIDE DEF C
    <3> QED BY <1>1, TopIs
  <2>3. /\ on(p) = {} <=> \A s \in A \cup B \cup C : ~Through(s.path, p)
        /\ on(p) # {} => said[Max(on(p))] = W(p)
    <3> HIDE DEF C
    <3> QED BY LastOfThree
  <2>4. \A s \in A \cup B \cup C : Through(s.path, s.path)
    <3>1. \A s \in A \cup B \cup C : s.path \in Seq(Keys)
      BY <1>1 DEF Settings
    <3> QED BY <3>1, ThroughIs
  <2>5. W(p) \subseteq A \cup B \cup C /\ Tree(W(p))
    BY <1>1 DEF Top
  <2> HIDE DEF T, C, W, on, said, cfg
  <2>6. word(p) = {s.value : s \in at(p)}
    <3>1. CASE on(p) = {}
      <4>1. at(p) = {}
        BY <2>2, <2>3, <2>4, <2>5, <3>1
      <4> QED BY <4>1, <3>1
    <3>2. CASE on(p) # {}
      BY <2>2, <2>3, <3>2
    <3> QED BY <3>1, <3>2
  <2>7. \A s, t \in at(p) : s = t
    BY <2>2, <2>4, <2>5 DEF Tree
  <2>8. CASE at(p) = {}
    <3>1. cfg[p] = Defaults[p]
      BY <2>1, <2>8
    <3> QED BY <2>6, <2>8, <3>1
  <2>9. CASE at(p) # {}
    <3>1. PICK s : s \in at(p)
      BY <2>9
    <3>2. s \in T /\ s.path = p
      BY <3>1
    <3>3. (CHOOSE t \in T : t.path = p) \in at(p)
      BY <3>2
    <3>4. at(p) = {s} /\ (CHOOSE t \in T : t.path = p) = s
      BY <2>7, <3>1, <3>3
    <3>5. cfg[p] = s.value
      BY <2>1, <3>2, <3>4
    <3> HIDE DEF at
    <3> QED BY <2>6, <3>4, <3>5
  <2> QED BY <2>8, <2>9
<1> QED
  BY <1>3, Zenon DEF LastWordCounts, Latest

-----------------------------------------------------------------------------
(* What is written of settings, plugins, pages and files is as it should be *)

\* In every configuration that is accepted, a floor keeps out each tier before it and
\* each that is not named (config/loader.py, domain/authority.py).
THEOREM FloorsHoldAlways ==
    ASSUME NEW tree, NEW cfg, cfg = ModelValidate(tree), cfg # <<>>, Client(cfg) # <<>>, NEW tiers
    PROVE  FloorHolds(Client(cfg).authority, tiers)
<1> DEFINE policy == Client(cfg).authority
<1>1. policy = AuthorityPolicy(cfg)
  BY ClientReadsAndWrites
<1>2. Meaning[cfg[TierOrder]] \in Seq(STRING) /\ "none" \notin ToSet(Meaning[cfg[TierOrder]])
  <2>1. /\ \A s \in tree : /\ s.path \in DOMAIN Schema /\ s.value \in DOMAIN ReadsAs
                           /\ Schema[s.path] \in ReadsAs[s.value]
        /\ cfg = [p \in DOMAIN Schema |-> IF \E s \in tree : s.path = p
                                          THEN (CHOOSE s \in tree : s.path = p).value ELSE Defaults[p]]
    BY DEF ModelValidate
  <2>2. TierOrder \in DOMAIN Schema
    BY TierAssumption
  <2>3. cfg[TierOrder] = IF \E s \in tree : s.path = TierOrder
                         THEN (CHOOSE s \in tree : s.path = TierOrder).value ELSE Defaults[TierOrder]
    BY <2>1, <2>2
  <2>4. CASE \E s \in tree : s.path = TierOrder
    <3>1. PICK s \in tree : s.path = TierOrder /\ cfg[TierOrder] = s.value
      BY <2>3, <2>4
    <3>2. s.value \in DOMAIN ReadsAs /\ Schema[TierOrder] \in ReadsAs[s.value]
      BY <2>1, <3>1
    <3> QED BY <3>1, <3>2, TierAssumption
  <2>5. CASE ~\E s \in tree : s.path = TierOrder
    BY <2>3, <2>5, TierAssumption
  <2> QED BY <2>4, <2>5
<1>3. policy.order \in Seq(STRING) /\ "none" \notin ToSet(policy.order)
  <2>1. policy.order = <<>> \/ policy.order = Meaning[cfg[TierOrder]]
    BY <1>1 DEF AuthorityPolicy
  <2>2. <<>> \in Seq(STRING) /\ "none" \notin ToSet(<<>>)
    BY DEF ToSet
  <2> QED BY <1>2, <2>1, <2>2
<1> QED
  BY <1>3, FloorsHold

-----------------------------------------------------------------------------

\* What is written so far: elements of the kind, layer by layer where it is settings.
WrittenInv ==
    /\ kind \in DOMAIN Pieces \cup {"calls"}
    /\ kind # "calls" => source \in Seq(Pieces[kind])
    /\ kind = "setup" => Layered(source)

\* At the beginning nothing is written.
LEMMA WrittenStart == Begin => WrittenInv
<1> SUFFICES ASSUME Begin PROVE WrittenInv
  OBVIOUS
<1>1. source = <<>> /\ kind \in DOMAIN Pieces \cup {"calls"}
  BY DEF Begin
<1>2. Layered(source)
  BY <1>1 DEF Layered
<1> QED
  BY <1>1, <1>2 DEF WrittenInv

\* Whatever is written next.
LEMMA WrittenStep == WrittenInv /\ [WriteElement \/ Call]_<<kind, source, calls>> => WrittenInv'
<1> SUFFICES ASSUME WrittenInv, [WriteElement \/ Call]_<<kind, source, calls>> PROVE WrittenInv'
  OBVIOUS
<1>1. CASE WriteElement
  <2>1. PICK e \in Pieces[kind] : /\ kind = "setup" => Layered(Append(source, e))
                                  /\ source' = Append(source, e)
    BY <1>1 DEF WriteElement
  <2>2. kind' = kind /\ kind # "calls"
    BY <1>1 DEF WriteElement
  <2>3. source \in Seq(Pieces[kind])
    BY <2>2 DEF WrittenInv
  <2> DEFINE after == Append(source, e)
  <2>4. after \in Seq(Pieces[kind])
    BY <2>3
  <2>5. source' = after /\ (kind = "setup" => Layered(after))
    BY <2>1
  <2> HIDE DEF after
  <2>6. kind = "setup" => Layered(source')
    BY <2>5
  <2>7. Layered(source') => Layered(source)'
    BY DEF Layered
  <2> QED BY <2>2, <2>4, <2>5, <2>6, <2>7 DEF WrittenInv
<1>2. CASE UNCHANGED <<kind, source>>
  BY <1>2 DEF WrittenInv, Layered
<1> QED
  BY <1>1, <1>2 DEF Call

\* A layer's settings are settings.
LEMMA SaysAre ==
    ASSUME NEW Keys, NEW Values, NEW layer, NEW settings \in SUBSET (Seq(Keys) \X Values)
    PROVE  \A e \in Says(layer, settings) : e.layer = layer /\ e.setting \in Settings(Keys, Values)
<1> SUFFICES ASSUME NEW e \in Says(layer, settings)
             PROVE  e.layer = layer /\ e.setting \in Settings(Keys, Values)
  OBVIOUS
<1>1. PICK s \in settings : e = [layer |-> layer, setting |-> Setting(s[1], s[2])]
  BY DEF Says
<1>2. s[1] \in Seq(Keys) /\ s[2] \in Values
  OBVIOUS
<1>3. Setting(s[1], s[2]) \in Settings(Keys, Values)
  BY <1>2 DEF Setting, Settings
<1> QED
  BY <1>1, <1>3

\* Of two strings, and of one, there is a path.
LEMMA PathIs ==
    ASSUME NEW S, NEW a \in S, NEW b \in S
    PROVE  <<a, b>> \in Seq(S) /\ <<a>> \in Seq(S)
  OBVIOUS

\* The words of the paths that are written, and what is written on them.
SettingKeys ==
    {"storage", "bucket", "endpoint_url", "signals", "embedding", "endpoint", "llm", "authority", "tier_order",
     "minimum_tier", "profile", "vision", "max_tokens", "graph", "max_hops", "nowhere", "vector_store", "backend", "uri"}

SettingValues ==
    {"dir", "s3", "http", "signals:text", "signals:graph,text", "signals:community,embedding",
     "signals:graph", "openai", "tiers:blog,statute", "statute", "text", "anthropic", "ordered.v1",
     "blog", "0", "postgres"}

\* What is written of settings are settings.
LEMMA SetupIs == \A e \in Pieces["setup"] : e.setting \in Settings(SettingKeys, SettingValues)
<1>1. Pieces["setup"] = Says("source", InSource) \cup Says("overrides", InOverrides) \cup Says("env", InEnv)
  BY DEF Pieces
<1> DEFINE X == Seq(SettingKeys)
           P == Seq(SettingKeys) \X SettingValues
<1>2. \A a, b \in SettingKeys : <<a, b>> \in X /\ <<a>> \in X
  BY PathIs
<1>3. \A p \in X, v \in SettingValues : <<p, v>> \in P
  OBVIOUS
<1> HIDE DEF X, P
<1>4. /\ <<"storage", "bucket">> \in X /\ <<"storage", "endpoint_url">> \in X /\ <<"signals">> \in X
      /\ <<"embedding", "endpoint">> \in X /\ <<"llm", "endpoint">> \in X
  <2>1. "bucket" \in SettingKeys /\ "embedding" \in SettingKeys /\ "endpoint" \in SettingKeys /\ "endpoint_url" \in SettingKeys /\ "llm" \in SettingKeys /\ "signals" \in SettingKeys /\ "storage" \in SettingKeys
    BY DEF SettingKeys
  <2> QED BY <2>1, <1>2
<1>5. /\ <<"authority", "tier_order">> \in X /\ <<"authority", "minimum_tier">> \in X /\ <<"llm">> \in X
      /\ <<"authority", "profile">> \in X /\ <<"vision", "endpoint">> \in X
  <2>1. "authority" \in SettingKeys /\ "endpoint" \in SettingKeys /\ "llm" \in SettingKeys /\ "minimum_tier" \in SettingKeys /\ "profile" \in SettingKeys /\ "tier_order" \in SettingKeys /\ "vision" \in SettingKeys
    BY DEF SettingKeys
  <2> QED BY <2>1, <1>2
<1>6. /\ <<"llm", "max_tokens">> \in X /\ <<"graph", "max_hops">> \in X /\ <<"nowhere">> \in X
      /\ <<"vector_store", "backend">> \in X /\ <<"vector_store", "uri">> \in X
  <2>1. "backend" \in SettingKeys /\ "graph" \in SettingKeys /\ "llm" \in SettingKeys /\ "max_hops" \in SettingKeys /\ "max_tokens" \in SettingKeys /\ "nowhere" \in SettingKeys /\ "uri" \in SettingKeys /\ "vector_store" \in SettingKeys
    BY DEF SettingKeys
  <2> QED BY <2>1, <1>2
<1>7. /\ "s3" \in SettingValues
      /\ "http" \in SettingValues
      /\ "signals:text" \in SettingValues
      /\ "signals:graph,text" \in SettingValues
      /\ "signals:community,embedding" \in SettingValues
      /\ "signals:graph" \in SettingValues
      /\ "openai" \in SettingValues
      /\ "tiers:blog,statute" \in SettingValues
      /\ "statute" \in SettingValues
      /\ "text" \in SettingValues
      /\ "anthropic" \in SettingValues
      /\ "ordered.v1" \in SettingValues
      /\ "blog" \in SettingValues
      /\ "0" \in SettingValues
      /\ "postgres" \in SettingValues
  BY DEF SettingValues
<1>8. InSource \subseteq P
  <2>1. /\ <<<<"storage", "bucket">>, "s3">> \in P
        /\ <<<<"storage", "endpoint_url">>, "http">> \in P
        /\ <<<<"signals">>, "signals:text">> \in P
        /\ <<<<"signals">>, "signals:graph,text">> \in P
        /\ <<<<"signals">>, "signals:community,embedding">> \in P
        /\ <<<<"signals">>, "signals:graph">> \in P
        /\ <<<<"embedding", "endpoint">>, "openai">> \in P
        /\ <<<<"llm", "endpoint">>, "openai">> \in P
        /\ <<<<"authority", "tier_order">>, "tiers:blog,statute">> \in P
        /\ <<<<"authority", "minimum_tier">>, "statute">> \in P
    BY <1>3, <1>4, <1>5, <1>6, <1>7
  <2> QED BY <2>1 DEF InSource
<1>9. InOverrides \subseteq P
  <2>1. /\ <<<<"llm">>, "text">> \in P
        /\ <<<<"llm", "endpoint">>, "anthropic">> \in P
        /\ <<<<"authority", "profile">>, "ordered.v1">> \in P
        /\ <<<<"vision", "endpoint">>, "openai">> \in P
        /\ <<<<"authority", "minimum_tier">>, "blog">> \in P
    BY <1>3, <1>4, <1>5, <1>6, <1>7
  <2> QED BY <2>1 DEF InOverrides
<1>10. InEnv \subseteq P
  <2>1. /\ <<<<"llm">>, "text">> \in P
        /\ <<<<"llm", "max_tokens">>, "0">> \in P
        /\ <<<<"graph", "max_hops">>, "text">> \in P
        /\ <<<<"graph", "max_hops">>, "0">> \in P
        /\ <<<<"signals">>, "text">> \in P
        /\ <<<<"nowhere">>, "text">> \in P
        /\ <<<<"authority", "profile">>, "ordered.v1">> \in P
        /\ <<<<"authority", "profile">>, "text">> \in P
        /\ <<<<"vector_store", "backend">>, "postgres">> \in P
        /\ <<<<"vector_store", "uri">>, "text">> \in P
    BY <1>3, <1>4, <1>5, <1>6, <1>7
  <2> QED BY <2>1 DEF InEnv
<1> QED
  BY <1>1, <1>8, <1>9, <1>10, SaysAre DEF P

\* What is written of plugins are calls.
LEMMA PluginsAre == Pieces["plugins"] \subseteq Calls({"p", "", "3"}, {"", "1", "2", "3"})
<1>1. Pieces["plugins"] = PluginCalls
  BY DEF Pieces
<1>2. /\ {"chunker"} \in SUBSET Protocols /\ {"vision"} \in SUBSET Protocols /\ {"embedding"} \in SUBSET Protocols
      /\ {"retriever"} \in SUBSET Protocols /\ {"retriever", "chunker"} \in SUBSET Protocols /\ {} \in SUBSET Protocols
      /\ {"extractor"} \in SUBSET Protocols /\ {"graph_extractor"} \in SUBSET Protocols
      /\ {"reranker"} \in SUBSET Protocols
  BY DEF Protocols, SingleSlots
<1> QED BY <1>1, <1>2 DEF PluginCalls, Offers, Calls

\* What is written of pages are links.
LEMMA WebIs == Pieces["web"] \subseteq Edges({"home", "a", "b", "c", "gone", "off"})
  BY DEF Pieces, Edges

\* What is written of a folder are its files.
LEMMA TreeIs == Pieces["tree"] \subseteq Sourced({<<"a">>, <<"src", "a">>, <<"src", "vendor", "b">>, <<"vendor">>})
<1> DEFINE P == {<<"a">>, <<"src", "a">>, <<"src", "vendor", "b">>, <<"vendor">>}
<1>1. Pieces["tree"] = {f \in [parts : P, code : BOOLEAN, raises : Raises] : f.code \/ f.raises = "never"}
  BY DEF Pieces
<1> HIDE DEF P
<1>2. Pieces["tree"] \subseteq Sourced(P)
  BY <1>1 DEF Sourced
<1> QED BY <1>2 DEF P

\* Paths exclude each other both ways.
LEMMA ThroughBack == \A p, q : Through(p, q) => Through(q, p)
  BY DEF Through

\* What is written of a layer is a tree, the environment's aside.
LEMMA LayerIsTree ==
    ASSUME WrittenInv, kind = "setup", NEW name, name # "env"
    PROVE  Layer(name) \in SUBSET Settings(SettingKeys, SettingValues) /\ Tree(Layer(name))
<1>1. source \in Seq(Pieces["setup"]) /\ Layered(source)
  BY DEF WrittenInv, Pieces
<1>2. \A i \in DOMAIN source : source[i].setting \in Settings(SettingKeys, SettingValues)
  BY <1>1, SetupIs
<1>3. Layer(name) \in SUBSET Settings(SettingKeys, SettingValues)
  BY <1>2 DEF Layer
<1>4. ASSUME NEW s \in Layer(name), NEW t \in Layer(name), Through(s.path, t.path) PROVE s = t
  <2>1. PICK i \in DOMAIN source : source[i].layer = name /\ s = source[i].setting
    BY DEF Layer
  <2>2. PICK j \in DOMAIN source : source[j].layer = name /\ t = source[j].setting
    BY DEF Layer
  <2>3. i \in Nat /\ j \in Nat
    BY <1>1
  <2>4. \A k, l \in DOMAIN source :
           k < l /\ source[k].layer = source[l].layer /\ source[k].layer # "env"
             => ~Through(source[k].setting.path, source[l].setting.path)
    BY <1>1 DEF Layered
  <2>5. ~(i < j)
    BY <2>1, <2>2, <2>4, <1>4
  <2>6. ~(j < i)
    BY <2>1, <2>2, <2>4, <1>4, ThroughBack
  <2> QED BY <2>1, <2>2, <2>3, <2>5, <2>6
<1> QED BY <1>3, <1>4 DEF Tree

\* Two trees merged are one.
LEMMA MergedIsTree ==
    ASSUME NEW A, NEW B, Tree(A), Tree(B)
    PROVE  Tree(DeepMerge(A, B))
<1> SUFFICES ASSUME NEW s \in DeepMerge(A, B), NEW t \in DeepMerge(A, B), Through(s.path, t.path) PROVE s = t
  BY DEF Tree
<1>1. \A x \in DeepMerge(A, B) : x \in B \/ (x \in A /\ \A o \in B : ~Through(x.path, o.path))
  BY DEF DeepMerge
<1> QED
  BY <1>1, ThroughBack DEF Tree

\* The file's settings.
LEMMA FileIsTree ==
    ASSUME WrittenInv, kind = "setup"
    PROVE  LET file == DeepMerge(Source, Layer("source"))
           IN  file \in SUBSET Settings(SettingKeys, SettingValues) /\ Tree(file)
<1>1. "storage" \in SettingKeys /\ "bucket" \in SettingKeys /\ "dir" \in SettingValues
  BY DEF SettingKeys, SettingValues
<1>2. <<"storage", "bucket">> \in Seq(SettingKeys)
  BY <1>1, PathIs
<1>3. Setting(<<"storage", "bucket">>, "dir") \in Settings(SettingKeys, SettingValues)
  BY <1>1, <1>2 DEF Setting, Settings
<1>4. Source \in SUBSET Settings(SettingKeys, SettingValues) /\ Tree(Source)
  BY <1>3 DEF Source, Tree
<1>5. Layer("source") \in SUBSET Settings(SettingKeys, SettingValues) /\ Tree(Layer("source"))
  BY LayerIsTree
<1>6. DeepMerge(Source, Layer("source")) \in SUBSET Settings(SettingKeys, SettingValues)
  BY <1>4, <1>5 DEF DeepMerge
<1> QED BY <1>4, <1>5, <1>6, MergedIsTree

\* The environment's settings.
LEMMA EnvironmentIs ==
    ASSUME WrittenInv, kind = "setup"
    PROVE  Environment \in Seq(Settings(SettingKeys, SettingValues))
<1> DEFINE env == Within(source, {e \in ToSet(source) : e.layer = "env"})
<1>1. source \in Seq(Pieces["setup"])
  BY DEF WrittenInv, Pieces
<1>2. env \in Seq(Pieces["setup"])
  BY <1>1, WithinIs
<1>3. Environment = [i \in DOMAIN env |-> env[i].setting]
  BY DEF Environment
<1> HIDE DEF env
<1>4. DOMAIN env = 1..Len(env) /\ Len(env) \in Nat /\ \A i \in DOMAIN env : env[i].setting \in Settings(SettingKeys, SettingValues)
  BY <1>2, SetupIs
<1> QED BY <1>3, <1>4

\* The settings are as they say.
LEMMA SettingsAsSaid ==
    ASSUME WrittenInv, kind = "setup", NEW file, file = DeepMerge(Source, Layer("source"))
    PROVE  /\ LastWordCounts(file, Layer("overrides"), Environment)
           /\ \A cfg \in {LoadConfig(file, Layer("overrides"), Environment)} :
                  cfg # <<>> => \A client \in {Client(cfg)} :
                      client # <<>> => LayersServed(client)
                                         /\ FloorHolds(client.authority, {"blog", "statute", "unheard"})
<1>1. file \in SUBSET Settings(SettingKeys, SettingValues) /\ Tree(file)
  BY FileIsTree
<1>2. Layer("overrides") \in SUBSET Settings(SettingKeys, SettingValues) /\ Tree(Layer("overrides"))
  BY LayerIsTree
<1>3. LastWordCounts(file, Layer("overrides"), Environment)
  BY <1>1, <1>2, EnvironmentIs, LastWordIsKept
<1>4. ASSUME NEW cfg, cfg = LoadConfig(file, Layer("overrides"), Environment), cfg # <<>>, Client(cfg) # <<>>
      PROVE  LayersServed(Client(cfg)) /\ FloorHolds(Client(cfg).authority, {"blog", "statute", "unheard"})
  <2>1. LayersServed(Client(cfg))
    BY <1>4, ClientsReadWhatTheyWrite
  <2>2. cfg = ModelValidate(Merged(file, Layer("overrides"), Environment))
    BY <1>4 DEF LoadConfig
  <2>3. FloorHolds(Client(cfg).authority, {"blog", "statute", "unheard"})
    BY <1>4, <2>2, FloorsHoldAlways
  <2> QED BY <2>1, <2>3
<1> QED BY <1>3, <1>4

\* A web is crawled as it should be.
LEMMA WebAsSaid ==
    ASSUME WrittenInv, kind = "web"
    PROVE  \A pages \in {1, 3, 9}, depth \in {1, 2, 3} : CrawlKept(source, "home", pages, depth)
<1> DEFINE P == {"home", "a", "b", "c", "gone", "off"}
<1>1. source \in Seq(Pieces["web"])
  BY DEF WrittenInv, Pieces
<1>2. source \in Seq(Edges(P)) /\ "home" \in P
  BY <1>1, WebIs
<1> HIDE DEF P
<1>3. {1, 3, 9} \subseteq Nat /\ {1, 2, 3} \subseteq Nat
  OBVIOUS
<1> QED BY <1>2, <1>3, CrawlsKeepTheirBounds

\* The paths of a folder, and that of a schema ingested before.
TreePaths == {<<"a">>, <<"src", "a">>, <<"src", "vendor", "b">>, <<"vendor">>, <<"b">>}

\* What is written of a folder, as a sequence.
LEMMA TreeWritten ==
    ASSUME WrittenInv, kind = "tree"
    PROVE  source \in Seq(Sourced(TreePaths))
<1> DEFINE P == Pieces["tree"]
<1>1. source \in Seq(P)
  BY DEF WrittenInv, Pieces
<1>2. P \subseteq Sourced(TreePaths)
  BY TreeIs DEF Sourced, TreePaths
<1> HIDE DEF P
<1> QED BY <1>1, <1>2

\* A folder of code is taken in.
LEMMA FolderAsSaid ==
    ASSUME WrittenInv, kind = "tree", NEW signals, NEW origin \in Origins, NEW rebuild \in Rebuilds
    PROVE  CodeWhole(signals, [what |-> origin[1], web |-> origin[2], token |-> origin[3],
                               rebuild |-> rebuild, tree |-> source])
<1> DEFINE W == {"folder", "git", "file"}
           K == {"none", "set", "unset"}
           taken == [what |-> origin[1], web |-> origin[2], token |-> origin[3], rebuild |-> rebuild, tree |-> source]
<1>1. source \in Seq(Sourced(TreePaths))
  BY TreeWritten
<1>2. origin[1] \in W /\ origin[2] \in BOOLEAN /\ origin[3] \in K
  <2>1. \E w \in W, b \in BOOLEAN, k \in K : origin = <<w, b, k>>
    BY DEF Origins
  <2> HIDE DEF W, K
  <2> QED BY <2>1
<1> HIDE DEF W, K
<1>3. taken \in Trees(TreePaths, W, K)
  BY <1>1, <1>2 DEF Trees
<1> HIDE DEF taken
<1>4. CodeWhole(signals, taken)
  BY <1>3, CodeIsTakenWhole
<1> QED BY <1>4 DEF taken

\* A schema is taken in.
LEMMA SchemaAsSaid ==
    ASSUME WrittenInv, kind = "tree", Len(source) = 1, NEW signals,
           NEW b \in [1..4 -> BOOLEAN], NEW rebuild \in Rebuilds, NEW graph \in {{}, {<<"b">>}}, NEW dirty \in BOOLEAN
    PROVE  SchemaWhole(signals, [suffix |-> "txt", namesOpenapi |-> FALSE, createsTable |-> b[1],
                                 opensObject |-> b[2], hasMarker |-> b[3], connection |-> b[4],
                                 rebuild |-> rebuild, file |-> source[1]],
                       Beside(graph, dirty))
<1> DEFINE origin == [suffix |-> "txt", namesOpenapi |-> FALSE, createsTable |-> b[1], opensObject |-> b[2],
                      hasMarker |-> b[3], connection |-> b[4], rebuild |-> rebuild, file |-> source[1]]
           corpus == Beside(graph, dirty)
<1>1. source[1] \in Sourced(TreePaths)
  BY TreeWritten
<1>2. origin \in Described(TreePaths, {"txt"})
  BY <1>1 DEF Described
<1>3. corpus \in Corpora(TreePaths) /\ Stored(corpus)
  BY DEF Corpora, Stored, TreePaths, Beside
<1> HIDE DEF origin, corpus
<1>4. SchemaWhole(signals, origin, corpus)
  BY <1>2, <1>3, SchemaIsTakenWhole
<1> QED BY <1>4 DEF origin, corpus

\* Scopes narrow what may be seen.
LEMMA ScopesAsSaid ==
    \A allowed \in {{}, {<<>>}, {<<<<"org", "x">>>>}, {<<<<"org", "x">>, <<"line", "y">>>>, <<<<"org", "y">>>>}} :
        ScopeNarrows(<<"org", "line", "product">>, Scopes, allowed)
<1> DEFINE V == {"x", "y"}
           hierarchy == <<"org", "line", "product">>
           E == Levels \X V
<1>1. hierarchy \in Seq(Levels) /\ \A i, j \in DOMAIN hierarchy : hierarchy[i] = hierarchy[j] => i = j
  BY DEF Levels
<1>2. <<"org", "x">> \in E /\ <<"org", "y">> \in E /\ <<"line", "y">> \in E
  BY DEF Levels
<1>3. Scopes = ScopesOf(Levels, V)
  BY DEF Scopes, ScopesOf
<1> HIDE DEF E
<1>4. <<>> \in Seq(E) /\ \A a, b \in E : <<a>> \in Seq(E) /\ <<a, b>> \in Seq(E)
  OBVIOUS
<1>5. {} \in SUBSET Seq(E) /\ {<<>>} \in SUBSET Seq(E) /\ {<<<<"org", "x">>>>} \in SUBSET Seq(E)
        /\ {<<<<"org", "x">>, <<"line", "y">>>>, <<<<"org", "y">>>>} \in SUBSET Seq(E)
  BY <1>2, <1>4
<1> HIDE DEF V, hierarchy
<1>6. \A allowed \in SUBSET Seq(E) : ScopeNarrows(hierarchy, Scopes, allowed)
  BY <1>1, <1>3, ScopesNarrow DEF E
<1> QED BY <1>5, <1>6 DEF hierarchy

\* What has been written is as it was said.
LEMMA WrittenIsAsSaid == WrittenInv => SetUpAsSaid
<1> SUFFICES ASSUME WrittenInv PROVE SetUpAsSaid
  OBVIOUS
<1>1. ASSUME kind = "setup" PROVE \A file \in {DeepMerge(Source, Layer("source"))} :
             /\ LastWordCounts(file, Layer("overrides"), Environment)
             /\ \A cfg \in {LoadConfig(file, Layer("overrides"), Environment)} :
                  cfg # <<>> => \A client \in {Client(cfg)} :
                      client # <<>> => LayersServed(client)
                                         /\ FloorHolds(client.authority, {"blog", "statute", "unheard"})
  BY <1>1, SettingsAsSaid
<1>2. ASSUME kind = "plugins" PROVE RebuildsMinimum(source)
  <2>1. source \in Seq(Pieces["plugins"])
    BY <1>2 DEF WrittenInv, Pieces
  <2> DEFINE N == {"p", "", "3"}
             V == {"", "1", "2", "3"}
  <2>2. Pieces["plugins"] \subseteq Calls(N, V)
    BY PluginsAre
  <2> HIDE DEF N, V
  <2> DEFINE P == Pieces["plugins"]
  <2>3. source \in Seq(Calls(N, V))
    <3>1. source \in Seq(P) /\ P \subseteq Calls(N, V)
      BY <2>1, <2>2
    <3> HIDE DEF P
    <3> QED BY <3>1
  <2> QED BY <2>3, RebuildsAreMinimal
<1> QED
  BY <1>1, <1>2, ScopesAsSaid DEF SetUpAsSaid

\* Whatever is written, in whichever order: a client is what its settings say.
THEOREM SetUpIsAsSaid == Reading => []SetUpAsSaid
<1>1. Begin => WrittenInv
  BY WrittenStart
<1>2. WrittenInv /\ [WriteElement \/ Call]_<<kind, source, calls>> => WrittenInv'
  BY WrittenStep
<1>3. WrittenInv => SetUpAsSaid
  BY WrittenIsAsSaid
<1> QED
  BY <1>1, <1>2, <1>3, PTL DEF Reading

\* Whatever is taken in many at a time, of pages, of code or of schemas, and wherever
\* it raises: bounds are kept, and what is not whole is marked or said to have raised.
THEOREM IntakeIsKept == Reading => []IntakeKept
<1>1. Begin => WrittenInv
  BY WrittenStart
<1>2. WrittenInv /\ [WriteElement \/ Call]_<<kind, source, calls>> => WrittenInv'
  BY WrittenStep
<1>3. WrittenInv => IntakeKept
  BY WebAsSaid, FolderAsSaid, SchemaAsSaid DEF IntakeKept
<1> QED
  BY <1>1, <1>2, <1>3, PTL DEF Reading

-----------------------------------------------------------------------------
(* The chunks of a text *)

\* What FlattenSeq computes, one sequence after the other.
LEMMA FlattenUnfolds ==
    ASSUME NEW X, NEW t \in Seq(Seq(X)), t # <<>>
    PROVE  \E f : /\ FlattenSeq(t) = f[Len(t)]
                  /\ f[1] = t[1]
                  /\ \A i \in 2..Len(t) : f[i] = f[i - 1] \o t[i]
<1> DEFINE n == Len(t)
           V == Seq(X)
           G == [i \in 1..n |-> [x \in V |-> IF i = 1 THEN t[i] ELSE x \o t[i]]]
           K(g) == [i \in 1..n |-> IF i = 1 THEN t[i] ELSE g[i - 1] \o t[i]]
           flat == CHOOSE g : g = K(g)
<1>0. n \in Nat \ {0} /\ \A i \in 1..n : t[i] \in V
  OBVIOUS
<1>1. G \in [1..n -> [V -> V]]
  <2>1. \A i \in 1..n, x \in V : x \o t[i] \in V
    BY <1>0
  <2> HIDE DEF V, n
  <2> QED BY <1>0, <2>1
<1>2. PICK f : Recurs(f, n, V, <<>>, G)
  <2>1. n \in Nat /\ <<>> \in V BY <1>0
  <2> HIDE DEF V, G, n
  <2> QED BY <1>1, <2>1, SeqRecursion
<1>3. f \in [0..n -> V] /\ \A i \in 1..n : f[i] = G[i][f[i - 1]]
  BY <1>2 DEF Recurs
<1> DEFINE h == [i \in 1..n |-> f[i]]
<1>4. h = K(h)
  <2>1. ASSUME NEW i \in 1..n PROVE h[i] = K(h)[i]
    <3>1. i - 1 \in 0..n /\ f[i - 1] \in V
      <4>1. i - 1 \in 0..n
        BY <1>0
      <4> HIDE DEF V, n
      <4> QED BY <4>1, <1>3
    <3>2. \A x \in V : G[i][x] = IF i = 1 THEN t[i] ELSE x \o t[i]
      OBVIOUS
    <3> HIDE DEF G, V, n
    <3>4. f[i] = G[i][f[i - 1]]
      BY <1>3
    <3>5. f[i] = IF i = 1 THEN t[i] ELSE f[i - 1] \o t[i]
      BY <3>1, <3>2, <3>4
    <3>3. i # 1 => h[i - 1] = f[i - 1]
      BY <1>0
    <3> QED BY <3>5, <3>3
  <2> QED BY <2>1
<1> HIDE DEF h
<1>5. flat = K(flat)
  BY <1>4
<1>6. FlattenSeq(t) = flat[n]
  BY <1>0 DEF FlattenSeq
<1> HIDE DEF flat
<1>7. \A i \in 1..n : flat[i] = IF i = 1 THEN t[i] ELSE flat[i - 1] \o t[i]
  <2>1. \A i \in 1..n : flat[i] = K(flat)[i]
    BY <1>5
  <2> QED BY <2>1
<1>8. flat[1] = t[1] /\ \A i \in 2..n : flat[i] = flat[i - 1] \o t[i]
  <2> HIDE DEF n
  <2>1. 1 \in 1..n /\ \A i \in 2..n : i \in 1..n /\ i # 1
    BY <1>0
  <2> QED BY <2>1, <1>7, Zenon
<1> QED
  BY <1>6, <1>8

-----------------------------------------------------------------------------

Increasing(s) == \A i, j \in DOMAIN s : i < j => s[i] < s[j]

\* Of the numbers in order, some are kept in order.
LEMMA WithinIncreasing ==
    ASSUME NEW n \in Nat, NEW S
    PROVE  LET all == [w \in 1..n |-> w]
           IN  Within(all, S) \in Seq(1..n) /\ Increasing(Within(all, S)) /\ Elements(Within(all, S)) = S \cap (1..n)
<1> DEFINE all == [w \in 1..n |-> w]
<1>1. all \in Seq(1..n) /\ Len(all) = n /\ Elements(all) = 1..n /\ \A w \in 1..n : all[w] = w
  BY DEF Elements
<1> HIDE DEF all
<1>2. Within(all, S) \in Seq(1..n) /\ Elements(Within(all, S)) = S \cap (1..n)
  BY <1>1, WithinIs
<1>3. PICK kept : /\ Within(all, S) = kept[Len(all)]
                  /\ kept[0] = <<>>
                  /\ \A i \in 1..Len(all) : kept[i] = IF all[i] \in S THEN Append(kept[i - 1], all[i])
                                                                     ELSE kept[i - 1]
  <2> DEFINE X == 1..n
  <2>1. all \in Seq(X)
    BY <1>1
  <2> HIDE DEF X
  <2> QED BY <2>1, WithinUnfolds
<1> DEFINE Good(i) == kept[i] \in Seq(1..i) /\ Increasing(kept[i])
           T == {i \in Nat : i <= n => Good(i)}
<1>4. 0 \in T
  <2>1. Good(0)
    BY <1>3 DEF Increasing
  <2> QED BY <2>1
<1>5. ASSUME NEW i \in Nat, i \in T PROVE i + 1 \in T
  <2> SUFFICES ASSUME i + 1 <= n PROVE Good(i + 1)
    OBVIOUS
  <2> DEFINE k == kept[i]
  <2>1. Good(i)
    BY <1>5
  <2>2. i + 1 \in 1..n /\ (i + 1) - 1 = i
    OBVIOUS
  <2>3. kept[i + 1] = IF i + 1 \in S THEN Append(k, i + 1) ELSE k
    BY <1>1, <1>3, <2>2
  <2>4. k \in Seq(1..i) /\ Increasing(k)
    BY <2>1
  <2> HIDE DEF k
  <2>5. k \in Seq(1..(i + 1)) /\ \A m \in DOMAIN k : k[m] < i + 1
    BY <2>4
  <2>6. Append(k, i + 1) \in Seq(1..(i + 1))
    BY <2>5
  <2>7. Increasing(Append(k, i + 1))
    <3> DEFINE t == Append(k, i + 1)
    <3>1. /\ Len(k) \in Nat /\ DOMAIN k = 1..Len(k) /\ DOMAIN t = 1..(Len(k) + 1)
          /\ \A m \in 1..Len(k) : t[m] = k[m]
          /\ t[Len(k) + 1] = i + 1
      BY <2>4
    <3> SUFFICES ASSUME NEW a \in DOMAIN t, NEW b \in DOMAIN t, a < b PROVE t[a] < t[b]
      BY DEF Increasing
    <3> HIDE DEF t
    <3>2. a \in 1..Len(k)
      BY <3>1
    <3>3. CASE b = Len(k) + 1
      BY <3>1, <3>2, <3>3, <2>5
    <3>4. CASE b # Len(k) + 1
      <4>1. b \in 1..Len(k)
        BY <3>1, <3>4
      <4> QED BY <3>1, <3>2, <4>1, <2>4 DEF Increasing
    <3> QED BY <3>3, <3>4
  <2> QED BY <2>3, <2>4, <2>5, <2>6, <2>7
<1> HIDE DEF T
<1>6. \A i \in Nat : i \in T
  BY <1>4, <1>5, Induct
<1>7. n \in T
  BY <1>6
<1>8. Good(n)
  BY <1>7 DEF T
<1> QED
  BY <1>1, <1>2, <1>3, <1>8 DEF all

Spans == Nat \X Nat

\* Pieces that lie next to each other, from one word to another.
Chained(s, a, b) ==
    /\ s \in Seq(Spans) /\ Len(s) >= 1
    /\ s[1][1] = a /\ s[Len(s)][2] = b
    /\ \A i \in 1..Len(s) : s[i][1] <= s[i][2]
    /\ \A i \in 1..(Len(s) - 1) : s[i + 1][1] = s[i][2] + 1

\* The words around a gap that no wider gap parts are too many for one piece.
Parted(gaps, maxTokens, cut) ==
    LET joined == {g \in DOMAIN gaps : \A h \in Min({g, cut})..Max({g, cut}) : gaps[h] <= gaps[cut]}
    IN  Cardinality(joined) + 1 > maxTokens

\* Pieces that fit, and are cut where they must be.
Fitted(gaps, maxTokens, s, a, b) ==
    /\ Chained(s, a, b)
    /\ \A i \in 1..Len(s) : Size(s[i]) <= maxTokens
    /\ \A i \in 1..(Len(s) - 1) : Parted(gaps, maxTokens, s[i][2])

\* One behind the other.
LEMMA ChainedJoin ==
    ASSUME NEW s, NEW t, NEW a \in Nat, NEW b \in Nat, NEW c \in Nat, Chained(s, a, b), Chained(t, b + 1, c)
    PROVE  /\ Chained(s \o t, a, c)
           /\ Len(s \o t) = Len(s) + Len(t)
           /\ \A i \in 1..Len(s) : (s \o t)[i] = s[i]
           /\ \A i \in 1..Len(t) : (s \o t)[Len(s) + i] = t[i]
<1> DEFINE m == Len(s)
           n == Len(t)
           r == s \o t
<1>1. s \in Seq(Spans) /\ t \in Seq(Spans) /\ m \in Nat \ {0} /\ n \in Nat \ {0}
  BY DEF Chained
<1>2. /\ r \in Seq(Spans) /\ Len(r) = m + n
      /\ \A i \in 1..m : r[i] = s[i]
      /\ \A i \in 1..n : r[m + i] = t[i]
  BY <1>1
<1> HIDE DEF r
<1>3. \A i \in 1..(m + n) : i \in 1..m \/ (i - m \in 1..n /\ r[i] = t[i - m])
  <2> SUFFICES ASSUME NEW i \in 1..(m + n), i \notin 1..m PROVE i - m \in 1..n /\ r[i] = t[i - m]
    OBVIOUS
  <2> HIDE DEF m, n
  <2>1. i - m \in 1..n /\ m + (i - m) = i
    BY <1>1
  <2> QED BY <2>1, <1>2
<1>4. r[1][1] = a /\ r[m + n][2] = c
  <2>1. 1 \in 1..m /\ n \in 1..n
    BY <1>1
  <2> QED BY <1>2, <2>1 DEF Chained
<1>5. \A i \in 1..(m + n) : r[i][1] <= r[i][2]
  BY <1>2, <1>3 DEF Chained
<1>6. ASSUME NEW i \in 1..(m + n - 1) PROVE r[i + 1][1] = r[i][2] + 1
  <2>1. CASE i < m
    <3>1. i \in 1..m /\ i + 1 \in 1..m /\ i \in 1..(m - 1)
      BY <1>1, <2>1
    <3> QED BY <3>1, <1>2 DEF Chained
  <2>2. CASE i = m
    <3>1. m \in 1..m /\ 1 \in 1..n
      BY <1>1
    <3>2. r[m] = s[m] /\ r[m + 1] = t[1]
      BY <3>1, <1>2
    <3> QED BY <3>2, <2>2 DEF Chained
  <2>3. CASE i > m
    <3> DEFINE j == i - m
    <3>1. j \in 1..(n - 1) /\ j \in 1..n /\ j + 1 \in 1..n /\ m + j = i /\ m + (j + 1) = i + 1
      BY <1>1, <2>3
    <3> HIDE DEF j
    <3>2. r[i] = t[j] /\ r[i + 1] = t[j + 1]
      BY <3>1, <1>2
    <3>3. t[j + 1][1] = t[j][2] + 1
      BY <3>1 DEF Chained
    <3> QED BY <3>2, <3>3
  <2>4. i < m \/ i = m \/ i > m
    BY <1>1
  <2> QED BY <2>1, <2>2, <2>3, <2>4
<1>7. Chained(r, a, c)
  BY <1>1, <1>2, <1>4, <1>5, <1>6 DEF Chained
<1> QED BY <1>2, <1>7 DEF r

\* And they still fit, and are cut where they must be.
LEMMA FittedJoin ==
    ASSUME NEW gaps, NEW maxTokens, NEW s, NEW t, NEW a \in Nat, NEW b \in Nat, NEW c \in Nat,
           Fitted(gaps, maxTokens, s, a, b), Fitted(gaps, maxTokens, t, b + 1, c), Parted(gaps, maxTokens, b)
    PROVE  Fitted(gaps, maxTokens, s \o t, a, c)
<1> DEFINE m == Len(s)
           n == Len(t)
           r == s \o t
<1>1. Chained(s, a, b) /\ Chained(t, b + 1, c)
  BY DEF Fitted
<1>2. m \in Nat \ {0} /\ n \in Nat \ {0} /\ s[m][2] = b
  BY <1>1 DEF Chained
<1>3. /\ Chained(r, a, c) /\ Len(r) = m + n
      /\ \A i \in 1..m : r[i] = s[i]
      /\ \A i \in 1..n : r[m + i] = t[i]
  BY <1>1, ChainedJoin
<1> HIDE DEF r
<1>4. ASSUME NEW i \in 1..(m + n) PROVE Size(r[i]) <= maxTokens
  <2>1. CASE i <= m
    <3>1. i \in 1..m BY <2>1, <1>2
    <3> QED BY <3>1, <1>3 DEF Fitted
  <2>2. CASE i > m
    <3> DEFINE j == i - m
    <3>1. j \in 1..n /\ m + j = i
      BY <1>2, <2>2
    <3> HIDE DEF j
    <3> QED BY <3>1, <1>3 DEF Fitted
  <2> QED BY <2>1, <2>2, <1>2
<1>5. ASSUME NEW i \in 1..(m + n - 1) PROVE Parted(gaps, maxTokens, r[i][2])
  <2>1. CASE i < m
    <3>1. i \in 1..m /\ i \in 1..(m - 1) BY <2>1, <1>2
    <3> QED BY <3>1, <1>3 DEF Fitted
  <2>2. CASE i = m
    <3>1. i \in 1..m BY <2>2, <1>2
    <3> QED BY <3>1, <2>2, <1>2, <1>3
  <2>3. CASE i > m
    <3> DEFINE j == i - m
    <3>1. j \in 1..n /\ j \in 1..(n - 1) /\ m + j = i
      BY <1>2, <2>3
    <3> HIDE DEF j
    <3> QED BY <3>1, <1>3 DEF Fitted
  <2> QED BY <2>1, <2>2, <2>3, <1>2
<1>6. Fitted(gaps, maxTokens, r, a, c)
  BY <1>3, <1>4, <1>5 DEF Fitted
<1> QED BY <1>6 DEF r

\* The pieces of pieces that lie next to each other lie next to each other.
LEMMA FittedFlat ==
    ASSUME NEW gaps, NEW maxTokens, NEW u, NEW a \in Nat, NEW b \in Nat, Chained(u, a, b),
           \A i \in 1..(Len(u) - 1) : Parted(gaps, maxTokens, u[i][2]),
           NEW t, t \in Seq(Seq(Spans)), Len(t) = Len(u),
           \A i \in 1..Len(u) : Fitted(gaps, maxTokens, t[i], u[i][1], u[i][2])
    PROVE  Fitted(gaps, maxTokens, FlattenSeq(t), a, b)
<1> DEFINE n == Len(u)
<1>1. n \in Nat \ {0} /\ u \in Seq(Spans) /\ u[1][1] = a /\ u[n][2] = b
  BY DEF Chained
<1>2. t # <<>>
  BY <1>1
<1>3. PICK f : /\ FlattenSeq(t) = f[Len(t)]
               /\ f[1] = t[1]
               /\ \A i \in 2..Len(t) : f[i] = f[i - 1] \o t[i]
  BY <1>2, FlattenUnfolds
<1> DEFINE Good(i) == Fitted(gaps, maxTokens, f[i], a, u[i][2])
           T == {i \in Nat : i + 1 <= n => Good(i + 1)}
<1>4. \A i \in 1..n : u[i][1] \in Nat /\ u[i][2] \in Nat
  BY <1>1 DEF Spans
<1>5. 0 \in T
  BY <1>1, <1>3
<1>6. ASSUME NEW i \in Nat, i \in T PROVE i + 1 \in T
  <2> SUFFICES ASSUME i + 2 <= n PROVE Good(i + 2)
    OBVIOUS
  <2> HIDE DEF n
  <2> DEFINE j == i + 1
  <2>1. j \in 1..(n - 1) /\ j \in 1..n /\ j + 1 \in 1..n /\ j + 1 \in 2..n /\ (j + 1) - 1 = j /\ i + 2 = j + 1
    BY <1>1
  <2>2. Fitted(gaps, maxTokens, f[j], a, u[j][2])
    BY <1>6, <2>1
  <2> HIDE DEF j
  <2>3. f[j + 1] = f[j] \o t[j + 1]
    BY <2>1, <1>3 DEF n
  <2>4. Fitted(gaps, maxTokens, t[j + 1], u[j][2] + 1, u[j + 1][2])
    <3>1. u[j + 1][1] = u[j][2] + 1
      BY <2>1 DEF Chained, n
    <3>2. Fitted(gaps, maxTokens, t[j + 1], u[j + 1][1], u[j + 1][2])
      BY <2>1 DEF n
    <3> QED BY <3>1, <3>2
  <2>5. Parted(gaps, maxTokens, u[j][2])
    BY <2>1 DEF n
  <2>6. u[j][2] \in Nat /\ u[j + 1][2] \in Nat
    BY <2>1, <1>4
  <2>7. Fitted(gaps, maxTokens, f[j] \o t[j + 1], a, u[j + 1][2])
    BY <2>2, <2>4, <2>5, <2>6, FittedJoin
  <2> QED BY <2>1, <2>3, <2>7
<1> HIDE DEF T
<1>7. \A i \in Nat : i \in T
  BY <1>5, <1>6, Induct
<1>8. n - 1 \in T /\ (n - 1) + 1 = n
  BY <1>1, <1>7
<1>9. Good(n)
  BY <1>1, <1>8 DEF T
<1> QED BY <1>1, <1>3, <1>9

Gaps == Seq(0..3)

\* Among some gaps there is a widest.
LEMMA WidestIs ==
    ASSUME NEW gaps \in Gaps, NEW a \in Nat, NEW b \in Nat, 1 <= a, a < b, b <= Len(gaps) + 1
    PROVE  \E g \in a..(b - 1) : \A h \in a..(b - 1) : gaps[h] <= gaps[g]
<1> DEFINE inner == a..(b - 1)
           T == {3 - gaps[h] : h \in inner}
<1>1. \A h \in inner : gaps[h] \in 0..3
  BY DEF Gaps
<1>2. a \in inner
  OBVIOUS
<1> HIDE DEF inner
<1>3. T \subseteq Nat /\ T # {}
  BY <1>1, <1>2
<1>4. PICK n \in T : \A m \in T : n <= m
  BY <1>3, NatMin
<1>5. PICK g \in inner : n = 3 - gaps[g]
  BY <1>4
<1>6. ASSUME NEW h \in inner PROVE gaps[h] <= gaps[g]
  <2>1. 3 - gaps[h] \in T
    OBVIOUS
  <2>2. 3 - gaps[g] <= 3 - gaps[h]
    BY <2>1, <1>4, <1>5
  <2>3. gaps[h] \in 0..3 /\ gaps[g] \in 0..3
    BY <1>1
  <2> QED BY <2>2, <2>3
<1> QED BY <1>6 DEF inner

\* A piece is cut at its widest gaps into at least two that lie next to each other.
LEMMA PartsAre ==
    ASSUME NEW gaps \in Gaps, NEW a \in Nat, NEW b \in Nat, 1 <= a, a < b, b <= Len(gaps) + 1
    PROVE  LET parts == SplitUnits(gaps, <<a, b>>)
           IN  /\ Chained(parts, a, b)
               /\ \A i \in 1..Len(parts) : /\ a <= parts[i][1] /\ parts[i][2] <= b
                                           /\ Size(parts[i]) < Size(<<a, b>>)
               /\ \A i \in 1..(Len(parts) - 1) :
                     /\ parts[i][2] \in a..(b - 1)
                     /\ \A h \in a..(b - 1) : gaps[h] <= gaps[parts[i][2]]
<1> DEFINE inner == a..(b - 1)
           cuts  == {g \in inner : \A h \in inner : gaps[h] <= gaps[g]}
           C     == cuts \cup {b}
           ends  == Within([w \in 1..b |-> w], C)
           parts == SplitUnits(gaps, <<a, b>>)
<1>1. parts = [i \in DOMAIN ends |-> <<IF i = 1 THEN a ELSE ends[i - 1] + 1, ends[i]>>]
  BY DEF SplitUnits
<1>2. ends \in Seq(1..b) /\ Increasing(ends) /\ Elements(ends) = C \cap (1..b)
  <2>1. b \in Nat OBVIOUS
  <2> HIDE DEF C
  <2> QED BY <2>1, WithinIncreasing
<1>3. C \subseteq a..b /\ b \in C /\ a..b \subseteq 1..b
  OBVIOUS
<1>4. PICK g \in inner : g \in cuts
  BY WidestIs
<1> HIDE DEF parts, ends
<1>5. Elements(ends) = C
  BY <1>2, <1>3
<1> DEFINE n == Len(ends)
<1>6. n \in Nat /\ DOMAIN ends = 1..n /\ \A i \in 1..n : ends[i] \in a..b /\ ends[i] \in C
  <2>1. n \in Nat /\ DOMAIN ends = 1..n
    BY <1>2
  <2>2. \A i \in 1..n : ends[i] \in C
    BY <1>5, <2>1 DEF Elements
  <2> HIDE DEF C, n
  <2> QED BY <2>1, <2>2, <1>3
<1>7. \A i, j \in 1..n : i < j => ends[i] < ends[j]
  BY <1>2, <1>6 DEF Increasing
<1>8. \A c \in C : \E i \in 1..n : ends[i] = c
  BY <1>5, <1>6 DEF Elements
<1>9. PICK k \in 1..n : ends[k] = b
  BY <1>3, <1>8
<1>10. PICK l \in 1..n : ends[l] = g
  BY <1>4, <1>8
<1> HIDE DEF C, n
<1>11. k = n /\ n >= 2
  <2>1. ends[n] \in a..b /\ n \in 1..n
    BY <1>6
  <2>2. ~(k < n)
    BY <2>1, <1>6, <1>7, <1>9
  <2>3. l # k
    BY <1>9, <1>10
  <2> QED BY <2>2, <2>3, <1>6
<1>12. \A i \in 1..(n - 1) : ends[i] \in cuts /\ ends[i] \in a..(b - 1)
  <2> SUFFICES ASSUME NEW i \in 1..(n - 1) PROVE ends[i] \in cuts
    OBVIOUS
  <2>1. i \in 1..n /\ n \in 1..n /\ i < n
    BY <1>6
  <2>2. ends[i] < ends[n]
    BY <2>1, <1>7
  <2>3. ends[i] # b /\ ends[i] \in C
    BY <2>1, <2>2, <1>6, <1>9, <1>11
  <2> QED BY <2>3 DEF C
<1>13. Len(parts) = n /\ \A i \in 1..n : parts[i] = <<IF i = 1 THEN a ELSE ends[i - 1] + 1, ends[i]>>
  BY <1>1, <1>6
<1>14. \A i \in 1..n : /\ parts[i][2] = ends[i] /\ parts[i][1] \in Nat /\ ends[i] \in Nat
                       /\ a <= parts[i][1] /\ parts[i][1] <= ends[i] /\ ends[i] <= b
                       /\ (i = 1 => parts[i][1] = a) /\ (i # 1 => parts[i][1] = ends[i - 1] + 1)
  <2> SUFFICES ASSUME NEW i \in 1..n
               PROVE  /\ parts[i][2] = ends[i] /\ parts[i][1] \in Nat /\ ends[i] \in Nat
                      /\ a <= parts[i][1] /\ parts[i][1] <= ends[i] /\ ends[i] <= b
                      /\ (i = 1 => parts[i][1] = a) /\ (i # 1 => parts[i][1] = ends[i - 1] + 1)
    OBVIOUS
  <2>1. CASE i = 1
    BY <2>1, <1>6, <1>13
  <2>2. CASE i # 1
    <3>1. i - 1 \in 1..n /\ i - 1 < i
      BY <2>2, <1>6
    <3>2. ends[i - 1] < ends[i] /\ ends[i - 1] \in a..b /\ ends[i] \in a..b
      BY <3>1, <1>6, <1>7
    <3>3. parts[i] = <<ends[i - 1] + 1, ends[i]>>
      BY <2>2, <1>13
    <3> QED BY <3>2, <3>3, <2>2
  <2> QED BY <2>1, <2>2
<1>15. parts \in Seq(Spans)
  <2>1. ASSUME NEW i \in 1..n PROVE parts[i] \in Spans
    <3>1. parts[i] = <<parts[i][1], parts[i][2]>>
      BY <1>13
    <3>2. parts[i][1] \in Nat /\ parts[i][2] \in Nat
      BY <1>14
    <3> QED BY <3>1, <3>2 DEF Spans
  <2>2. n \in Nat /\ parts = [i \in 1..n |-> parts[i]]
    <3>1. DOMAIN parts = 1..n
      BY <1>1, <1>6
    <3> QED BY <3>1, <1>1, <1>6
  <2>3. [i \in 1..n |-> parts[i]] \in Seq(Spans)
    BY <2>1, <2>2
  <2> QED BY <2>2, <2>3
<1>16. Chained(parts, a, b)
  <2>1. parts[1][1] = a /\ parts[n][2] = b
    BY <1>6, <1>9, <1>11, <1>14
  <2>2. ASSUME NEW i \in 1..(n - 1) PROVE parts[i + 1][1] = parts[i][2] + 1
    <3>1. i \in 1..n /\ i + 1 \in 1..n /\ i + 1 # 1 /\ (i + 1) - 1 = i
      BY <1>6
    <3> QED BY <3>1, <1>14
  <2> QED BY <2>1, <2>2, <1>11, <1>13, <1>14, <1>15 DEF Chained
<1>17. ASSUME NEW i \in 1..n PROVE Size(parts[i]) < Size(<<a, b>>)
  <2>1. CASE i = n
    <3>1. n - 1 \in 1..n /\ i # 1
      BY <2>1, <1>6, <1>11
    <3>2. parts[i][1] = ends[n - 1] + 1 /\ ends[n - 1] \in a..b /\ parts[i][2] \in Nat /\ parts[i][2] <= b
      BY <2>1, <3>1, <1>6, <1>14
    <3> QED BY <3>2 DEF Size
  <2>2. CASE i # n
    <3>1. i \in 1..(n - 1)
      BY <2>2, <1>6
    <3>2. parts[i][2] \in a..(b - 1) /\ a <= parts[i][1] /\ parts[i][1] \in Nat
      BY <3>1, <1>12, <1>14
    <3> DEFINE x == parts[i][1]
               y == parts[i][2]
    <3>3. y \in Int /\ y < b /\ a <= x /\ x \in Int
      BY <3>2
    <3> HIDE DEF x, y
    <3>4. y - x + 1 < b - a + 1
      BY <3>3
    <3> QED BY <3>4 DEF Size, x, y
  <2> QED BY <2>1, <2>2
<1>18. ASSUME NEW i \in 1..(n - 1)
       PROVE  parts[i][2] \in a..(b - 1) /\ \A h \in a..(b - 1) : gaps[h] <= gaps[parts[i][2]]
  <2>1. parts[i][2] = ends[i]
    BY <1>6, <1>14
  <2> QED BY <2>1, <1>12
<1> QED
  BY <1>13, <1>14, <1>16, <1>17, <1>18 DEF parts

\* The lesser and the greater of two numbers are among them.
LEMMA OfTwo ==
    ASSUME NEW g \in Nat, NEW c \in Nat
    PROVE  Min({g, c}) \in {g, c} /\ Max({g, c}) \in {g, c}
<1>1. (\E x \in {g, c} : \A y \in {g, c} : x <= y) /\ (\E x \in {g, c} : \A y \in {g, c} : x >= y)
  <2>1. g <= c \/ c <= g
    OBVIOUS
  <2> QED BY <2>1
<1> QED BY <1>1 DEF Min, Max

\* The widest gap of a piece that is too large parts too many words.
LEMMA PartedIs ==
    ASSUME NEW gaps \in Gaps, NEW maxTokens \in Nat, NEW a \in Nat, NEW b \in Nat, 1 <= a, a < b, b <= Len(gaps) + 1,
           Size(<<a, b>>) > maxTokens, NEW c \in a..(b - 1), \A h \in a..(b - 1) : gaps[h] <= gaps[c]
    PROVE  Parted(gaps, maxTokens, c)
<1> DEFINE joined == {g \in DOMAIN gaps : \A h \in Min({g, c})..Max({g, c}) : gaps[h] <= gaps[c]}
           n == Len(gaps)
           inner == a..(b - 1)
<1>1. DOMAIN gaps = 1..n /\ n \in Nat
  BY DEF Gaps
<1>2. inner \subseteq joined
  <2> SUFFICES ASSUME NEW g \in inner PROVE g \in joined
    OBVIOUS
  <2>1. g \in 1..n
    BY <1>1
  <2>2. Min({g, c}) \in {g, c} /\ Max({g, c}) \in {g, c}
    BY OfTwo
  <2>3. Min({g, c}) \in inner /\ Max({g, c}) \in inner
    BY <2>2
  <2>4. Min({g, c})..Max({g, c}) \subseteq inner
    <3> DEFINE l == Min({g, c})
               m == Max({g, c})
    <3>1. l \in inner /\ m \in inner
      BY <2>3
    <3> HIDE DEF l, m
    <3>2. l..m \subseteq inner
      BY <3>1
    <3> QED BY <3>2 DEF l, m
  <2> QED BY <2>1, <2>4, <1>1
<1>3. IsFiniteSet(joined)
  <2>1. IsFiniteSet(1..n)
    BY <1>1, FS_Interval
  <2>2. joined \subseteq 1..n
    BY <1>1
  <2> HIDE DEF joined
  <2> QED BY <2>1, <2>2, FS_Subset
<1>4. IsFiniteSet(inner) /\ Cardinality(inner) = b - a
  <2> DEFINE e == b - 1
  <2>1. a \in Int /\ e \in Int /\ a <= e /\ e - a + 1 = b - a
    OBVIOUS
  <2> HIDE DEF e
  <2>2. IsFiniteSet(a..e) /\ Cardinality(a..e) = e - a + 1
    <3>1. IsFiniteSet(a..e)
      BY <2>1, FS_Interval
    <3>2. Cardinality(a..e) = IF a > e THEN 0 ELSE e - a + 1
      BY <2>1, FS_Interval
    <3> QED BY <3>1, <3>2, <2>1
  <2> QED BY <2>1, <2>2 DEF e
<1> HIDE DEF joined, inner
<1>5. Cardinality(inner) <= Cardinality(joined)
  BY <1>2, <1>3, FS_Subset
<1>6. Cardinality(joined) \in Nat
  BY <1>3, FS_CardinalityType
<1>7. Cardinality(joined) + 1 > maxTokens
  BY <1>4, <1>5, <1>6 DEF Size
<1> QED BY <1>7 DEF Parted, joined

\* The pieces that fit: a piece that does not is cut, and the parts' pieces are its own.
FitStep(gaps, maxTokens, before) ==
    LET words == 1..(Len(gaps) + 1)
    IN  [piece \in words \X words |->
            IF Size(piece) <= maxTokens THEN <<piece>>
            ELSE LET parts == SplitUnits(gaps, piece)
                 IN  FlattenSeq([i \in DOMAIN parts |-> before[parts[i]]])]

Words(gaps) == (1..(Len(gaps) + 1)) \X (1..(Len(gaps) + 1))

\* Of a piece that is too large, what is cut from it are smaller pieces of the text.
LEMMA CutSmaller ==
    ASSUME NEW gaps \in Gaps, NEW maxTokens \in Nat \ {0}, NEW p \in Words(gaps), Size(p) > maxTokens
    PROVE  LET parts == SplitUnits(gaps, p)
           IN  /\ parts \in Seq(Words(gaps)) /\ Chained(parts, p[1], p[2])
               /\ \A i \in 1..Len(parts) : Size(parts[i]) < Size(p)
               /\ \A i \in 1..(Len(parts) - 1) : Parted(gaps, maxTokens, parts[i][2])
<1> DEFINE a == p[1]
           b == p[2]
           N == Len(gaps) + 1
           parts == SplitUnits(gaps, p)
<1>1. p = <<a, b>> /\ a \in 1..N /\ b \in 1..N /\ N \in Nat
  BY DEF Words, Gaps
<1>2. 1 <= a /\ a < b /\ b <= N /\ a \in Nat /\ b \in Nat
  <2>1. Size(p) = b - a + 1
    BY DEF Size
  <2> QED BY <1>1, <2>1
<1>3. Size(<<a, b>>) > maxTokens
  BY <1>1
<1> DEFINE cut == SplitUnits(gaps, <<a, b>>)
<1>0. parts = cut
  BY <1>1
<1> HIDE DEF a, b, parts
<1>4. /\ Chained(cut, a, b)
      /\ \A i \in 1..Len(cut) : a <= cut[i][1] /\ cut[i][2] <= b /\ Size(cut[i]) < Size(<<a, b>>)
      /\ \A i \in 1..(Len(cut) - 1) : /\ cut[i][2] \in a..(b - 1)
                                        /\ \A h \in a..(b - 1) : gaps[h] <= gaps[cut[i][2]]
  BY <1>2, PartsAre
<1> HIDE DEF cut
<1>5. \A i \in 1..(Len(cut) - 1) : Parted(gaps, maxTokens, cut[i][2])
  BY <1>2, <1>3, <1>4, PartedIs
<1>6. cut \in Seq(Words(gaps))
  <2>1. cut \in Seq(Spans) /\ \A i \in 1..Len(cut) : cut[i][1] <= cut[i][2]
    BY <1>4 DEF Chained
  <2>2. ASSUME NEW i \in 1..Len(cut) PROVE cut[i] \in Words(gaps)
    <3>1. cut[i] \in Spans
      BY <2>1
    <3>2. cut[i][1] \in Nat /\ cut[i][2] \in Nat /\ cut[i] = <<cut[i][1], cut[i][2]>>
      BY <3>1 DEF Spans
    <3>3. cut[i][1] \in 1..N /\ cut[i][2] \in 1..N
      BY <3>2, <2>1, <1>1, <1>2, <1>4
    <3> QED BY <3>2, <3>3 DEF Words
  <2> QED BY <2>1, <2>2
<1> QED BY <1>0, <1>1, <1>4, <1>5, <1>6 DEF parts, a, b

\* Sequences of some things make one of those things.
LEMMA FlattenTyped ==
    ASSUME NEW X, NEW t \in Seq(Seq(X)), t # <<>>
    PROVE  FlattenSeq(t) \in Seq(X)
<1> DEFINE n == Len(t)
           V == Seq(X)
<1>1. PICK f : /\ FlattenSeq(t) = f[Len(t)]
               /\ f[1] = t[1]
               /\ \A i \in 2..Len(t) : f[i] = f[i - 1] \o t[i]
  BY FlattenUnfolds
<1>2. n \in Nat \ {0} /\ \A i \in 1..n : t[i] \in V
  OBVIOUS
<1>3. \A x, y \in V : x \o y \in V
  OBVIOUS
<1> DEFINE T == {i \in Nat : i + 1 <= n => f[i + 1] \in V}
<1> HIDE DEF V
<1>4. 0 \in T
  BY <1>1, <1>2
<1>5. ASSUME NEW i \in Nat, i \in T PROVE i + 1 \in T
  <2> SUFFICES ASSUME (i + 1) + 1 <= n PROVE f[(i + 1) + 1] \in V
    OBVIOUS
  <2> DEFINE j == (i + 1) + 1
  <2>1. j \in 2..n /\ j \in 1..n /\ j - 1 = i + 1 /\ i + 1 <= n
    BY <1>2
  <2> HIDE DEF j, n
  <2>2. f[j] = f[j - 1] \o t[j]
    BY <2>1, <1>1 DEF n
  <2>3. f[j - 1] \in V
    BY <2>1, <1>5
  <2>4. t[j] \in V
    BY <2>1, <1>2
  <2>5. f[j] \in V
    BY <2>2, <2>3, <2>4, <1>3
  <2> QED BY <2>5 DEF j
<1> HIDE DEF T
<1>6. \A i \in Nat : i \in T
  BY <1>4, <1>5, Induct
<1>7. n - 1 \in T /\ (n - 1) + 1 = n
  BY <1>2, <1>6
<1>8. f[n] \in V
  BY <1>2, <1>7 DEF T
<1> QED BY <1>1, <1>8 DEF V

OfUnits(gaps, before, p) == FlattenSeq([i \in DOMAIN SplitUnits(gaps, p) |-> before[SplitUnits(gaps, p)[i]]])

\* What is made of a piece.
LEMMA FitStepAt ==
    ASSUME NEW gaps \in Gaps, NEW maxTokens \in Nat \ {0}, NEW before, NEW p \in Words(gaps)
    PROVE  FitStep(gaps, maxTokens, before)[p] = IF Size(p) <= maxTokens THEN <<p>> ELSE OfUnits(gaps, before, p)
  BY DEF FitStep, Words, OfUnits

\* It only depends on what is made of smaller ones.
LEMMA FitStepAgrees ==
    ASSUME NEW gaps \in Gaps, NEW maxTokens \in Nat \ {0}, NEW f, NEW g, NEW p \in Words(gaps),
           \A q \in Words(gaps) : Size(q) < Size(p) => f[q] = g[q]
    PROVE  FitStep(gaps, maxTokens, f)[p] = FitStep(gaps, maxTokens, g)[p]
<1> DEFINE parts == SplitUnits(gaps, p)
<1>1. CASE Size(p) <= maxTokens
  BY <1>1, FitStepAt
<1>2. CASE ~(Size(p) <= maxTokens)
  <2>1. Size(p) > maxTokens
    <3>1. p[1] \in Nat /\ p[2] \in Nat
      BY DEF Words, Gaps
    <3> QED BY <3>1, <1>2 DEF Size
  <2>2. parts \in Seq(Words(gaps)) /\ \A i \in 1..Len(parts) : Size(parts[i]) < Size(p)
    BY <2>1, CutSmaller
  <2> HIDE DEF parts
  <2>3. DOMAIN parts = 1..Len(parts) /\ \A i \in 1..Len(parts) : parts[i] \in Words(gaps)
    BY <2>2
  <2>4. [i \in DOMAIN parts |-> f[parts[i]]] = [i \in DOMAIN parts |-> g[parts[i]]]
    BY <2>2, <2>3
  <2>5. /\ FitStep(gaps, maxTokens, f)[p] = OfUnits(gaps, f, p)
        /\ FitStep(gaps, maxTokens, g)[p] = OfUnits(gaps, g, p)
    BY <1>2, FitStepAt
  <2>6. OfUnits(gaps, f, p) = OfUnits(gaps, g, p)
    BY <2>4 DEF parts, OfUnits
  <2> QED BY <2>5, <2>6
<1> QED BY <1>1, <1>2

\* It is a sequence of pieces of the text.
LEMMA FitStepTyped ==
    ASSUME NEW gaps \in Gaps, NEW maxTokens \in Nat \ {0}, NEW before \in [Words(gaps) -> Seq(Words(gaps))]
    PROVE  FitStep(gaps, maxTokens, before) \in [Words(gaps) -> Seq(Words(gaps))]
<1> DEFINE W == Words(gaps)
<1>0. \A p \in W : FitStep(gaps, maxTokens, before)[p]
             = IF Size(p) <= maxTokens THEN <<p>>
               ELSE FlattenSeq([i \in DOMAIN SplitUnits(gaps, p) |-> before[SplitUnits(gaps, p)[i]]])
  BY DEF FitStep, Words
<1>1. ASSUME NEW p \in W PROVE FitStep(gaps, maxTokens, before)[p] \in Seq(W)
  <2> DEFINE parts == SplitUnits(gaps, p)
  <2>0. FitStep(gaps, maxTokens, before)[p]
             = IF Size(p) <= maxTokens THEN <<p>> ELSE FlattenSeq([i \in DOMAIN parts |-> before[parts[i]]])
    BY <1>0
  <2> HIDE DEF parts
  <2> DEFINE t == [i \in DOMAIN parts |-> before[parts[i]]]
  <2>1. CASE Size(p) <= maxTokens
    <3>1. FitStep(gaps, maxTokens, before)[p] = <<p>>
      BY <2>0, <2>1
    <3> HIDE DEF W
    <3> QED BY <3>1
  <2>2. CASE ~(Size(p) <= maxTokens)
    <3>1. Size(p) > maxTokens
      <4>1. p[1] \in Nat /\ p[2] \in Nat
        BY DEF Words, Gaps
      <4> QED BY <4>1, <2>2 DEF Size
    <3>2. parts \in Seq(W) /\ Chained(parts, p[1], p[2])
      BY <3>1, CutSmaller DEF parts
    <3>3. FitStep(gaps, maxTokens, before)[p] = FlattenSeq(t)
      BY <2>0, <2>2
    <3>4. Len(parts) >= 1
      BY <3>2 DEF Chained
    <3> HIDE DEF W
    <3>5. before \in [W -> Seq(W)]
      BY DEF W
    <3>6. t \in Seq(Seq(W)) /\ Len(t) = Len(parts)
      <4>1. DOMAIN parts = 1..Len(parts) /\ Len(parts) \in Nat /\ \A i \in 1..Len(parts) : parts[i] \in W
        BY <3>2
      <4>2. \A i \in 1..Len(parts) : before[parts[i]] \in Seq(W)
        BY <4>1, <3>5
      <4> QED BY <4>1, <4>2
    <3> HIDE DEF t
    <3>7. t # <<>>
      BY <3>4, <3>6
    <3>8. FlattenSeq(t) \in Seq(W)
      BY <3>6, <3>7, FlattenTyped
    <3> QED BY <3>3, <3>8
  <2> QED BY <2>1, <2>2
<1>2. DOMAIN FitStep(gaps, maxTokens, before) = W
  BY DEF FitStep, Words
<1>3. FitStep(gaps, maxTokens, before) = [p \in W |-> FitStep(gaps, maxTokens, before)[p]]
  BY DEF FitStep, Words
<1> QED BY <1>1, <1>3

\* There is what makes of each piece what it is made of.
LEMMA FitUnfolds ==
    ASSUME NEW gaps \in Gaps, NEW maxTokens \in Nat \ {0}
    PROVE  \E fit : /\ FitPieces(gaps, maxTokens) = fit[Whole(gaps)]
                    /\ fit = FitStep(gaps, maxTokens, fit)
<1> DEFINE W == Words(gaps)
           N == Len(gaps) + 1
           V == [W -> Seq(W)]
           a0 == [p \in W |-> <<p>>]
           G == [n \in 1..N |-> [h \in V |-> FitStep(gaps, maxTokens, h)]]
           fit == CHOOSE f : f = FitStep(gaps, maxTokens, f)
<1>0. N \in Nat /\ \A p \in W : p[1] \in 1..N /\ p[2] \in 1..N
  BY DEF Words, Gaps
<1>1. a0 \in V /\ G \in [1..N -> [V -> V]]
  <2>1. \A h \in V : FitStep(gaps, maxTokens, h) \in V
    BY FitStepTyped
  <2>2. a0 \in V
    <3> HIDE DEF W
    <3> QED OBVIOUS
  <2> HIDE DEF V
  <2> QED BY <2>1, <2>2
<1>2. PICK f : Recurs(f, N, V, a0, G)
  <2> HIDE DEF N, V, a0, G
  <2> QED BY <1>0, <1>1, SeqRecursion
<1>3. /\ f \in [0..N -> V] /\ f[0] = a0
      /\ \A n \in 1..N : f[n] = FitStep(gaps, maxTokens, f[n - 1])
  <2>1. f \in [0..N -> V] /\ f[0] = a0 /\ \A n \in 1..N : f[n] = G[n][f[n - 1]]
    BY <1>2 DEF Recurs
  <2>2. ASSUME NEW n \in 1..N PROVE f[n] = FitStep(gaps, maxTokens, f[n - 1])
    <3>0. \A h \in V : G[n][h] = FitStep(gaps, maxTokens, h)
      OBVIOUS
    <3>1. n - 1 \in 0..N
      BY <1>0
    <3> HIDE DEF V, N, G, a0
    <3>2. f[n - 1] \in V /\ f[n] = G[n][f[n - 1]]
      BY <3>1, <2>1
    <3> QED BY <3>0, <3>2
  <2> QED BY <2>1, <2>2
<1>4. \A p \in W : /\ Size(p) \in Int /\ Size(p) <= N
  BY <1>0 DEF Size
<1> HIDE DEF W, N, V, G
<1> DEFINE Same(n) == \A p \in W : Size(p) <= n => f[n][p] = FitStep(gaps, maxTokens, f[n])[p]
           T == {n \in Nat : n <= N => Same(n)}
<1>5. 0 \in T
  <2>1. ASSUME NEW p \in W, Size(p) <= 0 PROVE f[0][p] = FitStep(gaps, maxTokens, f[0])[p]
    <3>1. Size(p) <= maxTokens
      BY <1>4, <2>1
    <3>2. FitStep(gaps, maxTokens, f[0])[p] = <<p>>
      BY <3>1, FitStepAt DEF W
    <3> QED BY <3>2, <1>3
  <2> QED BY <2>1
<1>6. ASSUME NEW n \in Nat, n \in T PROVE n + 1 \in T
  <2> SUFFICES ASSUME n + 1 <= N PROVE Same(n + 1)
    OBVIOUS
  <2>1. Same(n) /\ n + 1 \in 1..N /\ (n + 1) - 1 = n
    BY <1>0, <1>6
  <2>2. f[n + 1] = FitStep(gaps, maxTokens, f[n])
    BY <2>1, <1>3
  <2>3. ASSUME NEW p \in W, Size(p) <= n + 1
        PROVE  f[n + 1][p] = FitStep(gaps, maxTokens, f[n + 1])[p]
    <3>1. ASSUME NEW q \in W, Size(q) < Size(p) PROVE f[n][q] = f[n + 1][q]
      <4>1. Size(q) <= n
        BY <1>4, <2>3, <3>1
      <4> QED BY <4>1, <2>1, <2>2
    <3> DEFINE g == f[n]
               h == f[n + 1]
    <3>2. \A q \in Words(gaps) : Size(q) < Size(p) => g[q] = h[q]
      BY <3>1 DEF W
    <3> HIDE DEF g, h
    <3>3. FitStep(gaps, maxTokens, g)[p] = FitStep(gaps, maxTokens, h)[p]
      BY <3>2, FitStepAgrees DEF W
    <3> QED BY <3>3, <2>2 DEF g, h
  <2> QED BY <2>3
<1> HIDE DEF T
<1>7. \A n \in Nat : n \in T
  BY <1>5, <1>6, Induct
<1>8. Same(N)
  BY <1>0, <1>7 DEF T
<1> DEFINE g == f[N]
<1>9. g = FitStep(gaps, maxTokens, g)
  <2>1. g \in V /\ FitStep(gaps, maxTokens, g) \in V
    <3>1. g \in V
      BY <1>0, <1>3
    <3> HIDE DEF g
    <3> QED BY <3>1, FitStepTyped DEF V, W
  <2>2. \A p \in W : g[p] = FitStep(gaps, maxTokens, g)[p]
    BY <1>4, <1>8
  <2> HIDE DEF g
  <2> QED BY <2>1, <2>2 DEF V

<1> HIDE DEF g
<1>10. fit = FitStep(gaps, maxTokens, fit)
  BY <1>9
<1>11. FitPieces(gaps, maxTokens) = fit[Whole(gaps)]
  BY DEF FitPieces, FitStep
<1> HIDE DEF fit
<1> QED BY <1>10, <1>11

\* A single piece lies next to itself.
LEMMA FittedOne ==
    ASSUME NEW gaps, NEW maxTokens, NEW p \in Spans, p[1] <= p[2], Size(p) <= maxTokens
    PROVE  Fitted(gaps, maxTokens, <<p>>, p[1], p[2])
<1> DEFINE s == <<p>>
<1>1. s \in Seq(Spans) /\ Len(s) = 1 /\ s[1] = p
  OBVIOUS
<1> HIDE DEF s
<1>2. 1..1 = {1} /\ 1..(1 - 1) = {}
  OBVIOUS
<1>3. Fitted(gaps, maxTokens, s, p[1], p[2])
  BY <1>1, <1>2 DEF Fitted, Chained
<1> QED BY <1>3 DEF s

\* The pieces of a text lie next to each other, fit, and are cut where they must be.
LEMMA PiecesFitted ==
    ASSUME NEW gaps \in Gaps, NEW maxTokens \in Nat \ {0}
    PROVE  Fitted(gaps, maxTokens, FitPieces(gaps, maxTokens), 1, Len(gaps) + 1)
<1> DEFINE W == Words(gaps)
           N == Len(gaps) + 1
<1>1. PICK fit : /\ FitPieces(gaps, maxTokens) = fit[Whole(gaps)]
                 /\ fit = FitStep(gaps, maxTokens, fit)
  BY FitUnfolds
<1>2. \A p \in W : fit[p] = IF Size(p) <= maxTokens THEN <<p>>
                            ELSE FlattenSeq([i \in DOMAIN SplitUnits(gaps, p) |-> fit[SplitUnits(gaps, p)[i]]])
  <2>1. \A p \in W : FitStep(gaps, maxTokens, fit)[p]
                        = IF Size(p) <= maxTokens THEN <<p>>
                          ELSE FlattenSeq([i \in DOMAIN SplitUnits(gaps, p) |-> fit[SplitUnits(gaps, p)[i]]])
    BY DEF FitStep, Words
  <2> QED BY <1>1, <2>1
<1>3. N \in Nat /\ \A p \in W : /\ p \in Spans /\ p[1] \in Nat /\ p[2] \in Nat /\ p[1] >= 1 /\ p[2] <= N
                                /\ Size(p) = p[2] - p[1] + 1 /\ Size(p) \in Int
  BY DEF Words, Gaps, Spans, Size
<1> DEFINE Good(p) == Fitted(gaps, maxTokens, fit[p], p[1], p[2])
           T == {n \in Nat : \A p \in W : p[1] <= p[2] /\ Size(p) <= n => Good(p)}
<1> HIDE DEF W, N
<1>4. 0 \in T
  <2>1. ASSUME NEW p \in W, p[1] <= p[2], Size(p) <= 0 PROVE FALSE
    BY <2>1, <1>3
  <2> QED BY <2>1
<1>5. ASSUME NEW n \in Nat, n \in T PROVE n + 1 \in T
  <2> SUFFICES ASSUME NEW p \in W, p[1] <= p[2], Size(p) <= n + 1 PROVE Good(p)
    OBVIOUS
  <2>1. CASE Size(p) <= maxTokens
    <3>1. fit[p] = <<p>>
      BY <2>1, <1>2
    <3>2. p \in Spans
      BY <1>3
    <3> QED BY <3>1, <3>2, <2>1, FittedOne
  <2>2. CASE ~(Size(p) <= maxTokens)
    <3> DEFINE parts == SplitUnits(gaps, p)
    <3>1. fit[p] = FlattenSeq([i \in DOMAIN parts |-> fit[parts[i]]])
      BY <2>2, <1>2
    <3>2. Size(p) > maxTokens
      BY <2>2, <1>3
    <3>3. /\ parts \in Seq(W) /\ Chained(parts, p[1], p[2])
          /\ \A i \in 1..Len(parts) : Size(parts[i]) < Size(p)
          /\ \A i \in 1..(Len(parts) - 1) : Parted(gaps, maxTokens, parts[i][2])
      BY <3>2, CutSmaller DEF W
    <3> HIDE DEF parts
    <3> DEFINE t == [i \in DOMAIN parts |-> fit[parts[i]]]
               k == Len(parts)
    <3>4. DOMAIN parts = 1..k /\ k \in Nat /\ \A i \in 1..k : parts[i] \in W
      BY <3>3
    <3>5. ASSUME NEW i \in 1..k PROVE Fitted(gaps, maxTokens, fit[parts[i]], parts[i][1], parts[i][2])
      <4>1. parts[i] \in W /\ Size(parts[i]) < Size(p) /\ parts[i][1] <= parts[i][2]
        BY <3>3, <3>4 DEF Chained
      <4>2. Size(parts[i]) <= n
        BY <4>1, <1>3
      <4> QED BY <4>1, <4>2, <1>5
    <3>6. \A i \in 1..k : fit[parts[i]] \in Seq(Spans)
      BY <3>5 DEF Fitted, Chained
    <3> DEFINE X == Seq(Spans)
    <3>7. t \in Seq(X) /\ Len(t) = k /\ \A i \in 1..k : t[i] = fit[parts[i]]
      <4>1. \A i \in 1..k : fit[parts[i]] \in X
        BY <3>6
      <4> HIDE DEF X, k
      <4> QED BY <4>1, <3>4
    <3>8. \A i \in 1..k : Fitted(gaps, maxTokens, t[i], parts[i][1], parts[i][2])
      BY <3>5, <3>7
    <3> HIDE DEF t
    <3>9. p[1] \in Nat /\ p[2] \in Nat
      BY <1>3
    <3>10. Fitted(gaps, maxTokens, FlattenSeq(t), p[1], p[2])
      BY <3>3, <3>7, <3>8, <3>9, FittedFlat
    <3> QED BY <3>1, <3>10 DEF t
  <2> QED BY <2>1, <2>2
<1> HIDE DEF T
<1>6. N \in T
  BY <1>3, <1>4, <1>5, Induct
<1> DEFINE all == Whole(gaps)
<1>7. all \in W /\ all[1] = 1 /\ all[2] = N /\ N >= 1
  BY DEF Whole, Words, W, N, Gaps
<1> HIDE DEF all
<1>8. Good(all)
  <2>1. Size(all) <= N /\ all[1] <= all[2]
    BY <1>3, <1>7
  <2> QED BY <2>1, <1>6, <1>7 DEF T
<1> QED BY <1>1, <1>7, <1>8 DEF all, N

\* A word is only cut from the next one in its sentence, its line or its paragraph if the
\* whole does not fit (evidence/chunker.py: _split_units, _fit_pieces).
THEOREM CutsAreNeeded ==
    ASSUME NEW gaps \in Gaps, NEW maxTokens \in Nat \ {0}
    PROVE  CutsOnlyWhatIsTooLarge(gaps, maxTokens)
<1>1. \A i \in 1..(Len(FitPieces(gaps, maxTokens)) - 1) : Parted(gaps, maxTokens, FitPieces(gaps, maxTokens)[i][2])
  BY PiecesFitted DEF Fitted
<1> QED BY <1>1 DEF CutsOnlyWhatIsTooLarge, Parted

\* Of numbers up to another, one is the largest.
LEMMA LargestIn ==
    ASSUME NEW n \in Nat, NEW S \in SUBSET (0..n), S # {}
    PROVE  Max(S) \in S
<1> DEFINE T == {n - m : m \in S}
<1>1. T \subseteq Nat /\ T # {}
  OBVIOUS
<1>2. PICK k \in T : \A j \in T : k <= j
  BY <1>1, NatMin
<1>3. PICK m \in S : k = n - m
  BY <1>2
<1>4. ASSUME NEW x \in S PROVE m >= x
  <2>1. n - x \in T
    OBVIOUS
  <2>2. n - m <= n - x /\ m \in Nat /\ x \in Nat
    BY <2>1, <1>2, <1>3
  <2> QED BY <2>2
<1>5. \E x \in S : \A y \in S : x >= y
  BY <1>4
<1> QED BY <1>5 DEF Max

\* The lesser of two numbers is no greater than either.
LEMMA LesserIs ==
    ASSUME NEW g \in Nat, NEW c \in Nat
    PROVE  Min({g, c}) \in Nat /\ Min({g, c}) <= g /\ Min({g, c}) <= c
<1>1. \E x \in {g, c} : \A y \in {g, c} : x <= y
  <2>1. g <= c \/ c <= g
    OBVIOUS
  <2> QED BY <2>1
<1>2. Min({g, c}) \in {g, c} /\ \A y \in {g, c} : Min({g, c}) <= y
  BY <1>1 DEF Min
<1> QED BY <1>2

\* The size of pieces, one after the other.
LEMMA SizeUnfolds ==
    ASSUME NEW s \in Seq(Spans)
    PROVE  \E size : /\ SizeOf(s) = size[Len(s)]
                     /\ size[0] = 0
                     /\ \A i \in 1..Len(s) : size[i] = size[i - 1] + Size(s[i])
<1> DEFINE n == Len(s)
           G == [i \in 1..n |-> [x \in Int |-> x + Size(s[i])]]
           K(g) == [i \in 0..n |-> IF i = 0 THEN 0 ELSE g[i - 1] + Size(s[i])]
           size == CHOOSE g : g = K(g)
<1>0. n \in Nat /\ \A i \in 1..n : Size(s[i]) \in Int
  <2>1. \A i \in 1..n : s[i] \in Spans
    OBVIOUS
  <2> QED BY <2>1 DEF Spans, Size
<1>1. G \in [1..n -> [Int -> Int]]
  BY <1>0
<1>2. PICK f : Recurs(f, n, Int, 0, G)
  <2> HIDE DEF n, G
  <2>1. 0 \in Int OBVIOUS
  <2> QED BY <1>0, <1>1, <2>1, SeqRecursion
<1>3. f \in [0..n -> Int] /\ f[0] = 0 /\ \A i \in 1..n : f[i] = f[i - 1] + Size(s[i])
  <2>1. f \in [0..n -> Int] /\ f[0] = 0 /\ \A i \in 1..n : f[i] = G[i][f[i - 1]]
    BY <1>2 DEF Recurs
  <2>2. ASSUME NEW i \in 1..n PROVE f[i] = f[i - 1] + Size(s[i])
    <3>1. i - 1 \in 0..n
      BY <1>0
    <3>2. f[i - 1] \in Int
      BY <2>1, <3>1
    <3>3. \A x \in Int : G[i][x] = x + Size(s[i])
      OBVIOUS
    <3> HIDE DEF G, n
    <3> QED BY <2>1, <3>2, <3>3
  <2> QED BY <2>1, <2>2
<1>4. f = K(f)
  <2>1. \A i \in 0..n : f[i] = K(f)[i]
    BY <1>0, <1>3
  <2>2. f = [i \in 0..n |-> f[i]]
    BY <1>3
  <2> HIDE DEF n
  <2> QED BY <2>1, <2>2
<1>5. size = K(size)
  BY <1>4
<1>6. SizeOf(s) = size[n]
  BY DEF SizeOf
<1> HIDE DEF size
<1>7. \A i \in 0..n : size[i] = IF i = 0 THEN 0 ELSE size[i - 1] + Size(s[i])
  <2>1. \A i \in 0..n : size[i] = K(size)[i]
    BY <1>5
  <2> QED BY <2>1
<1>8. size[0] = 0 /\ \A i \in 1..n : size[i] = size[i - 1] + Size(s[i])
  <2>1. 0 \in 0..n /\ \A i \in 1..n : i \in 0..n /\ i # 0
    BY <1>0
  <2> HIDE DEF n
  <2> QED BY <2>1, <1>7, Zenon
<1> QED BY <1>6, <1>8

\* Pieces next to each other begin and end within what they cover.
LEMMA ChainedWithin ==
    ASSUME NEW s, NEW a \in Nat, NEW b \in Nat, Chained(s, a, b)
    PROVE  \A i \in 1..Len(s) : /\ s[i] \in Spans /\ s[i][1] \in Nat /\ s[i][2] \in Nat
                                /\ a <= s[i][1] /\ s[i][1] <= s[i][2] /\ s[i][2] <= b
<1> DEFINE n == Len(s)
<1>1. /\ n \in Nat \ {0} /\ s[1][1] = a /\ s[n][2] = b
      /\ \A i \in 1..n : s[i] \in Spans /\ s[i][1] \in Nat /\ s[i][2] \in Nat /\ s[i][1] <= s[i][2]
      /\ \A i \in 1..(n - 1) : s[i + 1][1] = s[i][2] + 1
  BY DEF Chained, Spans
<1> HIDE DEF n
<1> DEFINE T == {i \in Nat : i + 1 <= n => a <= s[i + 1][1]}
           U == {i \in Nat : i + 1 <= n => s[n - i][2] <= b}
<1>2. 0 \in T /\ 0 \in U
  BY <1>1
<1>3. ASSUME NEW i \in Nat, i \in T PROVE i + 1 \in T
  <2> SUFFICES ASSUME (i + 1) + 1 <= n PROVE a <= s[(i + 1) + 1][1]
    OBVIOUS
  <2>1. i + 1 \in 1..(n - 1) /\ i + 1 \in 1..n
    BY <1>1
  <2>2. s[(i + 1) + 1][1] = s[i + 1][2] + 1 /\ a <= s[i + 1][1] /\ s[i + 1][1] <= s[i + 1][2]
    BY <2>1, <1>1, <1>3
  <2>3. s[i + 1][1] \in Nat /\ s[i + 1][2] \in Nat
    BY <2>1, <1>1
  <2> QED BY <2>2, <2>3
<1>4. ASSUME NEW i \in Nat, i \in U PROVE i + 1 \in U
  <2> SUFFICES ASSUME (i + 1) + 1 <= n PROVE s[n - (i + 1)][2] <= b
    OBVIOUS
  <2> DEFINE j == n - (i + 1)
  <2>1. j \in 1..(n - 1) /\ j \in 1..n /\ j + 1 \in 1..n /\ j + 1 = n - i
    BY <1>1
  <2> HIDE DEF j
  <2>2. s[j + 1][1] = s[j][2] + 1 /\ s[j + 1][2] <= b /\ s[j + 1][1] <= s[j + 1][2]
    BY <2>1, <1>1, <1>4
  <2>3. s[j + 1][1] \in Nat /\ s[j + 1][2] \in Nat /\ s[j][2] \in Nat
    BY <2>1, <1>1
  <2>4. s[j][2] <= b
    BY <2>2, <2>3
  <2> QED BY <2>4 DEF j
<1> HIDE DEF T, U
<1>5. (\A i \in Nat : i \in T) /\ (\A i \in Nat : i \in U)
  BY <1>2, <1>3, <1>4, Induct
<1>6. ASSUME NEW i \in 1..n PROVE a <= s[i][1] /\ s[i][2] <= b
  <2>1. i - 1 \in T /\ (i - 1) + 1 = i /\ n - i \in U /\ n - (n - i) = i
    BY <1>1, <1>5
  <2> QED BY <2>1, <1>1 DEF T, U
<1> QED BY <1>1, <1>6 DEF n

\* The size of pieces next to each other is that of what they cover.
LEMMA SizeChained ==
    ASSUME NEW s, NEW a \in Nat, NEW b \in Nat, Chained(s, a, b)
    PROVE  SizeOf(s) = b - a + 1
<1> DEFINE n == Len(s)
<1>1. s \in Seq(Spans) /\ n \in Nat \ {0} /\ s[1][1] = a /\ s[n][2] = b
      /\ \A i \in 1..(n - 1) : s[i + 1][1] = s[i][2] + 1
  BY DEF Chained
<1>2. \A i \in 1..n : s[i][1] \in Nat /\ s[i][2] \in Nat
  BY ChainedWithin
<1>3. PICK size : /\ SizeOf(s) = size[Len(s)]
                  /\ size[0] = 0
                  /\ \A i \in 1..Len(s) : size[i] = size[i - 1] + Size(s[i])
  BY <1>1, SizeUnfolds
<1> DEFINE T == {i \in Nat : i + 1 <= n => size[i + 1] = s[i + 1][2] - a + 1}
<1>4. 0 \in T
  <2>1. 1 \in 1..n /\ 1 - 1 = 0
    BY <1>1
  <2>2. size[1] = 0 + Size(s[1])
    BY <2>1, <1>3
  <2>3. Size(s[1]) = s[1][2] - a + 1 /\ s[1][2] \in Nat
    BY <2>1, <1>1, <1>2 DEF Size
  <2> QED BY <2>2, <2>3
<1>5. ASSUME NEW i \in Nat, i \in T PROVE i + 1 \in T
  <2> SUFFICES ASSUME (i + 1) + 1 <= n PROVE size[(i + 1) + 1] = s[(i + 1) + 1][2] - a + 1
    OBVIOUS
  <2> DEFINE j == i + 1
  <2> HIDE DEF n
  <2>1. j \in 1..(n - 1) /\ j \in 1..n /\ j + 1 \in 1..n /\ (j + 1) - 1 = j
    BY <1>1
  <2>2. size[j] = s[j][2] - a + 1
    BY <2>1, <1>5
  <2> HIDE DEF j
  <2>3. size[j + 1] = size[j] + Size(s[j + 1])
    BY <2>1, <1>3 DEF n
  <2>4. Size(s[j + 1]) = s[j + 1][2] - s[j + 1][1] + 1 /\ s[j + 1][1] = s[j][2] + 1
    BY <2>1, <1>1 DEF Size
  <2>5. s[j + 1][1] \in Nat /\ s[j + 1][2] \in Nat /\ s[j][2] \in Nat
    BY <2>1, <1>2
  <2>6. size[j + 1] = s[j + 1][2] - a + 1
    BY <2>2, <2>3, <2>4, <2>5
  <2> QED BY <2>6 DEF j
<1> HIDE DEF T, n
<1>6. n - 1 \in T /\ (n - 1) + 1 = n
  <2>1. \A i \in Nat : i \in T
    BY <1>4, <1>5, Induct
  <2> QED BY <1>1, <2>1
<1> QED BY <1>1, <1>3, <1>6 DEF T, n

LastOf(s, k) == SubSeq(s, Len(s) - k + 1, Len(s))

\* The overlap of any pieces are the last of them.
LEMMA TailOf ==
    ASSUME NEW s \in Seq(Spans), NEW overlap \in Nat
    PROVE  \E k \in 0..Len(s) : OverlapTail(s, overlap) = LastOf(s, k) /\ SizeOf(LastOf(s, k)) <= overlap
<1> DEFINE K == {k \in 0..Len(s) : SizeOf(LastOf(s, k)) <= overlap}
           n == Len(s)
<1>1. n \in Nat
  OBVIOUS
<1>2. LastOf(s, 0) = <<>>
  BY <1>1 DEF LastOf
<1>3. <<>> \in Seq(Spans) /\ Len(<<>>) = 0
  OBVIOUS
<1>4. SizeOf(<<>>) = 0
  <2>1. PICK size : SizeOf(<<>>) = size[Len(<<>>)] /\ size[0] = 0
    BY <1>3, SizeUnfolds
  <2> QED BY <2>1
<1>5. 0 \in K
  BY <1>1, <1>2, <1>4
<1>6. K \in SUBSET (0..n)
  OBVIOUS
<1>7. OverlapTail(s, overlap) = LastOf(s, Max(K))
  BY DEF OverlapTail, LastOf
<1> HIDE DEF K
<1>8. Max(K) \in K
  BY <1>1, <1>5, <1>6, LargestIn
<1> QED BY <1>7, <1>8 DEF K

\* The last of some pieces are pieces.
LEMMA LastTyped ==
    ASSUME NEW s \in Seq(Spans), NEW k \in 0..Len(s)
    PROVE  /\ LastOf(s, k) \in Seq(Spans) /\ Len(LastOf(s, k)) = k
           /\ \A i \in 1..k : LastOf(s, k)[i] = s[Len(s) - k + i]
<1> DEFINE m == Len(s) - k + 1
           n == Len(s)
<1>1. m \in 1..(n + 1) /\ n \in Nat /\ n - m + 1 = k /\ \A i \in 1..k : m + i - 1 = n - k + i
  OBVIOUS
<1>2. SubSeq(s, m, n) \in Seq(Spans) /\ Len(SubSeq(s, m, n)) = IF m <= n THEN n - m + 1 ELSE 0
  <2>1. m \in Int /\ n \in Int /\ \A i \in m..n : i \in 1..n
    BY <1>1
  <2>2. \A i \in 1..n : s[i] \in Spans
    OBVIOUS
  <2> HIDE DEF m, n
  <2> QED BY <2>1, <2>2, <1>1
<1>3. \A i \in 1..k : SubSeq(s, m, n)[i] = s[m + i - 1]
  <2> HIDE DEF m, n
  <2> QED BY <1>1, <1>2
<1>4. LastOf(s, k) = SubSeq(s, m, n)
  BY DEF LastOf
<1> HIDE DEF m, n
<1>5. Len(SubSeq(s, m, n)) = k
  BY <1>1, <1>2
<1>6. \A i \in 1..k : LastOf(s, k)[i] = s[n - k + i]
  BY <1>1, <1>3, <1>4
<1> QED BY <1>2, <1>4, <1>5, <1>6 DEF n

\* The overlap of pieces next to each other is nothing, or the last of them next to each
\* other, and no larger than it may be.
LEMMA TailChained ==
    ASSUME NEW s, NEW a \in Nat, NEW b \in Nat, Chained(s, a, b), NEW overlap \in Nat
    PROVE  \/ OverlapTail(s, overlap) = <<>>
           \/ \E c \in a..b : Chained(OverlapTail(s, overlap), c, b) /\ b - c + 1 <= overlap
<1> DEFINE n == Len(s)
<1>1. s \in Seq(Spans) /\ n \in Nat \ {0}
  BY DEF Chained
<1>2. PICK k \in 0..n : OverlapTail(s, overlap) = LastOf(s, k) /\ SizeOf(LastOf(s, k)) <= overlap
  BY <1>1, TailOf
<1> DEFINE t == LastOf(s, k)
<1>3. t \in Seq(Spans) /\ Len(t) = k /\ \A i \in 1..k : t[i] = s[n - k + i]
  BY <1>1, LastTyped
<1> HIDE DEF t, n
<1>4. CASE k = 0
  <2>1. t = <<>>
    BY <1>3, <1>4
  <2> QED BY <2>1, <1>2 DEF t
<1>5. CASE k # 0
  <2> DEFINE c == s[n - k + 1][1]
  <2>1. k \in 1..n /\ k \in Nat /\ 1 \in 1..k /\ n - k + 1 \in 1..n /\ n - k + k = n
    BY <1>1, <1>5
  <2>2. \A i \in 1..n : /\ s[i] \in Spans /\ s[i][1] \in Nat /\ s[i][2] \in Nat
                        /\ a <= s[i][1] /\ s[i][1] <= s[i][2] /\ s[i][2] <= b
    BY ChainedWithin DEF n
  <2>3. c \in a..b /\ c \in Nat
    <3>1. s[n - k + 1][1] \in Nat /\ a <= s[n - k + 1][1] /\ s[n - k + 1][1] <= s[n - k + 1][2]
            /\ s[n - k + 1][2] <= b /\ s[n - k + 1][2] \in Nat
      BY <2>1, <2>2
    <3> QED BY <3>1
  <2>4. t[1][1] = c /\ t[k][2] = b
    <3>1. s[n][2] = b
      BY DEF Chained, n
    <3> QED BY <3>1, <2>1, <1>3
  <2>5. ASSUME NEW i \in 1..k PROVE t[i][1] <= t[i][2]
    <3>1. n - k + i \in 1..n
      BY <2>1, <1>1
    <3> QED BY <3>1, <2>2, <1>3
  <2>6. ASSUME NEW i \in 1..(k - 1) PROVE t[i + 1][1] = t[i][2] + 1
    <3> DEFINE j == n - k + i
    <3>1. j \in 1..(n - 1) /\ i \in 1..k /\ i + 1 \in 1..k /\ n - k + (i + 1) = j + 1
      BY <2>1, <1>1
    <3>2. t[i] = s[j] /\ t[i + 1] = s[j + 1]
      BY <3>1, <1>3
    <3> HIDE DEF j
    <3>3. s[j + 1][1] = s[j][2] + 1
      BY <3>1 DEF Chained, n
    <3> QED BY <3>2, <3>3
  <2> HIDE DEF c
  <2>7. Chained(t, c, b)
    BY <2>1, <2>4, <2>5, <2>6, <1>3 DEF Chained
  <2>8. SizeOf(t) = b - c + 1
    BY <2>3, <2>7, SizeChained
  <2>9. b - c + 1 <= overlap
    BY <2>8, <1>2 DEF t
  <2> QED BY <2>3, <2>7, <2>9, <1>2 DEF t
<1> QED BY <1>4, <1>5

From(s) == s[1][1]

Till(s) == s[Len(s)][2]

\* A chunk is of pieces next to each other, and outgrows the bound by the overlap at most.
IsChunk(s, maxTokens, overlap) ==
    /\ From(s) \in Nat /\ Till(s) \in Nat /\ Chained(s, From(s), Till(s))
    /\ Till(s) - From(s) + 1 <= maxTokens + overlap

\* A chunk goes on where the one before ended, or within its tail.
GoesOn(s, t, overlap) ==
    /\ From(s) <= From(t) /\ Till(s) < Till(t)
    /\ From(t) <= Till(s) + 1 /\ Till(s) + 1 - From(t) <= overlap

\* Chunks that cover the words up to one of them.
Covering(chunks, e, maxTokens, overlap) ==
    /\ chunks \in Seq(Seq(Spans)) /\ Len(chunks) >= 1
    /\ \A i \in 1..Len(chunks) : IsChunk(chunks[i], maxTokens, overlap)
    /\ From(chunks[1]) = 1 /\ Till(chunks[Len(chunks)]) = e
    /\ \A i \in 1..(Len(chunks) - 1) : GoesOn(chunks[i], chunks[i + 1], overlap)

\* One more chunk.
LEMMA CoveringMore ==
    ASSUME NEW chunks, NEW e, NEW m, NEW overlap, Covering(chunks, e, m, overlap),
           NEW s \in Seq(Spans), IsChunk(s, m, overlap), GoesOn(chunks[Len(chunks)], s, overlap)
    PROVE  Covering(Append(chunks, s), Till(s), m, overlap)
<1> DEFINE n == Len(chunks)
           X == Seq(Spans)
           t == Append(chunks, s)
<1>1. chunks \in Seq(X) /\ n \in Nat \ {0} /\ s \in X
  BY DEF Covering
<1> HIDE DEF X
<1>2. t \in Seq(X) /\ Len(t) = n + 1 /\ t[n + 1] = s /\ \A i \in 1..n : t[i] = chunks[i]
  BY <1>1
<1> HIDE DEF t
<1>3. ASSUME NEW i \in 1..(n + 1) PROVE IsChunk(t[i], m, overlap)
  <2>1. CASE i = n + 1
    BY <2>1, <1>2
  <2>2. CASE i # n + 1
    <3>1. i \in 1..n
      BY <2>2, <1>1
    <3> QED BY <3>1, <1>2 DEF Covering
  <2> QED BY <2>1, <2>2
<1>4. From(t[1]) = 1
  <2>1. 1 \in 1..n
    BY <1>1
  <2> QED BY <2>1, <1>2 DEF Covering
<1>5. ASSUME NEW i \in 1..n PROVE GoesOn(t[i], t[i + 1], overlap)
  <2>1. CASE i = n
    BY <2>1, <1>2
  <2>2. CASE i # n
    <3>1. i \in 1..(n - 1) /\ i + 1 \in 1..n
      BY <2>2, <1>1
    <3> QED BY <3>1, <1>2 DEF Covering
  <2> QED BY <2>1, <2>2
<1>6. (n + 1) - 1 = n
  BY <1>1
<1> HIDE DEF n
<1>7. Covering(t, Till(s), m, overlap)
  BY <1>1, <1>2, <1>3, <1>4, <1>5, <1>6 DEF Covering, X
<1> QED BY <1>7 DEF t

\* A longer last chunk.
LEMMA CoveringLonger ==
    ASSUME NEW chunks, NEW s \in Seq(Spans), NEW e, NEW m, NEW overlap,
           chunks \in Seq(Seq(Spans)), Covering(Append(chunks, s), e, m, overlap),
           NEW t \in Seq(Spans), IsChunk(t, m, overlap), From(t) = From(s), Till(s) < Till(t)
    PROVE  Covering(Append(chunks, t), Till(t), m, overlap)
<1> DEFINE n == Len(chunks)
           X == Seq(Spans)
           u == Append(chunks, s)
           v == Append(chunks, t)
<1>1. chunks \in Seq(X) /\ n \in Nat /\ s \in X /\ t \in X
  OBVIOUS
<1> HIDE DEF X
<1>2. /\ u \in Seq(X) /\ Len(u) = n + 1 /\ u[n + 1] = s /\ \A i \in 1..n : u[i] = chunks[i]
      /\ v \in Seq(X) /\ Len(v) = n + 1 /\ v[n + 1] = t /\ \A i \in 1..n : v[i] = chunks[i]
  BY <1>1
<1>3. Covering(u, e, m, overlap)
  OBVIOUS
<1> HIDE DEF u, v
<1>4. /\ \A i \in 1..(n + 1) : IsChunk(u[i], m, overlap)
      /\ From(u[1]) = 1
      /\ \A i \in 1..((n + 1) - 1) : GoesOn(u[i], u[i + 1], overlap)
  BY <1>2, <1>3 DEF Covering
<1>5. ASSUME NEW i \in 1..(n + 1) PROVE IsChunk(v[i], m, overlap)
  <2>1. CASE i = n + 1
    BY <2>1, <1>2
  <2>2. CASE i # n + 1
    <3>1. i \in 1..n
      BY <2>2, <1>1
    <3> QED BY <3>1, <1>2, <1>4
  <2> QED BY <2>1, <2>2
<1>6. From(v[1]) = 1
  <2>1. CASE n = 0
    BY <2>1, <1>2, <1>4
  <2>2. CASE n # 0
    <3>1. 1 \in 1..n
      BY <2>2, <1>1
    <3> QED BY <3>1, <1>2, <1>4
  <2> QED BY <2>1, <2>2
<1>7. IsChunk(s, m, overlap)
  <2>1. n + 1 \in 1..(n + 1)
    BY <1>1
  <2> QED BY <2>1, <1>2, <1>4
<1>8. ASSUME NEW i \in 1..n PROVE GoesOn(v[i], v[i + 1], overlap)
  <2>0. i \in 1..((n + 1) - 1) /\ i \in 1..(n + 1)
    BY <1>1
  <2>1. CASE i = n
    <3>1. GoesOn(u[i], s, overlap) /\ v[i] = u[i] /\ v[i + 1] = t
      BY <2>0, <2>1, <1>2, <1>4
    <3>2. Till(u[i]) \in Nat /\ Till(s) \in Nat /\ Till(t) \in Nat
      BY <2>0, <1>4, <1>7 DEF IsChunk
    <3>3. GoesOn(u[i], t, overlap)
      BY <3>1, <3>2 DEF GoesOn
    <3> QED BY <3>1, <3>3
  <2>2. CASE i # n
    <3>1. i \in 1..n /\ i + 1 \in 1..n
      BY <2>2, <1>1
    <3>2. v[i] = u[i] /\ v[i + 1] = u[i + 1]
      BY <3>1, <1>2
    <3> QED BY <2>0, <3>2, <1>4
  <2> QED BY <2>1, <2>2
<1>9. (n + 1) - 1 = n
  BY <1>1
<1> HIDE DEF n
<1>11. Len(v) >= 1
  BY <1>1, <1>2 DEF n
<1>10. Covering(v, Till(t), m, overlap)
  BY <1>2, <1>5, <1>6, <1>8, <1>9, <1>11 DEF Covering, X
<1> QED BY <1>10 DEF v

\* Pieces next to each other, which begin and end where they should.
Piled(s, a, b) == s \in Seq(Spans) /\ Chained(s, a, b) /\ From(s) = a /\ Till(s) = b

\* A single piece.
LEMMA ChainedOne ==
    ASSUME NEW p \in Spans, p[1] <= p[2]
    PROVE  Piled(<<p>>, p[1], p[2])
<1> DEFINE s == <<p>>
<1>1. s \in Seq(Spans) /\ Len(s) = 1 /\ s[1] = p
  OBVIOUS
<1> HIDE DEF s
<1>2. 1..1 = {1} /\ 1..(1 - 1) = {}
  OBVIOUS
<1>3. Chained(s, p[1], p[2])
  BY <1>1, <1>2 DEF Chained
<1>4. Piled(s, p[1], p[2])
  BY <1>1, <1>3 DEF Piled, From, Till
<1> QED BY <1>4 DEF s

\* One more piece.
LEMMA ChainedAppend ==
    ASSUME NEW s, NEW a \in Nat, NEW b \in Nat, Chained(s, a, b), NEW p \in Spans, p[1] = b + 1, p[1] <= p[2]
    PROVE  Piled(Append(s, p), a, p[2])
<1>1. s \in Seq(Spans)
  BY DEF Chained
<1>2. Append(s, p) = s \o <<p>> /\ Append(s, p) \in Seq(Spans)
  BY <1>1
<1>3. Chained(<<p>>, b + 1, p[2])
  <2>1. Piled(<<p>>, p[1], p[2])
    BY ChainedOne
  <2> QED BY <2>1 DEF Piled
<1>4. p[2] \in Nat
  BY DEF Spans
<1> DEFINE t == <<p>>
<1>5. Chained(s \o t, a, p[2])
  <2>1. Chained(t, b + 1, p[2])
    BY <1>3
  <2> HIDE DEF t
  <2> QED BY <2>1, <1>4, ChainedJoin
<1>6. Chained(Append(s, p), a, p[2])
  BY <1>2, <1>5
<1> QED BY <1>2, <1>6 DEF Chained, From, Till, Piled

\* With another piece packed, the chunks cover it.
LEMMA PackNextCovers ==
    ASSUME NEW acc, NEW e \in Nat, NEW m \in Nat, NEW overlap \in Nat,
           acc.chunks \in Seq(Seq(Spans)), acc.current \in Seq(Spans),
           Covering(Append(acc.chunks, acc.current), e, m, overlap),
           NEW p \in Spans, p[1] = e + 1, p[1] <= p[2], Size(p) <= m
    PROVE  LET next == PackNext(acc, p, m, overlap)
           IN  /\ next.chunks \in Seq(Seq(Spans)) /\ next.current \in Seq(Spans)
               /\ Covering(Append(next.chunks, next.current), p[2], m, overlap)
<1> DEFINE next == PackNext(acc, p, m, overlap)
           done == acc.chunks
           cur == acc.current
           all == Append(done, cur)
           a == From(cur)
           X == Seq(Spans)
           n == Len(done)
<1>1. done \in Seq(X) /\ cur \in X /\ n \in Nat
  OBVIOUS
<1>2. Covering(all, e, m, overlap)
  OBVIOUS
<1>3. next = IF cur # <<>> /\ SizeOf(cur) + Size(p) > m
             THEN [chunks |-> all, current |-> Append(OverlapTail(cur, overlap), p)]
             ELSE [chunks |-> done, current |-> Append(cur, p)]
  BY DEF PackNext
<1> HIDE DEF next, done, cur, X
<1>4. all \in Seq(X) /\ Len(all) = n + 1 /\ all[n + 1] = cur
  BY <1>1
<1> HIDE DEF all, n
<1>5. IsChunk(cur, m, overlap) /\ Till(cur) = e
  <2>1. n + 1 \in 1..(n + 1)
    BY <1>1
  <2> QED BY <2>1, <1>2, <1>4 DEF Covering
<1>6. a \in Nat /\ Chained(cur, a, e)
  BY <1>5 DEF IsChunk
<1>7. a <= e /\ SizeOf(cur) = e - a + 1 /\ cur # <<>>
  <2>1. Len(cur) \in Nat /\ Len(cur) >= 1 /\ cur[1][1] = a
    BY <1>1, <1>6 DEF Chained, X
  <2>2. a <= cur[1][1] /\ cur[1][1] <= cur[1][2] /\ cur[1][2] <= e /\ cur[1][2] \in Nat
    BY <2>1, <1>6, ChainedWithin
  <2>3. SizeOf(cur) = e - a + 1
    BY <1>6, SizeChained
  <2>4. cur # <<>>
    BY <2>1
  <2> QED BY <2>1, <2>2, <2>3, <2>4, <1>6
<1> HIDE DEF a
<1>8. p[1] \in Nat /\ p[2] \in Nat /\ Size(p) = p[2] - p[1] + 1
  BY DEF Spans, Size
<1>9. CASE SizeOf(cur) + Size(p) > m
  <2> DEFINE tail == OverlapTail(cur, overlap)
             new == Append(tail, p)
  <2>1. next.chunks = all /\ next.current = new
    BY <1>3, <1>7, <1>9
  <2>7. PICK c \in a..(e + 1) : Piled(new, c, p[2]) /\ e - c + 1 <= overlap
    <3>1. CASE tail = <<>>
      <4>1. new = <<p>>
        BY <3>1
      <4>2. Piled(<<p>>, p[1], p[2])
        BY ChainedOne
      <4>3. e + 1 \in a..(e + 1) /\ e - (e + 1) + 1 <= overlap
        BY <1>6, <1>7
      <4> HIDE DEF new
      <4> QED BY <4>1, <4>2, <4>3
    <3>2. CASE \E c \in a..e : Chained(tail, c, e) /\ e - c + 1 <= overlap
      <4>1. PICK c \in a..e : Chained(tail, c, e) /\ e - c + 1 <= overlap
        BY <3>2
      <4>2. c \in Nat /\ c \in a..(e + 1)
        BY <1>6
      <4> HIDE DEF tail
      <4>3. Piled(new, c, p[2])
        BY <4>1, <4>2, ChainedAppend
      <4> HIDE DEF new
      <4> QED BY <4>1, <4>2, <4>3
    <3> QED BY <3>1, <3>2, <1>6, TailChained
  <2> HIDE DEF new
  <2>2. /\ new \in X /\ Chained(new, c, p[2]) /\ From(new) = c /\ Till(new) = p[2]
        /\ e - c + 1 <= overlap
    BY <2>7 DEF Piled, X
  <2>3. c \in Nat /\ a <= c /\ c <= e + 1
    BY <1>6
  <2>4. IsChunk(new, m, overlap)
    <3>1. p[2] - c + 1 <= m + overlap
      BY <2>2, <2>3, <1>8
    <3> QED BY <3>1, <2>2, <2>3, <1>8 DEF IsChunk
  <2>5. GoesOn(cur, new, overlap)
    <3>1. From(cur) = a
      BY DEF a
    <3>2. e < p[2] /\ e + 1 - c <= overlap
      BY <2>2, <2>3, <1>8
    <3> QED BY <3>1, <3>2, <2>2, <2>3, <1>5 DEF GoesOn
  <2>6. Covering(Append(all, new), Till(new), m, overlap)
    <3>1. GoesOn(all[Len(all)], new, overlap)
      BY <2>5, <1>4
    <3> QED BY <3>1, <2>2, <2>4, <1>2, CoveringMore DEF X
  <2> QED BY <2>1, <2>2, <2>6, <1>4 DEF next, X
<1>10. CASE ~(SizeOf(cur) + Size(p) > m)
  <2> DEFINE new == Append(cur, p)
  <2>1. next.chunks = done /\ next.current = new
    BY <1>3, <1>10
  <2>2. new \in X /\ Chained(new, a, p[2]) /\ From(new) = a /\ Till(new) = p[2]
    <3>1. Piled(new, a, p[2])
      BY <1>6, ChainedAppend
    <3> HIDE DEF new
    <3> QED BY <3>1 DEF Piled, X
  <2> HIDE DEF new
  <2>3. IsChunk(new, m, overlap)
    <3>1. p[2] - a + 1 <= m + overlap
      BY <1>6, <1>7, <1>8, <1>10
    <3> QED BY <3>1, <2>2, <1>6, <1>8 DEF IsChunk
  <2>4. From(new) = From(cur) /\ Till(cur) < Till(new)
    <3>1. e < p[2]
      BY <1>8
    <3> QED BY <3>1, <2>2, <1>5 DEF a
  <2>5. Covering(Append(done, new), Till(new), m, overlap)
    BY <2>2, <2>3, <2>4, <1>1, <1>2, CoveringLonger DEF X, all
  <2> QED BY <2>1, <2>2, <2>5, <1>1 DEF next, X
<1> QED BY <1>9, <1>10

Packings == [chunks : Seq(Seq(Spans)), current : Seq(Spans)]

NothingPacked == [chunks |-> <<>>, current |-> <<>>]

\* Packing leads from chunks to chunks.
LEMMA PackNextTyped ==
    ASSUME NEW acc \in Packings, NEW p \in Spans, NEW m \in Nat, NEW overlap \in Nat
    PROVE  PackNext(acc, p, m, overlap) \in Packings
<1> DEFINE X == Seq(Spans)
           tail == OverlapTail(acc.current, overlap)
<1>1. acc.chunks \in Seq(X) /\ acc.current \in X
  BY DEF Packings
<1>2. tail \in X
  BY <1>1, TailOf, LastTyped
<1> HIDE DEF tail
<1>3. Append(tail, p) \in X /\ Append(acc.current, p) \in X
  BY <1>1, <1>2
<1> HIDE DEF X
<1>4. Append(acc.chunks, acc.current) \in Seq(X)
  BY <1>1
<1>5. PackNext(acc, p, m, overlap) \in [chunks : Seq(X), current : X]
  BY <1>1, <1>3, <1>4 DEF PackNext, tail
<1> QED BY <1>5 DEF Packings, X

\* What Pack computes, one piece after the other.
LEMMA PackUnfolds ==
    ASSUME NEW s \in Seq(Spans), NEW m \in Nat, NEW overlap \in Nat
    PROVE  \E packed : /\ Pack(s, m, overlap) = IF packed[Len(s)].current = <<>> THEN packed[Len(s)].chunks
                                                ELSE Append(packed[Len(s)].chunks, packed[Len(s)].current)
                       /\ packed[0] = NothingPacked
                       /\ \A i \in 1..Len(s) : packed[i] = PackNext(packed[i - 1], s[i], m, overlap)
<1> DEFINE n == Len(s)
           V == Packings
           G == [i \in 1..n |-> [x \in V |-> PackNext(x, s[i], m, overlap)]]
           K(g) == [i \in 0..n |-> IF i = 0 THEN NothingPacked ELSE PackNext(g[i - 1], s[i], m, overlap)]
           packed == CHOOSE g : g = K(g)
<1>0. n \in Nat /\ \A i \in 1..n : s[i] \in Spans
  OBVIOUS
<1>1. G \in [1..n -> [V -> V]]
  <2>1. \A i \in 1..n, x \in V : PackNext(x, s[i], m, overlap) \in V
    BY <1>0, PackNextTyped
  <2> HIDE DEF V, n
  <2> QED BY <2>1
<1>2. PICK f : Recurs(f, n, V, NothingPacked, G)
  <2>1. NothingPacked \in V
    BY DEF Packings, NothingPacked
  <2> HIDE DEF n, G, V
  <2> QED BY <1>0, <1>1, <2>1, SeqRecursion
<1>3. f \in [0..n -> V] /\ f[0] = NothingPacked /\ \A i \in 1..n : f[i] = PackNext(f[i - 1], s[i], m, overlap)
  <2>1. f \in [0..n -> V] /\ f[0] = NothingPacked /\ \A i \in 1..n : f[i] = G[i][f[i - 1]]
    BY <1>2 DEF Recurs
  <2>2. ASSUME NEW i \in 1..n PROVE f[i] = PackNext(f[i - 1], s[i], m, overlap)
    <3>1. i - 1 \in 0..n
      BY <1>0
    <3>3. \A x \in V : G[i][x] = PackNext(x, s[i], m, overlap)
      OBVIOUS
    <3> HIDE DEF G, n, V
    <3>2. f[i - 1] \in V
      BY <2>1, <3>1
    <3> QED BY <2>1, <3>2, <3>3
  <2> QED BY <2>1, <2>2
<1>4. f = K(f)
  <2>1. \A i \in 0..n : f[i] = K(f)[i]
    BY <1>0, <1>3
  <2>2. f = [i \in 0..n |-> f[i]]
    BY <1>3
  <2> HIDE DEF n
  <2> QED BY <2>1, <2>2
<1>5. packed = K(packed)
  BY <1>4
<1>6. Pack(s, m, overlap) = IF packed[n].current = <<>> THEN packed[n].chunks
                            ELSE Append(packed[n].chunks, packed[n].current)
  BY DEF Pack, NothingPacked
<1> HIDE DEF packed
<1>7. \A i \in 0..n : packed[i] = IF i = 0 THEN NothingPacked ELSE PackNext(packed[i - 1], s[i], m, overlap)
  <2>1. \A i \in 0..n : packed[i] = K(packed)[i]
    BY <1>5
  <2> QED BY <2>1
<1>8. packed[0] = NothingPacked /\ \A i \in 1..n : packed[i] = PackNext(packed[i - 1], s[i], m, overlap)
  <2>1. 0 \in 0..n /\ \A i \in 1..n : i \in 0..n /\ i # 0
    BY <1>0
  <2> HIDE DEF n
  <2> QED BY <2>1, <1>7, Zenon
<1> QED BY <1>6, <1>8

\* The pieces of a text, packed, cover it.
LEMMA PackCovers ==
    ASSUME NEW s, NEW b \in Nat, Chained(s, 1, b), NEW m \in Nat, NEW overlap \in Nat,
           \A i \in 1..Len(s) : Size(s[i]) <= m
    PROVE  Covering(Pack(s, m, overlap), b, m, overlap)
<1> DEFINE n == Len(s)
<1>1. s \in Seq(Spans) /\ n \in Nat \ {0} /\ s[1][1] = 1 /\ s[n][2] = b
      /\ \A i \in 1..(n - 1) : s[i + 1][1] = s[i][2] + 1
  BY DEF Chained
<1>2. \A i \in 1..n : s[i] \in Spans /\ s[i][1] \in Nat /\ s[i][2] \in Nat /\ s[i][1] <= s[i][2] /\ Size(s[i]) <= m
  BY ChainedWithin
<1>3. PICK packed : /\ Pack(s, m, overlap) = IF packed[Len(s)].current = <<>> THEN packed[Len(s)].chunks
                                             ELSE Append(packed[Len(s)].chunks, packed[Len(s)].current)
                    /\ packed[0] = NothingPacked
                    /\ \A i \in 1..Len(s) : packed[i] = PackNext(packed[i - 1], s[i], m, overlap)
  BY <1>1, PackUnfolds
<1> DEFINE Good(i) == /\ packed[i].chunks \in Seq(Seq(Spans)) /\ packed[i].current \in Seq(Spans)
                      /\ Covering(Append(packed[i].chunks, packed[i].current), s[i][2], m, overlap)
           T == {i \in Nat : i + 1 <= n => Good(i + 1)}
<1>4. 0 \in T
  <2> DEFINE p == s[1]
  <2>1. 1 \in 1..n /\ 1 - 1 = 0
    BY <1>1
  <2>2. packed[1] = PackNext(NothingPacked, p, m, overlap)
    BY <2>1, <1>3
  <2>3. packed[1].chunks = <<>> /\ packed[1].current = <<p>>
    BY <2>2 DEF PackNext, NothingPacked
  <2>4. p \in Spans /\ p[1] = 1 /\ p[2] \in Nat /\ p[1] <= p[2] /\ Size(p) <= m
    BY <2>1, <1>1, <1>2
  <2> HIDE DEF p
  <2> DEFINE one == <<p>>
             X == Seq(Spans)
  <2>5. Piled(one, 1, p[2])
    <3>1. Piled(<<p>>, p[1], p[2])
      BY <2>4, ChainedOne
    <3> QED BY <3>1, <2>4
  <2>6. one \in X /\ IsChunk(one, m, overlap) /\ From(one) = 1 /\ Till(one) = p[2]
    <3>1. p[2] - 1 + 1 <= m + overlap
      BY <2>4 DEF Size
    <3>2. one \in X /\ Chained(one, 1, p[2]) /\ From(one) = 1 /\ Till(one) = p[2]
      BY <2>5 DEF Piled
    <3> HIDE DEF one
    <3> QED BY <3>1, <3>2, <2>4 DEF IsChunk
  <2> HIDE DEF one, X
  <2> DEFINE all == <<one>>
  <2>7. all \in Seq(X) /\ Len(all) = 1 /\ all[1] = one
    BY <2>6
  <2> HIDE DEF all
  <2>8. 1..1 = {1} /\ 1..(1 - 1) = {}
    OBVIOUS
  <2>9. Covering(all, p[2], m, overlap)
    BY <2>6, <2>7, <2>8 DEF Covering, X
  <2>10. Append(packed[1].chunks, packed[1].current) = all
    BY <2>3 DEF all, one
  <2>11. packed[1].chunks \in Seq(X) /\ packed[1].current \in X
    BY <2>3, <2>6 DEF one
  <2>12. Good(1)
    BY <2>9, <2>10, <2>11 DEF X, p
  <2> QED BY <2>12
<1>5. ASSUME NEW i \in Nat, i \in T PROVE i + 1 \in T
  <2> SUFFICES ASSUME (i + 1) + 1 <= n PROVE Good((i + 1) + 1)
    OBVIOUS
  <2> DEFINE j == i + 1
  <2> HIDE DEF n
  <2>1. j \in 1..(n - 1) /\ j \in 1..n /\ j + 1 \in 1..n /\ (j + 1) - 1 = j
    BY <1>1
  <2>2. Good(j)
    BY <2>1, <1>5
  <2> HIDE DEF j
  <2>3. packed[j + 1] = PackNext(packed[j], s[j + 1], m, overlap)
    BY <2>1, <1>3 DEF n
  <2>4. s[j][2] \in Nat /\ s[j + 1] \in Spans /\ s[j + 1][1] = s[j][2] + 1 /\ s[j + 1][1] <= s[j + 1][2]
          /\ Size(s[j + 1]) <= m
    BY <2>1, <1>1, <1>2
  <2> DEFINE acc == packed[j]
             p == s[j + 1]
             e == s[j][2]
  <2>5. /\ acc.chunks \in Seq(Seq(Spans)) /\ acc.current \in Seq(Spans)
        /\ Covering(Append(acc.chunks, acc.current), e, m, overlap)
    BY <2>2
  <2>6. e \in Nat /\ p \in Spans /\ p[1] = e + 1 /\ p[1] <= p[2] /\ Size(p) <= m
    BY <2>4
  <2> HIDE DEF acc, p, e
  <2>7. LET next == PackNext(acc, p, m, overlap)
        IN  /\ next.chunks \in Seq(Seq(Spans)) /\ next.current \in Seq(Spans)
            /\ Covering(Append(next.chunks, next.current), p[2], m, overlap)
    BY <2>5, <2>6, PackNextCovers
  <2>8. Good(j + 1)
    BY <2>3, <2>7 DEF acc, p
  <2> QED BY <2>8 DEF j
<1> HIDE DEF T
<1>6. \A i \in Nat : i \in T
  BY <1>4, <1>5, Induct
<1>7. n - 1 \in T /\ (n - 1) + 1 = n
  BY <1>1, <1>6
<1>8. Good(n)
  BY <1>1, <1>7 DEF T
<1>9. packed[n].current # <<>>
  <2> DEFINE done == packed[n].chunks
             cur == packed[n].current
             X == Seq(Spans)
             all == Append(done, cur)
  <2>1. done \in Seq(X) /\ cur \in X /\ Covering(all, b, m, overlap)
    BY <1>1, <1>8
  <2> HIDE DEF done, cur, X
  <2>2. Len(all) \in Nat /\ Len(all) >= 1 /\ all[Len(all)] = cur
    BY <2>1
  <2> HIDE DEF all
  <2>3. IsChunk(cur, m, overlap)
    BY <2>1, <2>2 DEF Covering
  <2>4. Len(cur) >= 1
    BY <2>3 DEF IsChunk, Chained
  <2>5. cur # <<>>
    BY <2>4
  <2> QED BY <2>5 DEF cur
<1> QED BY <1>1, <1>3, <1>8, <1>9

\* The chunks of a text cover its words.
LEMMA ChunksAre ==
    ASSUME NEW gaps \in Gaps, NEW maxTokens \in Nat \ {0}, NEW wanted \in Nat
    PROVE  \E chunks : /\ Covering(chunks, Len(gaps) + 1, maxTokens, Min({wanted, maxTokens - 1}))
                       /\ ChunkText(gaps, maxTokens, wanted)
                            = [i \in DOMAIN chunks |-> <<From(chunks[i]), Till(chunks[i])>>]
<1> DEFINE overlap == Min({wanted, maxTokens - 1})
           N == Len(gaps) + 1
           whole == Whole(gaps)
           chunks == IF Size(whole) <= maxTokens THEN <<<<whole>>>>
                     ELSE Pack(FitPieces(gaps, maxTokens), maxTokens, overlap)
<1>1. ChunkText(gaps, maxTokens, wanted) = [i \in DOMAIN chunks |-> <<From(chunks[i]), Till(chunks[i])>>]
  BY DEF ChunkText, From, Till
<1>2. overlap \in Nat
  <2>1. maxTokens - 1 \in Nat
    OBVIOUS
  <2> QED BY <2>1, LesserIs
<1>3. N \in Nat /\ N >= 1 /\ whole \in Spans /\ whole[1] = 1 /\ whole[2] = N /\ Size(whole) = N
  BY DEF Gaps, Whole, Spans, Size
<1> HIDE DEF overlap, N, whole
<1>4. CASE Size(whole) <= maxTokens
  <2> DEFINE one == <<whole>>
             X == Seq(Spans)
  <2>1. Piled(one, 1, N)
    <3>1. Piled(<<whole>>, whole[1], whole[2])
      BY <1>3, ChainedOne
    <3> QED BY <3>1, <1>3
  <2>2. one \in X /\ Chained(one, 1, N) /\ From(one) = 1 /\ Till(one) = N
    BY <2>1 DEF Piled
  <2> HIDE DEF one, X
  <2>3. IsChunk(one, maxTokens, overlap)
    <3>1. N - 1 + 1 <= maxTokens + overlap
      BY <1>2, <1>3, <1>4
    <3> QED BY <3>1, <2>2, <1>3 DEF IsChunk
  <2> DEFINE all == <<one>>
  <2>4. all \in Seq(X) /\ Len(all) = 1 /\ all[1] = one
    BY <2>2
  <2> HIDE DEF all
  <2>5. 1..1 = {1} /\ 1..(1 - 1) = {}
    OBVIOUS
  <2>6. Covering(all, N, maxTokens, overlap)
    BY <2>2, <2>3, <2>4, <2>5 DEF Covering, X
  <2>7. chunks = all
    BY <1>4 DEF all, one
  <2> QED BY <1>1, <2>6, <2>7 DEF overlap, N
<1>5. CASE ~(Size(whole) <= maxTokens)
  <2> DEFINE s == FitPieces(gaps, maxTokens)
  <2>1. Chained(s, 1, N) /\ \A i \in 1..Len(s) : Size(s[i]) <= maxTokens
    BY PiecesFitted DEF Fitted, N
  <2> HIDE DEF s
  <2>2. Covering(Pack(s, maxTokens, overlap), N, maxTokens, overlap)
    BY <2>1, <1>2, <1>3, PackCovers
  <2>3. chunks = Pack(s, maxTokens, overlap)
    BY <1>5 DEF s
  <2> QED BY <1>1, <2>2, <2>3 DEF overlap, N
<1> QED BY <1>4, <1>5

\* The words of a text are all in its chunks, in order, and a chunk goes on where the one
\* before ended or within its tail (evidence/chunker.py: chunk_text, _pack, _overlap_tail).
THEOREM ChunksKeepEveryWord ==
    ASSUME NEW gaps \in Gaps, NEW maxTokens \in Nat \ {0}, NEW overlap \in Nat
    PROVE  ChunksCover(gaps, maxTokens, overlap)
<1> DEFINE o == Min({overlap, maxTokens - 1})
           text == ChunkText(gaps, maxTokens, overlap)
           N == Len(gaps) + 1
<1>1. PICK chunks : Covering(chunks, N, maxTokens, o)
                    /\ text = [i \in DOMAIN chunks |-> <<From(chunks[i]), Till(chunks[i])>>]
  BY ChunksAre
<1>2. o \in Nat /\ o <= overlap
  <2>1. maxTokens - 1 \in Nat
    OBVIOUS
  <2> QED BY <2>1, LesserIs
<1> HIDE DEF text, o, N
<1> DEFINE n == Len(chunks)
<1>3. n \in Nat \ {0} /\ DOMAIN chunks = 1..n
  BY <1>1 DEF Covering
<1>4. /\ \A i \in 1..n : IsChunk(chunks[i], maxTokens, o)
      /\ From(chunks[1]) = 1 /\ Till(chunks[n]) = N
      /\ \A i \in 1..(n - 1) : GoesOn(chunks[i], chunks[i + 1], o)
  BY <1>1 DEF Covering
<1> HIDE DEF n
<1>5. /\ Len(text) = n /\ DOMAIN text = 1..n
      /\ \A i \in 1..n : text[i][1] = From(chunks[i]) /\ text[i][2] = Till(chunks[i])
  BY <1>1, <1>3
<1>6. text[1][1] = 1 /\ text[n][2] = N
  <2>1. 1 \in 1..n /\ n \in 1..n
    BY <1>3
  <2> QED BY <2>1, <1>4, <1>5
<1>7. ASSUME NEW i \in 1..(n - 1)
      PROVE  LET a == text[i]  b == text[i + 1]
             IN  /\ a[1] <= b[1] /\ a[2] < b[2]
                 /\ b[1] <= a[2] + 1 /\ a[2] + 1 - b[1] <= overlap
  <2>1. i \in 1..n /\ i + 1 \in 1..n
    BY <1>3
  <2> DEFINE s == chunks[i]
             t == chunks[i + 1]
  <2>2. GoesOn(s, t, o) /\ IsChunk(s, maxTokens, o) /\ IsChunk(t, maxTokens, o)
    BY <2>1, <1>4
  <2>3. text[i][1] = From(s) /\ text[i][2] = Till(s) /\ text[i + 1][1] = From(t) /\ text[i + 1][2] = Till(t)
    BY <2>1, <1>5
  <2> HIDE DEF s, t
  <2>4. Till(s) + 1 - From(t) <= overlap
    <3>1. Till(s) \in Nat /\ From(t) \in Nat /\ Till(s) + 1 - From(t) <= o
      BY <2>2 DEF GoesOn, IsChunk
    <3> QED BY <3>1, <1>2
  <2> QED BY <2>2, <2>3, <2>4 DEF GoesOn
<1>8. ASSUME NEW i \in DOMAIN text PROVE Size(text[i]) <= maxTokens + o
  <2>1. i \in 1..n
    BY <1>5
  <2> QED BY <2>1, <1>4, <1>5 DEF IsChunk, Size
<1> QED
  BY <1>5, <1>6, <1>7, <1>8 DEF ChunksCover, text, o, N

\* Whatever text is written and whatever the bounds are, chunking keeps every word and
\* only cuts what is too large (evidence/chunker.py).
THEOREM TextIsKept == Reading => []TextKept
<1>1. WrittenInv => TextKept
  <2> SUFFICES ASSUME WrittenInv, kind = "text", NEW b \in Bounds
               PROVE  ChunksCover(source, b[1], b[2]) /\ CutsOnlyWhatIsTooLarge(source, b[1])
    BY DEF TextKept
  <2>1. source \in Gaps
    BY DEF WrittenInv, Pieces, Gaps
  <2>2. b[1] \in Nat \ {0} /\ b[2] \in Nat
    BY BoundsAssumption
  <2> DEFINE m == b[1]
             o == b[2]
  <2>3. m \in Nat \ {0} /\ o \in Nat
    BY <2>2
  <2> HIDE DEF m, o
  <2>4. ChunksCover(source, m, o) /\ CutsOnlyWhatIsTooLarge(source, m)
    BY <2>1, <2>3, ChunksKeepEveryWord, CutsAreNeeded
  <2> QED BY <2>4 DEF m, o
<1> QED
  BY <1>1, WrittenStart, WrittenStep, PTL DEF Reading

-----------------------------------------------------------------------------
(* The tokens and the language of a text *)

\* The tokens of a run of some characters are made of those characters.
LEMMA RunTokensTyped ==
    ASSUME NEW X, NEW run \in Seq(X), NEW script
    PROVE  RunTokens(run, script) \in Seq(Seq(X))
<1>1. CASE run = <<>> \/ script = "unknown"
  BY <1>1 DEF RunTokens
<1>2. CASE ~(run = <<>> \/ script = "unknown")
  <2>1. CASE script \in Continuous /\ Len(run) > 1
    <3> DEFINE n == Len(run) - 1
               pairs == [i \in 1..n |-> <<run[i], run[i + 1]>>]
    <3>1. n \in Nat /\ \A i \in 1..n : run[i] \in X /\ run[i + 1] \in X
      BY <2>1
    <3>2. RunTokens(run, script) = pairs
      BY <1>2, <2>1 DEF RunTokens
    <3> HIDE DEF n
    <3>3. \A i \in 1..n : <<run[i], run[i + 1]>> \in Seq(X)
      BY <3>1
    <3>4. pairs \in Seq(Seq(X))
      <4> DEFINE S == Seq(X)
      <4>1. \A i \in 1..n : <<run[i], run[i + 1]>> \in S
        BY <3>3
      <4> HIDE DEF S
      <4>2. pairs \in Seq(S)
        BY <3>1, <4>1
      <4> QED BY <4>2 DEF S
    <3> QED BY <3>2, <3>4
  <2>2. CASE ~(script \in Continuous /\ Len(run) > 1)
    <3>1. RunTokens(run, script) = <<run>>
      BY <1>2, <2>2 DEF RunTokens
    <3> QED BY <3>1
  <2> QED BY <2>1, <2>2
<1> QED BY <1>1, <1>2

ScriptsOf(X) == {ScriptOf[c] : c \in X} \cup {"common"}

\* What a scan of some characters may have got to.
ScanStates(X) == [out : Seq(Seq(X)), run : Seq(X), script : ScriptsOf(X)]

\* A scan starts, and goes on, with what a scan may get to.
LEMMA ScanTyped ==
    ASSUME NEW X, NEW s \in ScanStates(X), NEW c \in X
    PROVE  /\ NoRun \in ScanStates(X) /\ Flushed(s) \in ScanStates(X)
           /\ Extended(s, c) \in ScanStates(X) /\ Extended(Flushed(s), c) \in ScanStates(X)
           /\ Scan(s, c) \in ScanStates(X)
<1>1. ScriptOf[c] \in ScriptsOf(X) /\ "common" \in ScriptsOf(X)
  BY DEF ScriptsOf
<1>2. ASSUME NEW t \in ScanStates(X) PROVE Extended(t, c) \in ScanStates(X)
  BY <1>1 DEF ScanStates, Extended
<1>3. NoRun \in ScanStates(X)
  BY <1>1 DEF NoRun, ScanStates
<1>4. Flushed(s) \in ScanStates(X)
  <2>1. s.out \in Seq(Seq(X)) /\ s.run \in Seq(X)
    BY DEF ScanStates
  <2>2. RunTokens(s.run, s.script) \in Seq(Seq(X))
    BY <2>1, RunTokensTyped
  <2>3. s.out \o RunTokens(s.run, s.script) \in Seq(Seq(X))
    BY <2>1, <2>2, ConcatProperties
  <2> QED BY <1>1, <2>3 DEF Flushed, ScanStates
<1> QED BY <1>2, <1>3, <1>4 DEF Scan

\* The run of a scan over the characters.
Scans(f, X, chars) ==
    /\ f \in [0..Len(chars) -> ScanStates(X)] /\ f[0] = NoRun
    /\ \A i \in 1..Len(chars) : f[i] = Scan(f[i - 1], chars[i])

\* What Scanned computes, character by character.
LEMMA ScannedUnfolds ==
    ASSUME NEW X, NEW chars \in Seq(X)
    PROVE  \E f : Scans(f, X, chars) /\ Scanned(chars) = Flushed(f[Len(chars)]).out
<1> DEFINE n == Len(chars)
           V == ScanStates(X)
           G == [i \in 1..n |-> [x \in V |-> Scan(x, chars[i])]]
           K(g) == [i \in 0..n |-> IF i = 0 THEN NoRun ELSE Scan(g[i - 1], chars[i])]
           scan == CHOOSE g : g = K(g)
<1>0. n \in Nat /\ \A i \in 1..n : chars[i] \in X
  OBVIOUS
<1>1. G \in [1..n -> [V -> V]] /\ NoRun \in V
  <2>1. \A i \in 1..n : \A x \in V : Scan(x, chars[i]) \in V
    BY <1>0, ScanTyped
  <2>2. NoRun \in V
    BY DEF NoRun, ScanStates, ScriptsOf
  <2> HIDE DEF n, V
  <2> QED BY <2>1, <2>2
<1>2. PICK f : Recurs(f, n, V, NoRun, G)
  <2> HIDE DEF n, V, G
  <2> QED BY <1>0, <1>1, SeqRecursion
<1>3. /\ f \in [0..n -> V] /\ f[0] = NoRun
      /\ \A i \in 1..n : f[i] = Scan(f[i - 1], chars[i])
  <2>1. f \in [0..n -> V] /\ f[0] = NoRun /\ \A i \in 1..n : f[i] = G[i][f[i - 1]]
    BY <1>2 DEF Recurs
  <2>2. ASSUME NEW i \in 1..n PROVE f[i] = Scan(f[i - 1], chars[i])
    <3>1. \A x \in V : G[i][x] = Scan(x, chars[i])
      OBVIOUS
    <3>2. i - 1 \in 0..n
      BY <1>0
    <3> HIDE DEF V, n, G
    <3>3. f[i - 1] \in V /\ f[i] = G[i][f[i - 1]]
      BY <3>2, <2>1
    <3> QED BY <3>1, <3>3
  <2> QED BY <2>1, <2>2
<1>4. f = K(f)
  <2> HIDE DEF V
  <2>1. \A i \in 0..n : f[i] = K(f)[i]
    BY <1>0, <1>3
  <2>2. f = [i \in 0..n |-> f[i]]
    BY <1>3
  <2> QED BY <2>1, <2>2
<1>5. scan = K(scan)
  BY <1>4
<1>6. Scanned(chars) = Flushed(scan[Len(chars)]).out
  BY DEF Scanned
<1>7. scan[0] = NoRun /\ \A i \in 1..n : scan[i] = Scan(scan[i - 1], chars[i])
  <2> HIDE DEF scan
  <2>1. \A i \in 0..n : scan[i] = K(scan)[i]
    BY <1>5
  <2> QED BY <1>0, <2>1
<1> HIDE DEF scan
<1> DEFINE T == {i \in Nat : i <= n => scan[i] = f[i]}
<1>8. 0 \in T
  BY <1>3, <1>7
<1>9. ASSUME NEW i \in Nat, i \in T PROVE i + 1 \in T
  <2> SUFFICES ASSUME i + 1 <= n PROVE scan[i + 1] = f[i + 1]
    OBVIOUS
  <2>1. i + 1 \in 1..n /\ (i + 1) - 1 = i /\ scan[i] = f[i]
    BY <1>0, <1>9
  <2> HIDE DEF V, n
  <2> QED BY <2>1, <1>3, <1>7
<1> HIDE DEF T
<1>10. \A i \in Nat : i \in T
  BY <1>8, <1>9, Induct
<1>11. scan[Len(chars)] = f[Len(chars)]
  BY <1>0, <1>10 DEF T
<1>12. Scans(f, X, chars)
  BY <1>3 DEF Scans
<1> QED BY <1>6, <1>11, <1>12

\* Two sequences with the same elements are one.
LEMMA SameSeq ==
    ASSUME NEW Y, NEW s \in Seq(Y), NEW t \in Seq(Y), Len(s) = Len(t), \A i \in 1..Len(s) : s[i] = t[i]
    PROVE  s = t
<1>1. s = [i \in 1..Len(s) |-> s[i]] /\ t = [i \in 1..Len(t) |-> t[i]]
  OBVIOUS
<1> QED BY <1>1

\* The pairs of neighbours.
Neighbours(run) == [i \in 1..(Len(run) - 1) |-> <<run[i], run[i + 1]>>]

\* They are pairs of the characters.
LEMMA NeighboursTyped ==
    ASSUME NEW X, NEW run \in Seq(X), Len(run) >= 1
    PROVE  Neighbours(run) \in Seq(Seq(X)) /\ Len(Neighbours(run)) = Len(run) - 1
<1> DEFINE n == Len(run) - 1
           S == Seq(X)
<1>1. n \in Nat /\ \A i \in 1..n : <<run[i], run[i + 1]>> \in S
  OBVIOUS
<1>2. Neighbours(run) = [i \in 1..n |-> <<run[i], run[i + 1]>>]
  BY DEF Neighbours
<1> HIDE DEF n, S
<1>3. [i \in 1..n |-> <<run[i], run[i + 1]>>] \in Seq(S) /\ Len([i \in 1..n |-> <<run[i], run[i + 1]>>]) = n
  BY <1>1
<1> QED BY <1>2, <1>3 DEF n, S

\* What is a run of a spaceless script tokenized to.
LEMMA SpacelessTokens ==
    ASSUME NEW X, NEW run \in Seq(X), Len(run) >= 2, NEW script \in Continuous
    PROVE  RunTokens(run, script) = Neighbours(run)
<1>1. run # <<>> /\ script # "unknown" /\ Len(run) > 1
  BY LanguageAssumption
<1> QED BY <1>1 DEF RunTokens, Neighbours

\* The pairs of a longer run end with those of its end.
LEMMA NeighboursAtEnd ==
    ASSUME NEW X, NEW r \in Seq(X), NEW q \in Seq(X), Len(q) >= 1
    PROVE  \E T \in Seq(Seq(X)) : Neighbours(r \o q) = T \o Neighbours(q)
<1> DEFINE x == r \o q
           T == [i \in 1..Len(r) |-> <<x[i], x[i + 1]>>]
           n == Len(r)
           m == Len(q) - 1
<1>1. /\ x \in Seq(X) /\ Len(x) = n + m + 1 /\ n \in Nat /\ m \in Nat
      /\ \A i \in 1..(n + m + 1) : x[i] = IF i <= n THEN r[i] ELSE q[i - n]
  BY ConcatProperties
<1>2. \A i \in 1..n : <<x[i], x[i + 1]>> \in Seq(X)
  <2> HIDE DEF x, n, m
  <2>1. \A i \in 1..(n + m + 1) : x[i] \in X
    BY <1>1
  <2> QED BY <1>1, <2>1
<1>3. T \in Seq(Seq(X)) /\ Len(T) = n
  <2> DEFINE S == Seq(X)
  <2> HIDE DEF S, x
  <2>1. \A i \in 1..n : <<x[i], x[i + 1]>> \in S
    BY <1>2 DEF S
  <2>2. T = [i \in 1..n |-> <<x[i], x[i + 1]>>]
    OBVIOUS
  <2> HIDE DEF n, T
  <2>3. T \in Seq(S) /\ Len(T) = n
    BY <1>1, <2>1, <2>2
  <2> QED BY <2>3 DEF S
<1>4. Neighbours(q) \in Seq(Seq(X)) /\ Len(Neighbours(q)) = m /\ Neighbours(x) \in Seq(Seq(X)) /\ Len(Neighbours(x)) = n + m
  <2> HIDE DEF x
  <2> QED BY <1>1, NeighboursTyped
<1>5. /\ T \o Neighbours(q) \in Seq(Seq(X)) /\ Len(T \o Neighbours(q)) = n + m
      /\ \A i \in 1..(n + m) : (T \o Neighbours(q))[i] = IF i <= n THEN T[i] ELSE Neighbours(q)[i - n]
  <2> DEFINE S == Seq(X)
             P == Neighbours(q)
  <2>1. T \in Seq(S) /\ P \in Seq(S) /\ Len(T) = n /\ Len(P) = m
    BY <1>3, <1>4
  <2> HIDE DEF S, T, P, n, m
  <2> QED BY <2>1, ConcatProperties DEF S, P
<1>6. ASSUME NEW i \in 1..(n + m) PROVE Neighbours(x)[i] = (T \o Neighbours(q))[i]
  <2>1. Neighbours(x)[i] = <<x[i], x[i + 1]>>
    <3> HIDE DEF x, n, m
    <3>1. i \in 1..(Len(x) - 1)
      BY <1>1
    <3> QED BY <3>1 DEF Neighbours
  <2>2. CASE i <= n
    <3>1. i \in 1..Len(r)
      BY <2>2
    <3>2. T[i] = <<x[i], x[i + 1]>>
      BY <3>1
    <3> QED BY <1>5, <2>1, <2>2, <3>2
  <2>3. CASE ~(i <= n)
    <3> HIDE DEF x, n, m, T
    <3>1. /\ i - n \in 1..m /\ x[i] = q[i - n] /\ x[i + 1] = q[(i - n) + 1]
      <4>1. i \in 1..(n + m + 1) /\ i + 1 \in 1..(n + m + 1) /\ ~(i + 1 <= n) /\ (i + 1) - n = (i - n) + 1
        BY <1>1, <2>3
      <4>2. x[i] = q[i - n] /\ x[i + 1] = q[(i + 1) - n]
        BY <1>1, <2>3, <4>1
      <4> QED BY <1>1, <2>3, <4>1, <4>2
    <3>2. i - n \in 1..(Len(q) - 1)
      BY <3>1 DEF m
    <3>3. Neighbours(q)[i - n] = <<q[i - n], q[(i - n) + 1]>>
      BY <3>2 DEF Neighbours
    <3> QED BY <1>5, <2>1, <2>3, <3>1, <3>3
  <2> QED BY <2>2, <2>3
<1>7. Neighbours(x) = T \o Neighbours(q)
  <2> DEFINE S == Seq(X)
             a == Neighbours(x)
             b == T \o Neighbours(q)
  <2>1. a \in Seq(S) /\ b \in Seq(S) /\ Len(a) = n + m /\ Len(b) = n + m /\ \A i \in 1..(n + m) : a[i] = b[i]
    BY <1>4, <1>5, <1>6
  <2> HIDE DEF S, a, b, n, m
  <2>2. a = b
    BY <2>1, SameSeq
  <2> QED BY <2>2 DEF a, b
<1> HIDE DEF T
<1> QED BY <1>3, <1>7

\* The pairs of a longer run begin with those of its beginning.
LEMMA NeighboursAtStart ==
    ASSUME NEW X, NEW q \in Seq(X), NEW t \in Seq(X), Len(q) >= 1
    PROVE  \E T \in Seq(Seq(X)) : Neighbours(q \o t) = Neighbours(q) \o T
<1> DEFINE x == q \o t
           n == Len(t)
           m == Len(q) - 1
           T == [i \in 1..n |-> <<x[m + i], x[m + i + 1]>>]
<1>1. /\ x \in Seq(X) /\ Len(x) = m + n + 1 /\ n \in Nat /\ m \in Nat /\ Len(q) = m + 1
      /\ \A i \in 1..(m + 1) : x[i] = q[i]
  BY ConcatProperties
<1>2. \A i \in 1..n : <<x[m + i], x[m + i + 1]>> \in Seq(X)
  <2> HIDE DEF x, n, m
  <2>1. \A i \in 1..(m + n + 1) : x[i] \in X
    BY <1>1
  <2> QED BY <1>1, <2>1
<1>3. T \in Seq(Seq(X)) /\ Len(T) = n
  <2> DEFINE S == Seq(X)
  <2> HIDE DEF S, x, n, m
  <2>1. \A i \in 1..n : <<x[m + i], x[m + i + 1]>> \in S
    BY <1>2 DEF S
  <2>2. T = [i \in 1..n |-> <<x[m + i], x[m + i + 1]>>]
    OBVIOUS
  <2> DEFINE g == [i \in 1..n |-> <<x[m + i], x[m + i + 1]>>]
  <2>3. \A i \in 1..n : g[i] \in S
    BY <2>1
  <2>4. g \in [1..n -> S]
    BY <2>3
  <2> HIDE DEF g
  <2>5. n \in Nat
    BY <1>1
  <2>6. g \in Seq(S) /\ Len(g) = n
    BY <2>4, <2>5
  <2>7. T = g
    BY <2>2 DEF g
  <2> QED BY <2>6, <2>7 DEF S
<1>4. Neighbours(q) \in Seq(Seq(X)) /\ Len(Neighbours(q)) = m /\ Neighbours(x) \in Seq(Seq(X)) /\ Len(Neighbours(x)) = m + n
  <2>1. Len(x) >= 1
    BY <1>1
  <2> HIDE DEF x, m, n
  <2>2. Neighbours(x) \in Seq(Seq(X)) /\ Len(Neighbours(x)) = Len(x) - 1
    BY <1>1, <2>1, NeighboursTyped
  <2>3. Neighbours(q) \in Seq(Seq(X)) /\ Len(Neighbours(q)) = Len(q) - 1
    BY NeighboursTyped
  <2> QED BY <1>1, <2>2, <2>3
<1>5. /\ Neighbours(q) \o T \in Seq(Seq(X)) /\ Len(Neighbours(q) \o T) = m + n
      /\ \A i \in 1..(m + n) : (Neighbours(q) \o T)[i] = IF i <= m THEN Neighbours(q)[i] ELSE T[i - m]
  <2> DEFINE S == Seq(X)
             P == Neighbours(q)
  <2>1. T \in Seq(S) /\ P \in Seq(S) /\ Len(T) = n /\ Len(P) = m
    BY <1>3, <1>4
  <2> HIDE DEF S, T, P, n, m
  <2> QED BY <2>1, ConcatProperties DEF S, P
<1>6. ASSUME NEW i \in 1..(m + n) PROVE Neighbours(x)[i] = (Neighbours(q) \o T)[i]
  <2> HIDE DEF x, n, m
  <2>1. Neighbours(x)[i] = <<x[i], x[i + 1]>>
    <3>1. i \in 1..(Len(x) - 1)
      BY <1>1
    <3> QED BY <3>1 DEF Neighbours
  <2>2. CASE i <= m
    <3>1. i \in 1..(Len(q) - 1) /\ i \in 1..(m + 1) /\ i + 1 \in 1..(m + 1)
      BY <1>1, <2>2
    <3>2. Neighbours(q)[i] = <<q[i], q[i + 1]>>
      BY <3>1 DEF Neighbours
    <3> QED BY <1>1, <1>5, <2>1, <2>2, <3>1, <3>2
  <2>3. CASE ~(i <= m)
    <3>1. i - m \in 1..n /\ m + (i - m) = i
      BY <1>1, <2>3
    <3>2. T[i - m] = <<x[i], x[i + 1]>>
      BY <3>1
    <3> QED BY <1>5, <2>1, <2>3, <3>2
  <2> QED BY <2>2, <2>3
<1>7. Neighbours(x) = Neighbours(q) \o T
  <2> DEFINE S == Seq(X)
             a == Neighbours(x)
             b == Neighbours(q) \o T
  <2>1. a \in Seq(S) /\ b \in Seq(S) /\ Len(a) = m + n /\ Len(b) = m + n /\ \A i \in 1..(m + n) : a[i] = b[i]
    BY <1>4, <1>5, <1>6
  <2> HIDE DEF S, a, b, n, m
  <2>2. a = b
    BY <2>1, SameSeq
  <2> QED BY <2>2 DEF a, b
<1> HIDE DEF T
<1> QED BY <1>3, <1>7

\* The scan b of a text is where the scan a of a quotation from it is: what it has put
\* out ends with what a has, and so does its run; and if its run is the longer one, a
\* has put out nothing and both are in a spaceless script.
Trails(a, b, X, P, r) ==
    /\ b.out = P \o a.out /\ b.run = r \o a.run /\ b.script = a.script
    /\ r # <<>> => a.out = <<>> /\ Len(a.run) >= 2 /\ a.script \in Continuous

Lags(a, b, X) == \E P \in Seq(Seq(X)), r \in Seq(X) : Trails(a, b, X, P, r)

\* Both are so when a word ends.
LEMMA LagsFlushed ==
    ASSUME NEW X, NEW a \in ScanStates(X), NEW b \in ScanStates(X), Lags(a, b, X)
    PROVE  Lags(Flushed(a), Flushed(b), X)
<1> DEFINE S == Seq(X)
<1>1. PICK P \in Seq(S), r \in Seq(X) : Trails(a, b, X, P, r)
  BY DEF Lags
<1>2. a.out \in Seq(S) /\ a.run \in Seq(X) /\ b.out \in Seq(S) /\ b.run \in Seq(X)
  BY DEF ScanStates
<1> DEFINE ta == RunTokens(a.run, a.script)
           tb == RunTokens(b.run, b.script)
<1>3. ta \in Seq(S) /\ tb \in Seq(S)
  BY <1>2, RunTokensTyped
<1>4. \E Q \in Seq(S) : b.out \o tb = Q \o (a.out \o ta)
  <2>1. CASE r = <<>>
    <3>1. b.run = a.run /\ tb = ta
      <4>1. <<>> \o a.run = a.run
        BY <1>2, ConcatEmptySeq
      <4> QED BY <4>1, <1>1, <2>1 DEF Trails
    <3>2. b.out = P \o a.out
      BY <1>1 DEF Trails
    <3> HIDE DEF S, ta, tb
    <3> DEFINE o == a.out
    <3>3. P \in Seq(S) /\ o \in Seq(S) /\ ta \in Seq(S)
      BY <1>1, <1>2, <1>3
    <3> HIDE DEF o
    <3>4. (P \o o) \o ta = P \o (o \o ta)
      BY <3>3, ConcatAssociative
    <3> QED BY <3>1, <3>2, <3>4 DEF o
  <2>2. CASE r # <<>>
    <3>1. a.out = <<>> /\ Len(a.run) >= 2 /\ a.script \in Continuous /\ b.script = a.script
          /\ b.out = P \o a.out /\ b.run = r \o a.run
      BY <1>1, <2>2 DEF Trails
    <3>2. ta = Neighbours(a.run)
      BY <1>2, <3>1, SpacelessTokens
    <3>3. Len(b.run) >= 2
      <4>1. Len(b.run) = Len(r) + Len(a.run)
        BY <1>2, <3>1, ConcatProperties
      <4> QED BY <4>1, <3>1, <1>2
    <3>4. tb = Neighbours(b.run)
      BY <1>2, <3>1, <3>3, SpacelessTokens
    <3>5. Len(a.run) >= 1
      BY <3>1, <1>2
    <3>6. PICK T \in Seq(S) : Neighbours(r \o a.run) = T \o Neighbours(a.run)
      BY <1>2, <3>5, NeighboursAtEnd
    <3>7. tb = T \o ta
      BY <3>1, <3>2, <3>4, <3>6
    <3> HIDE DEF S, ta, tb
    <3>8. P \o a.out = P /\ a.out \o ta = ta
      BY <1>1, <1>3, <3>1, ConcatEmptySeq
    <3>9. P \o T \in Seq(S) /\ P \o (T \o ta) = (P \o T) \o ta
      <4>1. P \in Seq(S) /\ T \in Seq(S) /\ ta \in Seq(S)
        BY <1>1, <1>3, <3>6
      <4> QED BY <4>1, ConcatAssociative, ConcatProperties
    <3>10. b.out \o tb = (P \o T) \o (a.out \o ta)
      BY <3>1, <3>7, <3>8, <3>9
    <3> QED BY <3>9, <3>10
  <2> QED BY <2>1, <2>2
<1>5. PICK Q \in Seq(S) : b.out \o tb = Q \o (a.out \o ta)
  BY <1>4
<1>6. /\ Flushed(a).out = a.out \o ta /\ Flushed(a).run = <<>> /\ Flushed(a).script = "common"
      /\ Flushed(b).out = b.out \o tb /\ Flushed(b).run = <<>> /\ Flushed(b).script = "common"
  BY DEF Flushed
<1>7. <<>> \o <<>> = <<>> /\ <<>> \in Seq(X)
  BY ConcatEmptySeq
<1> HIDE DEF ta, tb
<1>8. Trails(Flushed(a), Flushed(b), X, Q, <<>>)
  BY <1>5, <1>6, <1>7 DEF Trails
<1> QED BY <1>5, <1>7, <1>8 DEF Lags, S

\* Appending to the end of two that are joined.
LEMMA AppendJoined ==
    ASSUME NEW X, NEW c \in X
    PROVE  \A r, q \in Seq(X) : Append(r \o q, c) = r \o Append(q, c)
<1> SUFFICES ASSUME NEW r \in Seq(X), NEW q \in Seq(X)
             PROVE  Append(r \o q, c) = r \o Append(q, c)
  OBVIOUS
<1> DEFINE one == <<c>>
<1>1. Append(q, c) = q \o one
  BY AppendIsConcat
<1>2. r \o q \in Seq(X)
  BY ConcatProperties
<1>3. Append(r \o q, c) = (r \o q) \o one
  BY <1>2, AppendIsConcat
<1>4. one \in Seq(X)
  OBVIOUS
<1> HIDE DEF one
<1>5. (r \o q) \o one = r \o (q \o one)
  BY <1>4, ConcatAssociative
<1> QED BY <1>1, <1>3, <1>5

\* Both are so with another character in their runs.
LEMMA LagsExtended ==
    ASSUME NEW X, NEW a \in ScanStates(X), NEW b \in ScanStates(X), NEW c \in X, Lags(a, b, X)
    PROVE  Lags(Extended(a, c), Extended(b, c), X)
<1>1. PICK P \in Seq(Seq(X)), r \in Seq(X) : Trails(a, b, X, P, r)
  BY DEF Lags
<1>2. a.run \in Seq(X) /\ b.run \in Seq(X)
  BY DEF ScanStates
<1> DEFINE x == Extended(a, c)
           y == Extended(b, c)
<1>3. /\ x.out = a.out /\ x.run = Append(a.run, c)
      /\ x.script = IF a.script = "common" THEN ScriptOf[c] ELSE a.script
      /\ y.out = b.out /\ y.run = Append(b.run, c)
      /\ y.script = IF b.script = "common" THEN ScriptOf[c] ELSE b.script
  BY DEF Extended
<1> HIDE DEF x, y
<1>4. Append(r \o a.run, c) = r \o Append(a.run, c)
  <2> DEFINE q == a.run
  <2>1. r \in Seq(X) /\ q \in Seq(X) /\ c \in X
    BY <1>1, <1>2
  <2> HIDE DEF q
  <2>2. \A u, v \in Seq(X) : Append(u \o v, c) = u \o Append(v, c)
    BY AppendJoined
  <2>3. Append(r \o q, c) = r \o Append(q, c)
    BY <2>1, <2>2
  <2> QED BY <2>3 DEF q
<1>5. y.out = P \o x.out /\ y.run = r \o x.run /\ y.script = x.script
  BY <1>1, <1>3, <1>4 DEF Trails
<1>6. r # <<>> => x.out = <<>> /\ Len(x.run) >= 2 /\ x.script \in Continuous
  <2> SUFFICES ASSUME r # <<>> PROVE x.out = <<>> /\ Len(x.run) >= 2 /\ x.script \in Continuous
    OBVIOUS
  <2>1. a.out = <<>> /\ Len(a.run) >= 2 /\ a.script \in Continuous
    BY <1>1 DEF Trails
  <2>2. a.script # "common"
    BY <2>1, LanguageAssumption
  <2>3. Len(Append(a.run, c)) = Len(a.run) + 1 /\ Len(a.run) \in Nat
    BY <1>2, AppendProperties
  <2> QED BY <1>3, <2>1, <2>2, <2>3
<1>7. Trails(x, y, X, P, r)
  BY <1>5, <1>6 DEF Trails
<1> QED BY <1>1, <1>7 DEF Lags, x, y

\* Both are so after any other character.
LEMMA LagsScan ==
    ASSUME NEW X, NEW a \in ScanStates(X), NEW b \in ScanStates(X), NEW c \in X, Lags(a, b, X)
    PROVE  Lags(Scan(a, c), Scan(b, c), X)
<1>1. a.script = b.script
  BY DEF Lags, Trails
<1>2. Lags(Flushed(a), Flushed(b), X)
  BY LagsFlushed
<1>3. Flushed(a) \in ScanStates(X) /\ Flushed(b) \in ScanStates(X)
  BY ScanTyped
<1>4. Lags(Extended(Flushed(a), c), Extended(Flushed(b), c), X)
  BY <1>2, <1>3, LagsExtended
<1>5. Lags(Extended(a, c), Extended(b, c), X)
  BY LagsExtended
<1> QED BY <1>1, <1>2, <1>4, <1>5 DEF Scan

\* After a character of a script the scan is in a run of that script, which it began or
\* went on with.
LEMMA AfterLetter ==
    ASSUME NEW X, NEW s \in ScanStates(X), NEW c \in X, c \in WordChars, ScriptOf[c] # "common"
    PROVE  /\ Scan(s, c).script = ScriptOf[c] /\ Scan(s, c).run # <<>>
           /\ s.script \in {"common", ScriptOf[c]} => Scan(s, c) = Extended(s, c)
<1>1. ASSUME NEW t \in ScanStates(X) PROVE Extended(t, c).run # <<>>
  <2>1. t.run \in Seq(X)
    BY DEF ScanStates
  <2>2. Append(t.run, c) # <<>>
    BY <2>1, AppendProperties
  <2> QED BY <2>2 DEF Extended
<1>2. Flushed(s) \in ScanStates(X) /\ Flushed(s).script = "common"
  BY ScanTyped DEF Flushed
<1>3. CASE s.script \in {"common", ScriptOf[c]}
  <2>1. Scan(s, c) = Extended(s, c)
    BY <1>3 DEF Scan
  <2>2. Extended(s, c).script = ScriptOf[c]
    BY <1>3 DEF Extended
  <2> QED BY <1>1, <2>1, <2>2
<1>4. CASE s.script \notin {"common", ScriptOf[c]}
  <2>1. Scan(s, c) = Extended(Flushed(s), c)
    BY <1>4 DEF Scan
  <2>2. Extended(Flushed(s), c).script = ScriptOf[c]
    BY <1>2 DEF Extended
  <2> QED BY <1>1, <1>2, <1>4, <2>1, <2>2
<1> QED BY <1>3, <1>4

\* Where a word begins, a quotation may.
LEMMA FreshLags ==
    ASSUME NEW X, NEW b \in ScanStates(X), b.run = <<>>, b.script = "common"
    PROVE  Lags(NoRun, b, X)
<1>1. b.out \in Seq(Seq(X)) /\ <<>> \in Seq(X)
  BY DEF ScanStates
<1>2. b.out \o <<>> = b.out /\ <<>> \o <<>> = <<>>
  BY <1>1, ConcatEmptySeq
<1>3. Trails(NoRun, b, X, b.out, <<>>)
  BY <1>2 DEF Trails, NoRun
<1> QED BY <1>1, <1>3 DEF Lags

\* Nothing is put out for nothing.
LEMMA NothingFlushed == Flushed(NoRun) = NoRun
<1>1. RunTokens(<<>>, "common") = <<>>
  BY DEF RunTokens
<1>2. <<>> \o <<>> = <<>>
  OBVIOUS
<1> QED BY <1>1, <1>2 DEF Flushed, NoRun

\* The characters of a quotation are those of its place in the text.
Quotes(q, chars, i, X) ==
    /\ q \in Seq(X) /\ chars \in Seq(X) /\ i \in Nat /\ Len(q) >= 1 /\ i + Len(q) <= Len(chars)
    /\ \A k \in 1..Len(q) : q[k] = chars[i + k]

\* A scan of the quotation, started in step, stays in step.
LEMMA LagsOn ==
    ASSUME NEW X, NEW q, NEW chars, NEW i, Quotes(q, chars, i, X), NEW f, Scans(f, X, chars), NEW g, Scans(g, X, q),
           NEW k \in 0..Len(q), Lags(g[k], f[i + k], X)
    PROVE  Lags(g[Len(q)], f[i + Len(q)], X)
<1> DEFINE n == Len(q)
           N == Len(chars)
           V == ScanStates(X)
           L(m) == Lags(g[m], f[i + m], X)
           T == {m \in Nat : k + m <= n => L(k + m)}
<1>1. /\ n \in Nat /\ N \in Nat /\ i \in Nat /\ i + n <= N /\ k \in 0..n
      /\ \A m \in 1..n : q[m] = chars[i + m] /\ q[m] \in X
  BY DEF Quotes
<1>2. /\ \A m \in 0..n : g[m] \in V
      /\ \A m \in 1..n : g[m] = Scan(g[m - 1], q[m])
  BY DEF Scans
<1>3. /\ \A m \in 0..N : f[m] \in V
      /\ \A m \in 1..N : f[m] = Scan(f[m - 1], chars[m])
  BY DEF Scans
<1>4. 0 \in T
  <2>1. k + 0 = k
    BY <1>1
  <2>2. L(k)
    OBVIOUS
  <2> HIDE DEF L
  <2> QED BY <2>1, <2>2
<1>5. ASSUME NEW m \in Nat, m \in T PROVE m + 1 \in T
  <2> SUFFICES ASSUME k + (m + 1) <= n PROVE L(k + (m + 1))
    OBVIOUS
  <2> DEFINE x == k + m
             y == k + (m + 1)
  <2>1. y \in 1..n /\ x = y - 1 /\ x \in 0..n /\ i + y \in 1..N /\ (i + y) - 1 = i + x /\ i + x \in 0..N /\ x <= n
    BY <1>1
  <2>2. Lags(g[x], f[i + x], X)
    BY <1>5, <2>1
  <2> HIDE DEF x, y, n, N, V
  <2>3. g[x] \in V /\ f[i + x] \in V /\ q[y] \in X /\ q[y] = chars[i + y]
    BY <1>1, <1>2, <1>3, <2>1
  <2>4. g[y] = Scan(g[x], q[y]) /\ f[i + y] = Scan(f[i + x], q[y])
    BY <1>2, <1>3, <2>1, <2>3
  <2>5. Lags(Scan(g[x], q[y]), Scan(f[i + x], q[y]), X)
    BY <2>2, <2>3, LagsScan DEF V
  <2>6. L(y)
    BY <2>4, <2>5
  <2> QED BY <2>6 DEF y
<1> HIDE DEF T
<1>6. \A m \in Nat : m \in T
  BY <1>4, <1>5, Induct
<1>7. n - k \in Nat /\ k + (n - k) = n
  BY <1>1
<1>8. L(n)
  <2> HIDE DEF L, n
  <2>1. n - k \in T
    BY <1>6, <1>7
  <2> QED BY <1>1, <1>7, <2>1 DEF T
<1> QED BY <1>8

\* Inside a stretch of a spaceless script, two characters from it are enough to be in step.
LEMMA LagsInside ==
    ASSUME NEW X, NEW b \in ScanStates(X), NEW c \in X, NEW d \in X, NEW s \in Continuous,
           b.script = s, {c, d} \subseteq WordChars, ScriptOf[c] = s, ScriptOf[d] = s
    PROVE  Lags(Scan(Scan(NoRun, c), d), Scan(Scan(b, c), d), X)
<1>0. s # "common"
  BY LanguageAssumption
<1>1. NoRun \in ScanStates(X) /\ NoRun.script = "common" /\ NoRun.run = <<>> /\ NoRun.out = <<>>
  BY ScanTyped DEF NoRun
<1> DEFINE a1 == Extended(NoRun, c)
           b1 == Extended(b, c)
           a2 == Extended(a1, d)
           b2 == Extended(b1, d)
<1>2. a1 \in ScanStates(X) /\ b1 \in ScanStates(X)
  BY <1>1, ScanTyped
<1>3. a1.script = s /\ b1.script = s
  BY <1>0, <1>1 DEF Extended
<1>4. Scan(NoRun, c) = a1 /\ Scan(b, c) = b1
  BY <1>0, <1>1, AfterLetter
<1>5. Scan(a1, d) = a2 /\ Scan(b1, d) = b2
  <2> HIDE DEF a1, b1
  <2> QED BY <1>0, <1>2, <1>3, AfterLetter
<1>6. /\ a2.out = <<>> /\ a2.run = Append(Append(<<>>, c), d) /\ a2.script = s
      /\ b2.out = b.out /\ b2.run = Append(Append(b.run, c), d) /\ b2.script = s
  BY <1>0, <1>1 DEF Extended
<1> HIDE DEF a1, b1, a2, b2
<1>7. b.out \in Seq(Seq(X)) /\ b.run \in Seq(X)
  BY DEF ScanStates
<1>8. b.out \o <<>> = b.out
  BY <1>7, ConcatEmptySeq
<1>9. b2.run = b.run \o a2.run
  <2> DEFINE r == b.run
             e == <<>>
             x == Append(e, c)
  <2>1. r \in Seq(X) /\ e \in Seq(X) /\ x \in Seq(X) /\ r \o e = r
    BY <1>7, ConcatEmptySeq
  <2> HIDE DEF r, e, x
  <2>2. Append(r \o e, c) = r \o Append(e, c)
    BY <2>1, AppendJoined
  <2>3. Append(r \o x, d) = r \o Append(x, d)
    BY <2>1, AppendJoined
  <2>4. Append(Append(r, c), d) = r \o Append(x, d)
    BY <2>1, <2>2, <2>3 DEF x
  <2> QED BY <1>6, <2>4 DEF r, x, e
<1>10. Len(a2.run) >= 2
  BY <1>6
<1>11. Trails(a2, b2, X, b.out, b.run)
  BY <1>6, <1>8, <1>9, <1>10 DEF Trails
<1> QED BY <1>4, <1>5, <1>7, <1>11 DEF Lags

\* A quotation that begins beside what forms no word, or that takes two characters from
\* the stretch it begins in, is soon scanned in step with its text.
LEMMA LagStarts ==
    ASSUME NEW X, NEW q, NEW chars, NEW i, Quotes(q, chars, i, X), NEW f, Scans(f, X, chars), NEW g, Scans(g, X, q),
           CutBefore(chars, i, i + Len(q))
    PROVE  \E k \in 0..Len(q) : Lags(g[k], f[i + k], X)
<1> DEFINE n == Len(q)
           N == Len(chars)
           V == ScanStates(X)
<1>1. /\ n \in Nat /\ N \in Nat /\ i \in Nat /\ i + n <= N /\ n >= 1
      /\ \A m \in 1..n : q[m] = chars[i + m] /\ q[m] \in X
      /\ \A m \in 1..N : chars[m] \in X
  BY DEF Quotes
<1>2. /\ \A m \in 0..n : g[m] \in V
      /\ g[0] = NoRun
      /\ \A m \in 1..n : g[m] = Scan(g[m - 1], q[m])
  BY DEF Scans
<1>3. /\ \A m \in 0..N : f[m] \in V
      /\ f[0] = NoRun
      /\ \A m \in 1..N : f[m] = Scan(f[m - 1], chars[m])
  BY DEF Scans
<1>4. \/ i = 0
      \/ i # 0 /\ chars[i] \notin WordChars
      \/ chars[i + 1] \notin WordChars
      \/ i # 0 /\ i + 2 <= i + n /\ Spaceless({chars[i], chars[i + 1], chars[i + 2]})
  BY DEF CutBefore
<1>5. CASE i = 0
  <2>1. f[i + 0] = NoRun /\ g[0] = NoRun /\ NoRun \in V /\ 0 \in 0..n
    BY <1>1, <1>2, <1>3, <1>5
  <2>2. NoRun.run = <<>> /\ NoRun.script = "common"
    BY DEF NoRun
  <2>3. Lags(NoRun, NoRun, X)
    BY <2>1, <2>2, FreshLags
  <2> QED BY <2>1, <2>3
<1>6. CASE i # 0 /\ chars[i] \notin WordChars
  <2>1. i \in 1..N /\ i \in 0..N /\ i + 0 = i /\ 0 \in 0..n
    BY <1>1, <1>6
  <2>2. f[i] = Flushed(f[i - 1]) /\ f[i] \in V
    BY <1>3, <1>6, <2>1 DEF Scan
  <2>3. f[i].run = <<>> /\ f[i].script = "common"
    BY <2>2 DEF Flushed
  <2>4. Lags(NoRun, f[i], X)
    BY <2>2, <2>3, FreshLags
  <2> QED BY <1>2, <2>1, <2>4
<1>7. CASE chars[i + 1] \notin WordChars
  <2>1. i + 1 \in 1..N /\ i + 1 \in 0..N /\ 1 \in 1..n /\ 1 \in 0..n /\ (i + 1) - 1 = i /\ 1 - 1 = 0
    BY <1>1
  <2>2. f[i + 1] = Flushed(f[i]) /\ f[i + 1] \in V
    BY <1>3, <1>7, <2>1 DEF Scan
  <2>3. f[i + 1].run = <<>> /\ f[i + 1].script = "common"
    BY <2>2 DEF Flushed
  <2>4. Lags(NoRun, f[i + 1], X)
    BY <2>2, <2>3, FreshLags
  <2>5. q[1] = chars[i + 1]
    BY <1>1, <2>1
  <2>6. g[1] = Flushed(NoRun)
    BY <1>2, <1>7, <2>1, <2>5 DEF Scan
  <2> QED BY <2>1, <2>4, <2>6, NothingFlushed
<1>8. CASE i # 0 /\ i + 2 <= i + n /\ Spaceless({chars[i], chars[i + 1], chars[i + 2]})
  <2>1. PICK s \in Continuous : \A c \in {chars[i], chars[i + 1], chars[i + 2]} : c \in WordChars /\ ScriptOf[c] = s
    BY <1>8 DEF Spaceless
  <2>2. /\ i \in 1..N /\ i - 1 \in 0..N /\ i + 1 \in 1..N /\ i + 2 \in 1..N /\ i \in 0..N
        /\ (i + 1) - 1 = i /\ (i + 2) - 1 = i + 1
        /\ 1 \in 1..n /\ 2 \in 1..n /\ 2 \in 0..n /\ 1 - 1 = 0 /\ 2 - 1 = 1
    BY <1>1, <1>8
  <2> DEFINE b == f[i]
             c == chars[i + 1]
             d == chars[i + 2]
  <2>3. b \in V /\ c \in X /\ d \in X /\ chars[i] \in X /\ f[i - 1] \in V
    BY <1>1, <1>3, <2>2
  <2>4. s # "common"
    BY LanguageAssumption
  <2>5. b.script = s
    <3>1. chars[i] \in WordChars /\ ScriptOf[chars[i]] = s
      BY <2>1
    <3>2. Scan(f[i - 1], chars[i]).script = s
      BY <2>3, <2>4, <3>1, AfterLetter DEF V
    <3> QED BY <1>3, <2>2, <3>2
  <2>6. q[1] = c /\ q[2] = d
    BY <1>1, <2>2
  <2>7. g[2] = Scan(Scan(NoRun, c), d) /\ f[i + 2] = Scan(Scan(b, c), d)
    <3> HIDE DEF n, N, V
    <3>1. g[1] = Scan(NoRun, c)
      BY <1>2, <2>2, <2>6
    <3>2. g[2] = Scan(g[1], d)
      BY <1>2, <2>2, <2>6
    <3>3. f[i + 1] = Scan(b, c)
      BY <1>3, <2>2
    <3>4. f[i + 2] = Scan(f[i + 1], d)
      BY <1>3, <2>2
    <3> QED BY <3>1, <3>2, <3>3, <3>4
  <2>8. {c, d} \subseteq WordChars /\ ScriptOf[c] = s /\ ScriptOf[d] = s
    BY <2>1
  <2> HIDE DEF b, c, d
  <2>9. Lags(Scan(Scan(NoRun, c), d), Scan(Scan(b, c), d), X)
    BY <2>3, <2>5, <2>8, LagsInside DEF V
  <2> QED BY <2>2, <2>7, <2>9
<1> QED BY <1>4, <1>5, <1>6, <1>7, <1>8

TokenSeqs(X) == Seq(Seq(X))

JoinsAnyhow(X) == \A x, y, z \in TokenSeqs(X) : (x \o y) \o z = x \o (y \o z)

\* Three sequences of tokens joined.
LEMMA TokensJoin ==
    ASSUME NEW X
    PROVE  JoinsAnyhow(X)
<1> DEFINE S == Seq(X)
<1> HIDE DEF S
<1>1. \A x, y, z \in Seq(S) : (x \o y) \o z = x \o (y \o z)
  BY ConcatAssociative
<1> QED BY <1>1 DEF S, TokenSeqs, JoinsAnyhow

AmongTokens(o, P, W, T) == o = P \o (W \o T)

\* Tokens that stand somewhere among others, one after the other.
Stand(W, o, X) == \E P, T \in Seq(Seq(X)) : AmongTokens(o, P, W, T)

\* More tokens behind them change nothing.
LEMMA StandStill ==
    ASSUME NEW X, NEW o \in Seq(Seq(X)), NEW W \in Seq(Seq(X)), NEW more \in Seq(Seq(X)), Stand(W, o, X)
    PROVE  Stand(W, o \o more, X)
<1> DEFINE S == Seq(X)
<1>0. JoinsAnyhow(X)
  BY TokensJoin
<1>1. PICK P \in Seq(S), T \in Seq(S) : o = P \o (W \o T)
  BY DEF Stand, AmongTokens
<1>2. W \in Seq(S) /\ more \in Seq(S) /\ P \in Seq(S) /\ T \in Seq(S)
  BY <1>1
<1> HIDE DEF S
<1>3. W \o T \in Seq(S) /\ T \o more \in Seq(S)
  BY <1>2, ConcatProperties
<1> DEFINE x == W \o T
<1>4. x \in Seq(S)
  BY <1>3
<1> HIDE DEF x
<1>5. (P \o x) \o more = P \o (x \o more)
  <2>1. P \in TokenSeqs(X) /\ x \in TokenSeqs(X) /\ more \in TokenSeqs(X)
    BY <1>2, <1>4 DEF S, TokenSeqs
  <2> QED BY <1>0, <2>1, Zenon DEF JoinsAnyhow
<1>6. x \o more = W \o (T \o more)
  <2>1. W \in TokenSeqs(X) /\ T \in TokenSeqs(X) /\ more \in TokenSeqs(X)
    BY <1>2 DEF S, TokenSeqs
  <2>2. (W \o T) \o more = W \o (T \o more)
    BY <1>0, <2>1, Zenon DEF JoinsAnyhow
  <2> QED BY <2>2 DEF x
<1>7. AmongTokens(o \o more, P, W, T \o more)
  BY <1>1, <1>5, <1>6 DEF AmongTokens, x
<1> QED BY <1>2, <1>3, <1>7 DEF Stand, S

\* What has been put out stays.
LEMMA OutStays ==
    ASSUME NEW X, NEW s \in ScanStates(X), NEW c \in X, NEW W \in Seq(Seq(X)), Stand(W, s.out, X)
    PROVE  Stand(W, Flushed(s).out, X) /\ Stand(W, Scan(s, c).out, X)
<1>1. s.out \in Seq(Seq(X)) /\ s.run \in Seq(X)
  BY DEF ScanStates
<1>2. RunTokens(s.run, s.script) \in Seq(Seq(X))
  BY <1>1, RunTokensTyped
<1>3. Stand(W, s.out \o RunTokens(s.run, s.script), X)
  <2> DEFINE o == s.out
             m == RunTokens(s.run, s.script)
  <2>1. o \in Seq(Seq(X)) /\ m \in Seq(Seq(X)) /\ Stand(W, o, X)
    BY <1>1, <1>2
  <2> HIDE DEF o, m
  <2>2. Stand(W, o \o m, X)
    BY <2>1, StandStill
  <2> QED BY <2>2 DEF o, m
<1>4. /\ Flushed(s).out = s.out \o RunTokens(s.run, s.script)
      /\ Extended(s, c).out = s.out /\ Extended(Flushed(s), c).out = Flushed(s).out
  BY DEF Flushed, Extended
<1> QED BY <1>3, <1>4 DEF Scan

InRun(b, W, P, o, r, q, t) ==
    /\ Len(q) >= 2 /\ b.out = P \o o /\ b.run = r \o (q \o t) /\ (r # <<>> => o = <<>>) /\ W = o \o Neighbours(q)

\* Tokens that will stand in the scan's output when its run ends.
Awaited(W, b, X) ==
    /\ b.script \in Continuous
    /\ \E P, o \in Seq(Seq(X)), r, q, t \in Seq(X) : InRun(b, W, P, o, r, q, t)

\* They do.
LEMMA AwaitedFlushed ==
    ASSUME NEW X, NEW b \in ScanStates(X), NEW W, Awaited(W, b, X)
    PROVE  Stand(W, Flushed(b).out, X)
<1> DEFINE S == Seq(X)
<1>0. JoinsAnyhow(X)
  BY TokensJoin
<1>1. PICK P \in Seq(S), o \in Seq(S), r \in S, q \in S, t \in S : InRun(b, W, P, o, r, q, t)
  BY DEF Awaited
<1>2. /\ Len(q) >= 2 /\ b.out = P \o o /\ b.run = r \o (q \o t) /\ (r # <<>> => o = <<>>) /\ W = o \o Neighbours(q)
      /\ b.script \in Continuous
  BY <1>1 DEF InRun, Awaited
<1>3. /\ q \o t \in S /\ Len(q \o t) >= 2 /\ r \o (q \o t) \in S /\ Len(r \o (q \o t)) >= 2
      /\ Len(q) >= 1 /\ Len(q \o t) >= 1
  <2> DEFINE x == q \o t
  <2>1. x \in S /\ Len(x) = Len(q) + Len(t) /\ Len(q) \in Nat /\ Len(t) \in Nat
    BY ConcatProperties
  <2> HIDE DEF x
  <2>2. r \o x \in S /\ Len(r \o x) = Len(r) + Len(x) /\ Len(r) \in Nat
    <3>1. r \in Seq(X) /\ x \in Seq(X)
      BY <2>1
    <3> QED BY <3>1, ConcatProperties
  <2>3. Len(x) >= 2 /\ Len(r \o x) >= 2 /\ Len(q) >= 1 /\ Len(x) >= 1
    <3>1. Len(q) >= 2
      BY <1>2
    <3> DEFINE lq == Len(q)
               lt == Len(t)
               lx == Len(x)
               lr == Len(r)
               ly == Len(r \o x)
    <3>2. lq \in Nat /\ lt \in Nat /\ lr \in Nat /\ lx = lq + lt /\ ly = lr + lx /\ lq >= 2
      BY <2>1, <2>2, <3>1
    <3> HIDE DEF lq, lt, lx, lr, ly
    <3>3. lx >= 2 /\ ly >= 2 /\ lq >= 1 /\ lx >= 1
      BY <3>2
    <3> QED BY <3>3 DEF lq, lx, ly
  <2> QED BY <2>1, <2>2, <2>3 DEF x
<1>4. PICK T \in Seq(S) : Neighbours(q \o t) = Neighbours(q) \o T
  BY <1>3, NeighboursAtStart
<1>5. \E R \in Seq(S) : Neighbours(b.run) = R \o (Neighbours(q) \o T) /\ (r = <<>> => R = <<>>)
  <2>1. CASE r = <<>>
    <3>1. b.run = q \o t
      BY <1>2, <1>3, <2>1, ConcatEmptySeq
    <3> DEFINE y == Neighbours(q \o t)
    <3>2. y \in Seq(S)
      BY <1>3, NeighboursTyped
    <3> HIDE DEF y
    <3>3. <<>> \o y = y /\ <<>> \in Seq(S)
      BY <3>2, ConcatEmptySeq
    <3> QED BY <1>4, <3>1, <3>3 DEF y
  <2>2. CASE r # <<>>
    <3> DEFINE x == q \o t
    <3>1. x \in S /\ Len(x) >= 1
      BY <1>3
    <3> HIDE DEF x
    <3>2. PICK R \in Seq(S) : Neighbours(r \o x) = R \o Neighbours(x)
      BY <3>1, NeighboursAtEnd
    <3>3. Neighbours(b.run) = R \o (Neighbours(q) \o T)
      BY <1>2, <1>4, <3>2 DEF x
    <3> QED BY <2>2, <3>3
  <2> QED BY <2>1, <2>2
<1>6. PICK R \in Seq(S) : Neighbours(b.run) = R \o (Neighbours(q) \o T) /\ (r = <<>> => R = <<>>)
  BY <1>5
<1>7. b.run \in S /\ Len(b.run) >= 2
  BY <1>2, <1>3
<1>8. RunTokens(b.run, b.script) = Neighbours(b.run)
  BY <1>2, <1>7, SpacelessTokens
<1>9. Flushed(b).out = (P \o o) \o (R \o (Neighbours(q) \o T))
  BY <1>2, <1>6, <1>8 DEF Flushed
<1>10. Neighbours(q) \in Seq(S)
  BY <1>3, NeighboursTyped
<1> DEFINE p == Neighbours(q)
<1>11. /\ P \in Seq(S) /\ o \in Seq(S) /\ R \in Seq(S) /\ T \in Seq(S) /\ p \in Seq(S)
       /\ W = o \o p /\ Flushed(b).out = (P \o o) \o (R \o (p \o T)) /\ (r = <<>> => R = <<>>) /\ (r # <<>> => o = <<>>)
  BY <1>2, <1>6, <1>9, <1>10
<1> HIDE DEF p, S
<1>12. \E Q \in Seq(S) : AmongTokens(Flushed(b).out, Q, W, T)
  <2> DEFINE pt == p \o T
  <2>1. pt \in Seq(S)
    BY <1>11, ConcatProperties
  <2>2. CASE r = <<>>
    <3> HIDE DEF pt
    <3>1. R \o pt = pt
      BY <1>11, <2>1, <2>2, ConcatEmptySeq
    <3>2. (P \o o) \o pt = P \o (o \o pt)
      <4>1. P \in TokenSeqs(X) /\ o \in TokenSeqs(X) /\ pt \in TokenSeqs(X)
        BY <1>11, <2>1 DEF S, TokenSeqs
      <4> QED BY <1>0, <4>1, Zenon DEF JoinsAnyhow
    <3>3. o \o (p \o T) = (o \o p) \o T
      <4>1. o \in TokenSeqs(X) /\ p \in TokenSeqs(X) /\ T \in TokenSeqs(X)
        BY <1>11 DEF S, TokenSeqs
      <4> QED BY <1>0, <4>1, Zenon DEF JoinsAnyhow
    <3>4. Flushed(b).out = P \o (W \o T)
      BY <1>11, <3>1, <3>2, <3>3 DEF pt
    <3> QED BY <1>11, <3>4 DEF AmongTokens
  <2>3. CASE r # <<>>
    <3>1. P \o o = P /\ W = p
      BY <1>11, <2>3, ConcatEmptySeq
    <3> HIDE DEF pt
    <3>2. P \o (R \o pt) = (P \o R) \o pt
      <4>1. P \in TokenSeqs(X) /\ R \in TokenSeqs(X) /\ pt \in TokenSeqs(X)
        BY <1>11, <2>1 DEF S, TokenSeqs
      <4> QED BY <1>0, <4>1, Zenon DEF JoinsAnyhow
    <3>3. P \o R \in Seq(S)
      BY <1>11, ConcatProperties
    <3>4. Flushed(b).out = (P \o R) \o (W \o T)
      BY <1>11, <3>1, <3>2 DEF pt
    <3> QED BY <3>3, <3>4 DEF AmongTokens
  <2> QED BY <2>2, <2>3
<1> QED BY <1>11, <1>12 DEF Stand, S

\* Another character leaves them pending, or puts them out.
LEMMA AwaitedScan ==
    ASSUME NEW X, NEW b \in ScanStates(X), NEW c \in X, NEW W, Awaited(W, b, X)
    PROVE  Awaited(W, Scan(b, c), X) \/ Stand(W, Scan(b, c).out, X)
<1>1. Stand(W, Flushed(b).out, X)
  BY AwaitedFlushed
<1>2. Extended(Flushed(b), c).out = Flushed(b).out
  BY DEF Extended
<1>3. Awaited(W, Extended(b, c), X)
  <2> DEFINE S == Seq(X)
  <2>1. PICK P \in Seq(S), o \in Seq(S), r \in S, q \in S, t \in S : InRun(b, W, P, o, r, q, t)
    BY DEF Awaited
  <2>2. /\ Len(q) >= 2 /\ b.out = P \o o /\ b.run = r \o (q \o t) /\ (r # <<>> => o = <<>>) /\ W = o \o Neighbours(q)
    BY <2>1 DEF InRun
  <2>3. Append(b.run, c) = r \o (q \o Append(t, c)) /\ Append(t, c) \in S
    <3> DEFINE x == q \o t
    <3>1. x \in Seq(X) /\ Append(t, c) \in S
      BY ConcatProperties, AppendProperties
    <3>2. Append(q \o t, c) = q \o Append(t, c)
      BY AppendJoined
    <3> HIDE DEF x
    <3>3. Append(r \o x, c) = r \o Append(x, c)
      BY <3>1, AppendJoined
    <3> QED BY <2>2, <3>1, <3>2, <3>3 DEF x
  <2>4. b.script \in Continuous /\ b.script # "common"
    BY LanguageAssumption DEF Awaited
  <2>5. /\ Extended(b, c).out = b.out /\ Extended(b, c).run = Append(b.run, c)
        /\ Extended(b, c).script = b.script
    BY <2>4 DEF Extended
  <2>6. InRun(Extended(b, c), W, P, o, r, q, Append(t, c))
    BY <2>2, <2>3, <2>5 DEF InRun
  <2> QED BY <2>3, <2>4, <2>5, <2>6 DEF Awaited
<1> QED BY <1>1, <1>2, <1>3 DEF Scan

\* What stands in the output, or is about to, stands among the tokens of the text.
LEMMA OwedComes ==
    ASSUME NEW X, NEW chars \in Seq(X), NEW f, Scans(f, X, chars), NEW W \in Seq(Seq(X)), NEW k \in 0..Len(chars),
           Awaited(W, f[k], X) \/ Stand(W, f[k].out, X)
    PROVE  Stand(W, Flushed(f[Len(chars)]).out, X)
<1> DEFINE N == Len(chars)
           V == ScanStates(X)
           Owed(m) == Awaited(W, f[m], X) \/ Stand(W, f[m].out, X)
           T == {m \in Nat : k + m <= N => Owed(k + m)}
<1>1. N \in Nat /\ k \in 0..N /\ \A m \in 1..N : chars[m] \in X
  OBVIOUS
<1>2. /\ \A m \in 0..N : f[m] \in V
      /\ \A m \in 1..N : f[m] = Scan(f[m - 1], chars[m])
  BY DEF Scans
<1>3. 0 \in T
  <2>1. k + 0 = k
    BY <1>1
  <2>2. Owed(k)
    OBVIOUS
  <2> HIDE DEF Owed
  <2> QED BY <2>1, <2>2
<1>4. ASSUME NEW m \in Nat, m \in T PROVE m + 1 \in T
  <2> SUFFICES ASSUME k + (m + 1) <= N PROVE Owed(k + (m + 1))
    OBVIOUS
  <2> DEFINE x == k + m
             y == k + (m + 1)
  <2>1. y \in 1..N /\ x = y - 1 /\ x \in 0..N /\ x <= N
    BY <1>1
  <2>2. Owed(x)
    <3> HIDE DEF Owed
    <3> QED BY <1>4, <2>1
  <2> HIDE DEF x, y, N, V
  <2>3. f[x] \in V /\ chars[y] \in X /\ f[y] = Scan(f[x], chars[y])
    BY <1>1, <1>2, <2>1
  <2>4. CASE Awaited(W, f[x], X)
    <3>1. Awaited(W, Scan(f[x], chars[y]), X) \/ Stand(W, Scan(f[x], chars[y]).out, X)
      BY <2>3, <2>4, AwaitedScan DEF V
    <3> QED BY <2>3, <3>1 DEF y
  <2>5. CASE Stand(W, f[x].out, X)
    <3>1. Stand(W, Scan(f[x], chars[y]).out, X)
      BY <2>3, <2>5, OutStays DEF V
    <3> QED BY <2>3, <3>1 DEF y
  <2> QED BY <2>2, <2>4, <2>5
<1> HIDE DEF T
<1>5. \A m \in Nat : m \in T
  BY <1>3, <1>4, Induct
<1>6. N - k \in Nat /\ k + (N - k) = N
  BY <1>1
<1>7. Owed(N)
  <2> HIDE DEF Owed, N
  <2>1. N - k \in T
    BY <1>5, <1>6
  <2> QED BY <1>1, <1>6, <2>1 DEF T
<1>8. f[N] \in V
  BY <1>1, <1>2
<1>9. CASE Awaited(W, f[N], X)
  BY <1>8, <1>9, AwaitedFlushed
<1>10. CASE Stand(W, f[N].out, X)
  <2>1. CASE N = 0
    <3>1. f[N] = NoRun
      BY <2>1 DEF Scans
    <3> QED BY <1>10, <3>1, NothingFlushed
  <2>2. CASE N # 0
    <3>1. chars[1] \in X
      BY <1>1, <2>2
    <3> HIDE DEF N
    <3>2. Stand(W, Flushed(f[N]).out, X)
      BY <1>8, <1>10, <3>1, OutStays DEF V
    <3> QED BY <3>2 DEF N
  <2> QED BY <2>1, <2>2
<1> QED BY <1>7, <1>9, <1>10

\* What ends a quotation beside no word, or with two characters from the stretch it ends
\* in, is or will be among the tokens of the text when the quotation ends.
LEMMA QuoteIsOwed ==
    ASSUME NEW X, NEW q, NEW chars, NEW i, Quotes(q, chars, i, X), NEW f, Scans(f, X, chars), NEW g, Scans(g, X, q),
           Lags(g[Len(q)], f[i + Len(q)], X), CutAfter(chars, i, i + Len(q))
    PROVE  \/ \E k \in 0..Len(chars) : \/ Awaited(Flushed(g[Len(q)]).out, f[k], X)
                                       \/ Stand(Flushed(g[Len(q)]).out, f[k].out, X)
           \/ Stand(Flushed(g[Len(q)]).out, Flushed(f[Len(chars)]).out, X)
<1> DEFINE n == Len(q)
           N == Len(chars)
           V == ScanStates(X)
           j == i + n
           a == g[n]
           b == f[j]
           W == Flushed(a).out
<1>1. /\ n \in Nat /\ N \in Nat /\ i \in Nat /\ i + n <= N /\ n >= 1
      /\ \A m \in 1..n : q[m] = chars[i + m] /\ q[m] \in X
      /\ \A m \in 1..N : chars[m] \in X
  BY DEF Quotes
<1>2. /\ \A m \in 0..n : g[m] \in V
      /\ g[0] = NoRun
      /\ \A m \in 1..n : g[m] = Scan(g[m - 1], q[m])
  BY DEF Scans
<1>3. /\ \A m \in 0..N : f[m] \in V
      /\ \A m \in 1..N : f[m] = Scan(f[m - 1], chars[m])
  BY DEF Scans
<1>4. j \in 1..N /\ j \in 0..N /\ n \in 1..n /\ n - 1 \in 0..n /\ n \in 0..n /\ q[n] = chars[j]
  BY <1>1
<1>5. a \in V /\ b \in V /\ Lags(a, b, X) /\ chars[j] \in X
  BY <1>1, <1>2, <1>3, <1>4
<1>6. \/ j = N
      \/ j # N /\ chars[j + 1] \notin WordChars
      \/ chars[j] \notin WordChars
      \/ i + 2 <= j /\ Spaceless({chars[j - 1], chars[j], chars[j + 1]})
  BY DEF CutAfter
<1>7. a.out \in Seq(Seq(X)) /\ a.run \in Seq(X) /\ b.out \in Seq(Seq(X)) /\ b.run \in Seq(X)
  BY <1>5 DEF ScanStates
<1>8. Stand(W, Flushed(b).out, X)
  <2>1. PICK P \in Seq(Seq(X)), r \in Seq(X) : Trails(Flushed(a), Flushed(b), X, P, r)
    <3> HIDE DEF a, b
    <3> QED BY <1>5, LagsFlushed DEF Lags, V
  <2>2. Flushed(b).out = P \o W
    BY <2>1 DEF Trails
  <2>3. W \in Seq(Seq(X))
    <3> HIDE DEF a
    <3>1. Flushed(a) \in V
      BY <1>1, <1>5, ScanTyped, <1>4 DEF V
    <3> QED BY <3>1 DEF V, ScanStates
  <2> HIDE DEF W
  <2>4. W \o <<>> = W /\ <<>> \in Seq(Seq(X))
    BY <2>3, ConcatEmptySeq
  <2>5. AmongTokens(Flushed(b).out, P, W, <<>>)
    BY <2>2, <2>4 DEF AmongTokens
  <2> QED BY <2>1, <2>4, <2>5 DEF Stand
<1> HIDE DEF W
<1>9. CASE j = N
  <2> HIDE DEF j, N
  <2>1. b = f[N]
    BY <1>9
  <2> HIDE DEF b
  <2>2. Stand(W, Flushed(f[N]).out, X)
    BY <1>8, <2>1
  <2> QED BY <2>2 DEF W, N, a, n
<1>10. CASE j # N /\ chars[j + 1] \notin WordChars
  <2>1. j + 1 \in 1..N /\ j + 1 \in 0..N /\ (j + 1) - 1 = j
    BY <1>1, <1>4, <1>10
  <2> HIDE DEF j, N, n
  <2>2. f[j + 1] = Scan(b, chars[j + 1])
    BY <1>3, <2>1
  <2>3. f[j + 1] = Flushed(b)
    BY <2>2, <1>10 DEF Scan
  <2>4. Stand(W, f[j + 1].out, X)
    BY <1>8, <2>3
  <2> QED BY <2>1, <2>4 DEF W, N, a, n
<1>11. CASE chars[j] \notin WordChars
  <2>1. a = Flushed(g[n - 1])
    BY <1>2, <1>4, <1>11 DEF Scan
  <2>2. a.run = <<>> /\ a.script = "common"
    BY <2>1 DEF Flushed
  <2>3. b = Flushed(f[j - 1])
    BY <1>3, <1>4, <1>11 DEF Scan
  <2>4. b.run = <<>> /\ b.script = "common"
    BY <2>3 DEF Flushed
  <2> HIDE DEF a, b, j, n, N
  <2>5. RunTokens(b.run, b.script) = <<>>
    BY <2>4 DEF RunTokens
  <2>6. b.out \o <<>> = b.out
    BY <1>7, ConcatEmptySeq
  <2>7. Flushed(b).out = b.out
    BY <2>5, <2>6 DEF Flushed
  <2>8. Stand(W, b.out, X)
    BY <1>8, <2>7
  <2> QED BY <1>4, <2>8 DEF W, a, b, n, N
<1>12. CASE i + 2 <= j /\ Spaceless({chars[j - 1], chars[j], chars[j + 1]})
  <2>1. PICK s \in Continuous : \A c \in {chars[j - 1], chars[j], chars[j + 1]} : c \in WordChars /\ ScriptOf[c] = s
    BY <1>12 DEF Spaceless
  <2>2. s # "common"
    BY LanguageAssumption
  <2>3. /\ n - 1 \in 1..n /\ n - 2 \in 0..n /\ (n - 1) - 1 = n - 2 /\ i + (n - 1) = j - 1
    BY <1>1, <1>12
  <2> DEFINE z == g[n - 2]
             y == g[n - 1]
             c == q[n - 1]
             d == q[n]
  <2>4. z \in V /\ y \in V /\ c \in X /\ d \in X /\ c = chars[j - 1] /\ d = chars[j]
    BY <1>1, <1>2, <1>4, <2>3
  <2>5. y = Scan(z, c) /\ a = Scan(y, d)
    BY <1>2, <1>4, <2>3
  <2>6. c \in WordChars /\ ScriptOf[c] = s /\ d \in WordChars /\ ScriptOf[d] = s
    BY <2>1, <2>4
  <2> HIDE DEF a, b, z, y, c, d, V, j, n, N
  <2>7. y.script = s /\ y.run # <<>> /\ y.run \in Seq(X)
    BY <2>2, <2>4, <2>5, <2>6, AfterLetter DEF V, ScanStates
  <2>8. a = Extended(y, d) /\ a.script = s
    BY <2>2, <2>4, <2>5, <2>6, <2>7, AfterLetter DEF V
  <2>9. Len(a.run) >= 2
    <3>1. Len(y.run) \in Nat /\ Len(y.run) # 0
      BY <2>7
    <3>2. Len(Append(y.run, d)) = Len(y.run) + 1
      BY <2>4, <2>7, AppendProperties
    <3> QED BY <2>8, <3>1, <3>2 DEF Extended
  <2>10. W = a.out \o Neighbours(a.run)
    <3>1. RunTokens(a.run, a.script) = Neighbours(a.run)
      BY <1>7, <2>8, <2>9, SpacelessTokens
    <3> QED BY <3>1 DEF W, Flushed
  <2>11. PICK P \in Seq(Seq(X)), r \in Seq(X) : Trails(a, b, X, P, r)
    BY <1>5 DEF Lags
  <2>12. a.run \o <<>> = a.run /\ <<>> \in Seq(X)
    BY <1>7, ConcatEmptySeq
  <2>13. b.script \in Continuous
    BY <2>8, <2>11 DEF Trails
  <2>14. InRun(b, W, P, a.out, r, a.run, <<>>)
    BY <2>9, <2>10, <2>11, <2>12 DEF InRun, Trails
  <2>15. Awaited(W, b, X)
    BY <1>7, <2>11, <2>12, <2>13, <2>14 DEF Awaited
  <2> QED BY <1>4, <2>15 DEF W, a, b, n, N
<1> QED BY <1>6, <1>9, <1>10, <1>11, <1>12 DEF W

\* What stands among tokens is a block of them.
LEMMA StandIsBlock ==
    ASSUME NEW X, NEW o \in Seq(Seq(X)), NEW W \in Seq(Seq(X)), Stand(W, o, X)
    PROVE  IsBlock(W, o)
<1> DEFINE S == Seq(X)
<1>1. PICK P \in Seq(S), T \in Seq(S) : o = P \o (W \o T)
  BY DEF Stand, AmongTokens
<1> DEFINE x == W \o T
           p == Len(P)
           w == Len(W)
           t == Len(T)
<1>2. P \in Seq(S) /\ T \in Seq(S) /\ W \in Seq(S) /\ o \in Seq(S)
  BY <1>1
<1> HIDE DEF S
<1>3. /\ x \in Seq(S) /\ Len(x) = w + t /\ p \in Nat /\ w \in Nat /\ t \in Nat
      /\ \A k \in 1..(w + t) : x[k] = IF k <= w THEN W[k] ELSE T[k - w]
  BY <1>2, ConcatProperties
<1> HIDE DEF x
<1>4. /\ Len(o) = p + (w + t)
      /\ \A k \in 1..(p + (w + t)) : o[k] = IF k <= p THEN P[k] ELSE x[k - p]
  BY <1>1, <1>2, <1>3, ConcatProperties DEF x
<1>5. \A k \in 1..w : o[p + k] = W[k] /\ o[p + k] \in S
  <2> HIDE DEF p, w, t
  <2> TAKE k \in 1..w
  <2>1. p + k \in 1..(p + (w + t)) /\ ~(p + k <= p) /\ (p + k) - p = k /\ k \in 1..(w + t)
    BY <1>3
  <2>2. o[p + k] = x[k] /\ x[k] = W[k]
    BY <1>3, <1>4, <2>1
  <2>3. W[k] \in S
    BY <1>2 DEF w
  <2> QED BY <2>2, <2>3
<1> DEFINE cut == SubSeq(o, p + 1, p + w)
<1>6. /\ cut \in Seq(S) /\ Len(cut) = w
      /\ \A k \in 1..w : cut[k] = W[k]
  <2>1. \A m \in (p + 1)..(p + w) : o[m] \in S
    <3> HIDE DEF p, w, t
    <3> TAKE m \in (p + 1)..(p + w)
    <3>1. m - p \in 1..w /\ p + (m - p) = m
      BY <1>3
    <3> QED BY <1>5, <3>1
  <2> HIDE DEF p, w, t
  <2>2. /\ p + 1 \in Int /\ p + w \in Int /\ (p + w) - (p + 1) + 1 = w
        /\ (p + 1 <= p + w) = (w # 0)
    BY <1>3
  <2>3. /\ cut \in Seq(S) /\ Len(cut) = (IF p + 1 <= p + w THEN (p + w) - (p + 1) + 1 ELSE 0)
        /\ \A k \in 1..((p + w) - (p + 1) + 1) : cut[k] = o[(p + 1) + k - 1]
    BY <2>1, <2>2, SubSeqProperties
  <2>4. ASSUME NEW k \in 1..w PROVE cut[k] = W[k]
    <3>1. (p + 1) + k - 1 = p + k
      BY <1>3
    <3> QED BY <1>5, <2>2, <2>3, <3>1
  <2> QED BY <2>2, <2>3, <2>4
<1> HIDE DEF cut
<1>7. cut = W
  BY <1>2, <1>6, SameSeq
<1>8. p \in 0..Len(o) /\ p + Len(W) <= Len(o)
  BY <1>3, <1>4
<1> QED BY <1>7, <1>8 DEF IsBlock, cut, w

\* Whatever characters a text normalises to: what is quoted from it in whole words, or
\* with two characters at least of a stretch without spaces, has the tokens of its place
\* (tokenize.py: tokenize_v2).
THEOREM QuotationsAlign ==
    ASSUME NEW X, NEW chars \in Seq(X)
    PROVE  QuotesAlign(chars)
<1> SUFFICES ASSUME NEW i \in 0..Len(chars), NEW j \in (i + 1)..Len(chars), CutBefore(chars, i, j), CutAfter(chars, i, j)
             PROVE  IsBlock(Scanned(SubSeq(chars, i + 1, j)), Scanned(chars))
  BY DEF QuotesAlign
<1> DEFINE q == SubSeq(chars, i + 1, j)
           N == Len(chars)
<1>1. N \in Nat /\ i \in Nat /\ j \in Nat /\ i < j /\ j <= N /\ \A m \in 1..N : chars[m] \in X
  OBVIOUS
<1>2. q \in Seq(X) /\ Len(q) = j - i /\ \A k \in 1..(j - i) : q[k] = chars[i + k]
  <2>1. \A m \in (i + 1)..j : chars[m] \in X
    BY <1>1
  <2> HIDE DEF N
  <2>2. i + 1 \in Int /\ j \in Int /\ i + 1 <= j /\ j - (i + 1) + 1 = j - i
    BY <1>1
  <2>3. /\ q \in Seq(X) /\ Len(q) = (IF i + 1 <= j THEN j - (i + 1) + 1 ELSE 0)
        /\ \A k \in 1..(j - (i + 1) + 1) : q[k] = chars[(i + 1) + k - 1]
    BY <2>1, <2>2, SubSeqProperties
  <2>4. ASSUME NEW k \in 1..(j - i) PROVE q[k] = chars[i + k]
    <3>1. (i + 1) + k - 1 = i + k
      BY <1>1
    <3> QED BY <2>2, <2>3, <3>1
  <2> QED BY <2>2, <2>3, <2>4
<1> HIDE DEF q
<1>3. i + Len(q) = j /\ Quotes(q, chars, i, X)
  BY <1>1, <1>2 DEF Quotes
<1>4. PICK f : Scans(f, X, chars) /\ Scanned(chars) = Flushed(f[Len(chars)]).out
  BY ScannedUnfolds
<1>5. PICK g : Scans(g, X, q) /\ Scanned(q) = Flushed(g[Len(q)]).out
  BY <1>2, ScannedUnfolds
<1>6. PICK k \in 0..Len(q) : Lags(g[k], f[i + k], X)
  BY <1>3, <1>4, <1>5, LagStarts
<1>7. Lags(g[Len(q)], f[i + Len(q)], X)
  BY <1>3, <1>4, <1>5, <1>6, LagsOn
<1> DEFINE W == Flushed(g[Len(q)]).out
           o == Flushed(f[Len(chars)]).out
<1>8. \/ \E m \in 0..Len(chars) : Awaited(W, f[m], X) \/ Stand(W, f[m].out, X)
      \/ Stand(W, o, X)
  BY <1>3, <1>4, <1>5, <1>7, QuoteIsOwed
<1>9. W \in Seq(Seq(X)) /\ o \in Seq(Seq(X))
  <2>1. ASSUME NEW s \in ScanStates(X) PROVE Flushed(s).out \in Seq(Seq(X))
    <3>1. chars[1] \in X
      BY <1>1
    <3>2. Flushed(s) \in ScanStates(X)
      BY <3>1, ScanTyped
    <3> QED BY <3>2 DEF ScanStates
  <2>2. g[Len(q)] \in ScanStates(X) /\ f[Len(chars)] \in ScanStates(X)
    <3>1. Len(q) \in 0..Len(q) /\ Len(chars) \in 0..Len(chars)
      BY <1>1, <1>2
    <3> QED BY <1>4, <1>5, <3>1 DEF Scans
  <2> QED BY <2>1, <2>2
<1> HIDE DEF W, o
<1>10. Stand(W, o, X)
  <2>1. ASSUME NEW m \in 0..Len(chars), Awaited(W, f[m], X) \/ Stand(W, f[m].out, X)
        PROVE  Stand(W, o, X)
    BY <1>4, <1>9, <2>1, OwedComes DEF o
  <2> QED BY <1>8, <2>1
<1>11. IsBlock(W, o)
  BY <1>9, <1>10, StandIsBlock
<1> QED BY <1>4, <1>5, <1>11 DEF W, o, q

InToken(out, c) == \E k \in DOMAIN out : \E j \in DOMAIN out[k] : out[k][j] = c

\* A character is in the run or in a token.
Got(s, c) == (\E k \in DOMAIN s.run : s.run[k] = c) \/ InToken(s.out, c)

\* It may be lost with a run of an unknown script, if there is one.
Excused(c, met) == met /\ ScriptOf[c] \in {"common", "unknown"}

\* A run is of its script, but for characters that are of every script.
Steady(s, met) ==
    /\ \A k \in DOMAIN s.run : ScriptOf[s.run[k]] \in {"common", s.script}
    /\ s.script = "unknown" => met

\* Every character of a run of a known script is in one of its tokens.
LEMMA RunIsRead ==
    ASSUME NEW X, NEW run \in Seq(X), NEW script, script # "unknown", NEW k \in DOMAIN run
    PROVE  InToken(RunTokens(run, script), run[k])
<1> DEFINE L == Len(run)
<1>1. L \in Nat /\ k \in 1..L /\ run # <<>> /\ DOMAIN run = 1..L
  OBVIOUS
<1>2. CASE script \in Continuous /\ L > 1
  <2> DEFINE n == L - 1
             pairs == [i \in 1..n |-> <<run[i], run[i + 1]>>]
  <2>1. RunTokens(run, script) = pairs
    BY <1>1, <1>2 DEF RunTokens
  <2>2. \A i \in 1..n : <<run[i], run[i + 1]>>[1] = run[i] /\ <<run[i], run[i + 1]>>[2] = run[i + 1]
                        /\ DOMAIN <<run[i], run[i + 1]>> = 1..2
    OBVIOUS
  <2> HIDE DEF L
  <2>3. DOMAIN pairs = 1..n /\ \A i \in 1..n : pairs[i] = <<run[i], run[i + 1]>>
    OBVIOUS
  <2> HIDE DEF pairs
  <2>4. \A i \in 1..n : DOMAIN pairs[i] = 1..2 /\ pairs[i][1] = run[i] /\ pairs[i][2] = run[i + 1]
    BY <2>2, <2>3
  <2>5. CASE k <= n
    <3>1. k \in 1..n /\ 1 \in 1..2
      BY <1>1, <2>5
    <3> HIDE DEF n
    <3>2. pairs[k][1] = run[k] /\ 1 \in DOMAIN pairs[k] /\ k \in DOMAIN pairs
      BY <2>3, <2>4, <3>1
    <3> QED BY <2>1, <3>2 DEF InToken
  <2>6. CASE ~(k <= n)
    <3>1. k - 1 \in 1..n /\ 2 \in 1..2 /\ (k - 1) + 1 = k
      BY <1>1, <1>2, <2>6
    <3> DEFINE m == k - 1
    <3> HIDE DEF n, m
    <3>2. m \in 1..n /\ m + 1 = k
      BY <3>1 DEF m
    <3>3. pairs[m][2] = run[k] /\ 2 \in DOMAIN pairs[m] /\ m \in DOMAIN pairs
      BY <2>3, <2>4, <3>1, <3>2
    <3> QED BY <2>1, <3>3 DEF InToken
  <2> QED BY <2>5, <2>6
<1>3. CASE ~(script \in Continuous /\ L > 1)
  <2>1. RunTokens(run, script) = <<run>>
    BY <1>1, <1>3 DEF RunTokens
  <2>2. 1 \in DOMAIN <<run>> /\ <<run>>[1] = run
    OBVIOUS
  <2> QED BY <2>1, <2>2 DEF InToken
<1> QED BY <1>2, <1>3

\* What is in some of the tokens is in all of them.
LEMMA InEither ==
    ASSUME NEW S, NEW x \in Seq(S), NEW y \in Seq(S), NEW c
    PROVE  /\ InToken(x, c) => InToken(x \o y, c)
           /\ InToken(y, c) => InToken(x \o y, c)
<1> DEFINE z == x \o y
           lx == Len(x)
           ly == Len(y)
<1>1. /\ lx \in Nat /\ ly \in Nat /\ DOMAIN x = 1..lx /\ DOMAIN y = 1..ly /\ DOMAIN z = 1..(lx + ly)
      /\ \A k \in 1..(lx + ly) : z[k] = IF k <= lx THEN x[k] ELSE y[k - lx]
  BY ConcatProperties
<1> HIDE DEF z, lx, ly
<1>2. ASSUME NEW k \in DOMAIN x PROVE k \in DOMAIN z /\ z[k] = x[k]
  <2>1. k \in 1..(lx + ly) /\ k <= lx
    BY <1>1
  <2> QED BY <1>1, <2>1
<1>3. ASSUME NEW k \in DOMAIN y PROVE lx + k \in DOMAIN z /\ z[lx + k] = y[k]
  <2>1. lx + k \in 1..(lx + ly) /\ ~(lx + k <= lx) /\ (lx + k) - lx = k
    BY <1>1
  <2> QED BY <1>1, <2>1
<1>4. InToken(x, c) => InToken(z, c)
  BY <1>2 DEF InToken
<1>5. InToken(y, c) => InToken(z, c)
  <2> SUFFICES ASSUME NEW k \in DOMAIN y, NEW j \in DOMAIN y[k], y[k][j] = c PROVE InToken(z, c)
    BY DEF InToken
  <2>1. lx + k \in DOMAIN z /\ z[lx + k] = y[k]
    BY <1>3
  <2> QED BY <2>1 DEF InToken
<1> QED BY <1>4, <1>5 DEF z

\* A run that is put out loses only what is excused.
LEMMA FlushReads ==
    ASSUME NEW X, NEW s \in ScanStates(X), NEW met, Steady(s, met), NEW c, Got(s, c)
    PROVE  InToken(Flushed(s).out, c) \/ Excused(c, met)
<1>1. s.out \in Seq(Seq(X)) /\ s.run \in Seq(X)
  BY DEF ScanStates
<1> DEFINE y == RunTokens(s.run, s.script)
<1>2. y \in Seq(Seq(X)) /\ Flushed(s).out = s.out \o y
  BY <1>1, RunTokensTyped DEF Flushed
<1>3. /\ InToken(s.out, c) => InToken(s.out \o y, c)
      /\ InToken(y, c) => InToken(s.out \o y, c)
  <2> HIDE DEF y
  <2> QED BY <1>1, <1>2, InEither
<1>4. CASE InToken(s.out, c)
  BY <1>2, <1>3, <1>4
<1>5. ASSUME NEW k \in DOMAIN s.run, s.run[k] = c PROVE InToken(Flushed(s).out, c) \/ Excused(c, met)
  <2>1. CASE s.script = "unknown"
    BY <1>5, <2>1 DEF Steady, Excused
  <2>2. CASE s.script # "unknown"
    <3>1. InToken(y, c)
      BY <1>1, <1>5, <2>2, RunIsRead
    <3> QED BY <1>2, <1>3, <3>1
  <2> QED BY <2>1, <2>2
<1> QED BY <1>4, <1>5 DEF Got

\* A character that is added to a run of its script, or to a fresh one, is got, and
\* what was got stays.
LEMMA ExtendReads ==
    ASSUME NEW X, NEW s \in ScanStates(X), NEW met, Steady(s, met), NEW d \in X, ScriptOf[d] = "unknown" => met,
           ScriptOf[d] = "common" \/ s.script \in {"common", ScriptOf[d]}
    PROVE  /\ Steady(Extended(s, d), met) /\ Got(Extended(s, d), d)
           /\ \A c : Got(s, c) => Got(Extended(s, d), c)
<1> DEFINE e == Extended(s, d)
           L == Len(s.run)
<1>1. /\ e.out = s.out /\ e.run = Append(s.run, d)
      /\ e.script = IF s.script = "common" THEN ScriptOf[d] ELSE s.script
  BY DEF Extended
<1>2. s.run \in Seq(X)
  BY DEF ScanStates
<1>3. /\ L \in Nat /\ DOMAIN s.run = 1..L /\ DOMAIN e.run = 1..(L + 1)
      /\ e.run[L + 1] = d /\ \A k \in 1..L : e.run[k] = s.run[k]
  BY <1>1, <1>2, AppendProperties
<1> HIDE DEF e, L
<1>4. Steady(e, met)
  <2>1. ASSUME NEW k \in DOMAIN e.run PROVE ScriptOf[e.run[k]] \in {"common", e.script}
    <3>1. CASE k = L + 1
      BY <1>1, <1>3, <3>1
    <3>2. CASE k # L + 1
      <4>1. k \in 1..L
        BY <1>3, <3>2
      <4>2. ScriptOf[e.run[k]] \in {"common", s.script}
        BY <1>3, <4>1 DEF Steady
      <4> QED BY <1>1, <4>2
    <3> QED BY <3>1, <3>2
  <2>2. e.script = "unknown" => met
    BY <1>1 DEF Steady
  <2> QED BY <2>1, <2>2 DEF Steady
<1>5. Got(e, d)
  <2>1. L + 1 \in DOMAIN e.run
    BY <1>3
  <2> QED BY <1>3, <2>1 DEF Got
<1>6. ASSUME NEW c, Got(s, c) PROVE Got(e, c)
  <2>1. CASE InToken(s.out, c)
    BY <1>1, <2>1 DEF Got
  <2>2. ASSUME NEW k \in DOMAIN s.run, s.run[k] = c PROVE Got(e, c)
    <3>1. k \in DOMAIN e.run /\ e.run[k] = c
      BY <1>3, <2>2
    <3> QED BY <3>1 DEF Got
  <2> QED BY <1>6, <2>1, <2>2 DEF Got
<1> QED BY <1>4, <1>5, <1>6 DEF e

\* One character more: what was got, and the character if it forms words, is got, or
\* excused.
LEMMA ScanReads ==
    ASSUME NEW X, NEW s \in ScanStates(X), NEW met, Steady(s, met), NEW d \in X,
           d \in WordChars /\ ScriptOf[d] = "unknown" => met
    PROVE  /\ Steady(Scan(s, d), met)
           /\ d \in WordChars => Got(Scan(s, d), d)
           /\ \A c : Got(s, c) => Got(Scan(s, d), c) \/ Excused(c, met)
<1>1. /\ Flushed(s) \in ScanStates(X) /\ Flushed(s).script = "common" /\ Flushed(s).run = <<>>
  BY ScanTyped DEF Flushed
<1>2. Steady(Flushed(s), met)
  BY <1>1 DEF Steady
<1>3. ASSUME NEW c, Got(s, c) PROVE Got(Flushed(s), c) \/ Excused(c, met)
  BY <1>3, FlushReads DEF Got
<1>4. CASE d \notin WordChars
  <2>1. Scan(s, d) = Flushed(s)
    BY <1>4 DEF Scan
  <2> QED BY <1>2, <1>3, <1>4, <2>1
<1>5. CASE d \in WordChars /\ ScriptOf[d] # "common" /\ s.script \notin {"common", ScriptOf[d]}
  <2> DEFINE z == Flushed(s)
  <2>1. Scan(s, d) = Extended(z, d)
    BY <1>5 DEF Scan
  <2>2. z \in ScanStates(X) /\ Steady(z, met) /\ z.script = "common"
    BY <1>1, <1>2
  <2> HIDE DEF z
  <2>3. /\ Steady(Extended(z, d), met) /\ Got(Extended(z, d), d)
        /\ \A c : Got(z, c) => Got(Extended(z, d), c)
    BY <1>5, <2>2, ExtendReads
  <2> QED BY <1>3, <2>1, <2>3 DEF z
<1>6. CASE d \in WordChars /\ ~(ScriptOf[d] # "common" /\ s.script \notin {"common", ScriptOf[d]})
  <2>1. Scan(s, d) = Extended(s, d)
    BY <1>6 DEF Scan
  <2>2. /\ Steady(Extended(s, d), met) /\ Got(Extended(s, d), d)
        /\ \A c : Got(s, c) => Got(Extended(s, d), c)
    BY <1>6, ExtendReads
  <2> QED BY <2>1, <2>2
<1> QED BY <1>4, <1>5, <1>6

\* Only characters of an unknown script, and what stands in their runs without a script
\* of its own, are in no token: a text with no such script is read whole (tokenize.py:
\* "produces no tokens at all").
THEOREM ReadableTextsAreRead ==
    ASSUME NEW X, NEW chars \in Seq(X)
    PROVE  ReadableIsRead(chars)
<1> DEFINE N == Len(chars)
           V == ScanStates(X)
           met == "unknown" \in ScriptsIn(chars)
<1>1. N \in Nat /\ \A m \in 1..N : chars[m] \in X /\ DOMAIN chars = 1..N
  OBVIOUS
<1>2. PICK f : Scans(f, X, chars) /\ Scanned(chars) = Flushed(f[N]).out
  BY ScannedUnfolds
<1>3. /\ \A m \in 0..N : f[m] \in V
      /\ f[0] = NoRun /\ \A m \in 1..N : f[m] = Scan(f[m - 1], chars[m])
  BY <1>2 DEF Scans
<1>4. ASSUME NEW m \in 1..N, chars[m] \in WordChars, ScriptOf[chars[m]] = "unknown" PROVE met
  <2>1. chars[m] \in ToSet(chars) \cap WordChars
    BY <1>1, <1>4 DEF ToSet
  <2> QED BY <1>4, <2>1 DEF ScriptsIn
<1> HIDE DEF met
<1> DEFINE ReadTo(m) == /\ Steady(f[m], met)
                      /\ \A k \in 1..m : chars[k] \in WordChars => Got(f[m], chars[k]) \/ Excused(chars[k], met)
           T == {m \in Nat : m <= N => ReadTo(m)}
<1>5. 0 \in T
  <2>1. Steady(NoRun, met)
    BY DEF Steady, NoRun
  <2> QED BY <1>3, <2>1
<1>6. ASSUME NEW m \in Nat, m \in T PROVE m + 1 \in T
  <2> SUFFICES ASSUME m + 1 <= N PROVE ReadTo(m + 1)
    OBVIOUS
  <2> DEFINE y == m + 1
  <2>1. y \in 1..N /\ y - 1 = m /\ m \in 0..N /\ m <= N /\ \A k \in 1..y : k = y \/ k \in 1..m
    BY <1>1
  <2>2. Steady(f[m], met) /\ \A k \in 1..m : chars[k] \in WordChars => Got(f[m], chars[k]) \/ Excused(chars[k], met)
    BY <1>6, <2>1
  <2> HIDE DEF y, N, V
  <2>3. f[m] \in V /\ chars[y] \in X /\ f[y] = Scan(f[m], chars[y])
    BY <1>1, <1>3, <2>1
  <2>4. chars[y] \in WordChars /\ ScriptOf[chars[y]] = "unknown" => met
    BY <1>4, <2>1
  <2>5. /\ Steady(f[y], met)
        /\ chars[y] \in WordChars => Got(f[y], chars[y])
        /\ \A c : Got(f[m], c) => Got(f[y], c) \/ Excused(c, met)
    BY <2>2, <2>3, <2>4, ScanReads DEF V
  <2>6. ASSUME NEW k \in 1..y, chars[k] \in WordChars PROVE Got(f[y], chars[k]) \/ Excused(chars[k], met)
    BY <2>1, <2>2, <2>5, <2>6
  <2>7. ReadTo(y)
    BY <2>5, <2>6
  <2> QED BY <2>7 DEF y
<1> HIDE DEF T, ReadTo
<1>7. \A m \in Nat : m \in T
  BY <1>5, <1>6, Induct
<1>8. ReadTo(N)
  BY <1>1, <1>7 DEF T
<1>9. ASSUME NEW c \in ToSet(chars) \cap WordChars
      PROVE  InToken(Scanned(chars), c) \/ Excused(c, met)
  <2>1. PICK k \in 1..N : chars[k] = c
    BY <1>1 DEF ToSet
  <2>2. Steady(f[N], met) /\ (Got(f[N], c) \/ Excused(c, met))
    BY <1>8, <2>1 DEF ReadTo
  <2>3. f[N] \in V
    BY <1>1, <1>3
  <2> HIDE DEF N
  <2> QED BY <1>2, <2>2, <2>3, FlushReads DEF V
<1>10. ASSUME NEW c, InToken(Scanned(chars), c) PROVE c \in UNION {ToSet(t) : t \in ToSet(Scanned(chars))}
  <2> DEFINE o == Scanned(chars)
  <2> HIDE DEF o
  <2>1. PICK k \in DOMAIN o : \E j \in DOMAIN o[k] : o[k][j] = c
    BY <1>10 DEF InToken, o
  <2>2. c \in ToSet(o[k]) /\ o[k] \in ToSet(o)
    BY <2>1 DEF ToSet
  <2> QED BY <2>2 DEF o
<1> DEFINE lost == (ToSet(chars) \cap WordChars) \ UNION {ToSet(t) : t \in ToSet(Scanned(chars))}
<1>11. \A c \in lost : Excused(c, met)
  BY <1>9, <1>10
<1> HIDE DEF lost
<1>12. (\A c \in lost : ScriptOf[c] \in {"common", "unknown"}) /\ (~met => lost = {})
  BY <1>11 DEF Excused
<1> QED BY <1>12 DEF lost, met, ReadableIsRead

\* Of the scripts of some letters one outranks the rest.
LEMMA OneDominates ==
    ASSUME NEW X, NEW scripts \in Seq(X), scripts # <<>>
    PROVE  Dominant(scripts) \in ToSet(scripts)
<1> DEFINE N == Len(scripts)
           S == ToSet(scripts)
           occ == [s \in S |-> Occurrences(s, scripts)]
           first == [s \in S |-> FirstOf(s, scripts)]
<1>1. N \in Nat /\ N # 0 /\ DOMAIN scripts = 1..N
  OBVIOUS
<1>2. S # {}
  <2>1. scripts[1] \in S
    BY <1>1 DEF ToSet
  <2> QED BY <2>1
<1>3. ASSUME NEW s \in S PROVE occ[s] \in 0..N /\ first[s] \in Nat
  <2> DEFINE at == {i \in DOMAIN scripts : scripts[i] = s}
  <2>1. at \subseteq 1..N /\ at # {} /\ at \subseteq Nat
    BY <1>1 DEF ToSet
  <2>2. occ[s] = Cardinality(at) /\ first[s] = Min(at)
    BY DEF Occurrences, FirstOf
  <2> HIDE DEF at, occ, first
  <2>3. Cardinality(at) \in 0..N
    <3>1. IsFiniteSet(1..N) /\ Cardinality(1..N) = N
      <4> HIDE DEF N
      <4>1. IsFiniteSet(1..N) /\ Cardinality(1..N) = IF 1 > N THEN 0 ELSE N - 1 + 1
        BY <1>1, FS_Interval
      <4> QED BY <1>1, <4>1
    <3>2. at \in SUBSET (1..N)
      BY <2>1
    <3>3. IsFiniteSet(at) /\ Cardinality(at) <= N
      BY <3>1, <3>2, FS_Subset
    <3>4. Cardinality(at) \in Nat
      BY <3>3, FS_CardinalityType
    <3> HIDE DEF N
    <3> QED BY <1>1, <3>3, <3>4
  <2>4. Min(at) \in Nat
    <3>1. \E n \in at : \A m \in at : n <= m
      BY <2>1, NatMin
    <3>2. Min(at) \in at
      BY <3>1 DEF Min
    <3> QED BY <2>1, <3>2
  <2> QED BY <2>2, <2>3, <2>4
<1> HIDE DEF S, N, occ, first
<1>4. PICK a \in S : \A t \in S : occ[t] <= occ[a]
  <2> DEFINE T == {N - occ[s] : s \in S}
  <2>1. T \subseteq Nat
    BY <1>1, <1>3
  <2>2. T # {}
    BY <1>2
  <2> HIDE DEF T
  <2>3. PICK n \in T : \A m \in T : n <= m
    BY <2>1, <2>2, NatMin
  <2>4. PICK s \in S : n = N - occ[s]
    BY <2>3 DEF T
  <2>5. ASSUME NEW t \in S PROVE occ[t] <= occ[s]
    <3>1. N - occ[t] \in T
      BY DEF T
    <3>2. N - occ[s] <= N - occ[t]
      BY <2>3, <2>4, <3>1
    <3> QED BY <1>1, <1>3, <3>2
  <2> QED BY <2>5
<1>5. PICK b \in {s \in S : occ[s] = occ[a]} : \A t \in {s \in S : occ[s] = occ[a]} : first[b] <= first[t]
  <2> DEFINE E == {s \in S : occ[s] = occ[a]}
             T == {first[s] : s \in E}
  <2>1. T \subseteq Nat /\ T # {}
    BY <1>3
  <2> HIDE DEF T
  <2>2. PICK n \in T : \A m \in T : n <= m
    BY <2>1, NatMin
  <2>3. PICK s \in E : n = first[s]
    BY <2>2 DEF T
  <2>4. ASSUME NEW t \in E PROVE first[s] <= first[t]
    <3>1. first[t] \in T
      BY DEF T
    <3> QED BY <2>2, <2>3, <3>1
  <2> QED BY <2>4
<1>6. \A t \in S : \/ occ[b] > occ[t]
                   \/ occ[b] = occ[t] /\ first[b] <= first[t]
  <2> SUFFICES ASSUME NEW t \in S PROVE occ[b] > occ[t] \/ (occ[b] = occ[t] /\ first[b] <= first[t])
    OBVIOUS
  <2>1. occ[t] \in Nat /\ occ[a] \in Nat /\ occ[t] <= occ[a] /\ occ[b] = occ[a]
    BY <1>1, <1>3, <1>4
  <2>2. CASE occ[t] = occ[a]
    BY <1>5, <2>1, <2>2
  <2>3. CASE occ[t] # occ[a]
    BY <2>1, <2>3
  <2> QED BY <2>2, <2>3
<1>7. \A s \in S : occ[s] = Occurrences(s, scripts) /\ first[s] = FirstOf(s, scripts)
  BY DEF occ, first
<1>8. b \in S /\ \A t \in S : \/ Occurrences(b, scripts) > Occurrences(t, scripts)
                             \/ /\ Occurrences(b, scripts) = Occurrences(t, scripts)
                                /\ FirstOf(b, scripts) <= FirstOf(t, scripts)
  BY <1>6, <1>7
<1>9. Dominant(scripts) \in S
  BY <1>8 DEF Dominant, S
<1> QED BY <1>9 DEF S

\* Any default, any Latin language.
LEMMA LatinIs ==
    ASSUME NEW text, NEW default
    PROVE  LatinLanguage(text, default) \in {default} \cup DOMAIN Cues
BY DEF LatinLanguage

\* A language that is neither asked for nor the conversation's nor the default is one
\* that at least half of the question's letters bear out, whatever the question is
\* (lang/fallback.py: the caller's word outranks the classifier).
THEOREM GuessesAreBorneOut ==
    ASSUME NEW X, NEW text \in Seq(X), NEW asked, NEW conversation, NEW default
    PROVE  GuessBorneOut(text, asked, conversation, default)
<1> DEFINE detection == IF asked = "auto" THEN Detected(text, "en") ELSE Undetected("en")
           chosen == AnswerLanguage(text, asked, conversation, default)
           scripts == LetterScripts(text)
           top == Dominant(scripts)
           iso == IF top \in DOMAIN IsoOf THEN IsoOf[top] ELSE "en"
<1> SUFFICES ASSUME chosen \notin {asked, conversation, default}
             PROVE  /\ asked = "auto"
                    /\ \E s \in ToSet(scripts) :
                          /\ 2 * Occurrences(s, scripts) >= Len(scripts)
                          /\ s \in DOMAIN IsoOf => IF s = "latin" THEN chosen \in {IsoOf[s]} \cup DOMAIN Cues
                                                                   ELSE chosen = IsoOf[s]
  BY DEF GuessBorneOut
<1>1. chosen = LanguageByChain(detection, asked, conversation, default)
  BY DEF AnswerLanguage
<1>2. detection.reliable /\ chosen = detection.language /\ asked \in {"none", "auto"}
  BY <1>1 DEF LanguageByChain
<1>3. asked = "auto" /\ detection = Detected(text, "en")
  BY <1>2 DEF Undetected
<1>4. scripts # <<>>
  BY <1>2, <1>3 DEF Detected, Undetected
<1>5. detection = [language |-> IF top = "latin" THEN LatinLanguage(text, iso) ELSE iso,
                   reliable |-> 2 * Occurrences(top, scripts) >= Len(scripts)]
  BY <1>3, <1>4 DEF Detected
<1>6. 2 * Occurrences(top, scripts) >= Len(scripts)
  <2> DEFINE half == 2 * Occurrences(top, scripts) >= Len(scripts)
             lang == IF top = "latin" THEN LatinLanguage(text, iso) ELSE iso
  <2>1. detection = [language |-> lang, reliable |-> half]
    BY <1>5
  <2> HIDE DEF chosen, detection, top, iso, scripts, lang, half
  <2>2. half
    BY <1>2, <2>1, Zenon
  <2> QED BY <2>2 DEF half
<1>7. chosen = IF top = "latin" THEN LatinLanguage(text, iso) ELSE iso
  <2> HIDE DEF chosen, detection, top, iso, scripts
  <2> QED BY <1>2, <1>5
<1>8. top \in ToSet(scripts)
  <2> DEFINE found == Within(text, Letters)
             Y == {ScriptOf[found[i]] : i \in 1..Len(found)}
  <2>1. found \in Seq(X)
    BY WithinIs
  <2>2. scripts = [i \in DOMAIN found |-> ScriptOf[found[i]]]
    BY DEF LetterScripts
  <2>3. DOMAIN found = 1..Len(found) /\ Len(found) \in Nat
    BY <2>1
  <2> HIDE DEF found
  <2>4. scripts \in Seq(Y)
    BY <2>2, <2>3
  <2> HIDE DEF scripts, Y
  <2> QED BY <1>4, <2>4, OneDominates
<1>9. top \in DOMAIN IsoOf => IF top = "latin" THEN chosen \in {IsoOf[top]} \cup DOMAIN Cues
                                               ELSE chosen = IsoOf[top]
  BY <1>7, LatinIs
<1> HIDE DEF top, scripts, chosen
<1> QED BY <1>3, <1>6, <1>8, <1>9

\* Characters normalise to characters.
LEMMA NormalizedTyped ==
    ASSUME NEW text \in Seq(DOMAIN Normal)
    PROVE  Normalized(text) \in Seq(DOMAIN Normal)
<1> DEFINE X == DOMAIN Normal
           t == [i \in DOMAIN text |-> Normal[text[i]]]
           n == Len(text)
<1>1. n \in Nat /\ DOMAIN text = 1..n /\ \A i \in 1..n : text[i] \in X
  OBVIOUS
<1>2. \A i \in 1..n : Normal[text[i]] \in Seq(X)
  BY <1>1, LanguageAssumption
<1>3. t \in Seq(Seq(X)) /\ Len(t) = n
  <2> DEFINE S == Seq(X)
  <2>1. \A i \in 1..n : Normal[text[i]] \in S
    BY <1>2
  <2> HIDE DEF S, n
  <2>2. t \in Seq(S) /\ Len(t) = n
    BY <1>1, <2>1
  <2> QED BY <2>2 DEF S
<1>4. Normalized(text) = FlattenSeq(t)
  BY DEF Normalized
<1> HIDE DEF t, X
<1>5. CASE t = <<>>
  <2>1. FlattenSeq(t) = <<>>
    BY <1>5 DEF FlattenSeq
  <2> QED BY <1>4, <2>1 DEF X
<1>6. CASE t # <<>>
  <2>1. FlattenSeq(t) \in Seq(X)
    BY <1>3, <1>6, FlattenTyped
  <2> QED BY <1>4, <2>1 DEF X
<1> QED BY <1>5, <1>6

\* Whatever text is written, and whatever Unicode says of its characters: its tokens
\* are those of its quotations, what is readable is read, and no language is made up
\* (tokenize.py, lang/detect.py, lang/fallback.py).
THEOREM WordsAreRead == Reading => []WordsRead
<1>1. WrittenInv => WordsRead
  <2> SUFFICES ASSUME WrittenInv, kind = "words" PROVE WordsRead
    BY DEF WordsRead
  <2> DEFINE X == DOMAIN Normal
             chars == Normalized(source)
  <2>1. source \in Seq(X)
    <3> DEFINE W == Pieces["words"]
    <3>1. source \in Seq(W)
      <4>1. kind # "calls"
        OBVIOUS
      <4>2. source \in Seq(Pieces[kind])
        BY <4>1 DEF WrittenInv
      <4> QED BY <4>2
    <3>2. W \subseteq X
      BY WordsAssumption
    <3> HIDE DEF W, X
    <3> QED BY <3>1, <3>2
  <2>2. chars \in Seq(X)
    BY <2>1, NormalizedTyped
  <2> HIDE DEF X
  <2>3. QuotesAlign(chars) /\ ReadableIsRead(chars)
    <3> HIDE DEF chars
    <3> QED BY <2>2, QuotationsAlign, ReadableTextsAreRead
  <2>4. \A asked \in {"none", "auto", "ta"}, conversation \in {"none", "de"} :
           GuessBorneOut(source, asked, conversation, "en")
    BY <2>1, GuessesAreBorneOut
  <2> QED BY <2>3, <2>4 DEF WordsRead
<1> QED
  BY <1>1, WrittenStart, WrittenStep, PTL DEF Reading
=============================================================================
