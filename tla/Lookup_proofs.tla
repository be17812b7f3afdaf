----------------------------- MODULE Lookup_proofs -----------------------------
(* Theorems about looking references up: the requests of an invocation       *)
(* (Transport), a list that changes while it is paged through (Catalogue),   *)
(* what is frozen of a catalogue that changes (Selections), and how a file   *)
(* that was downloaded becomes a transcript (Transcripts).                   *)
EXTENDS MCLookup, Sums, FunctionTheorems

-----------------------------------------------------------------------------
(* Transport                                                                 *)

(* Whose POST may still come: files to come, and the alternative until it is *)
(* asked for.                                                                *)
Unposted == /\ \A f \in todo : held[f] = "missing" /\ posts[f] = 0
            /\ ~(file = Alternative /\ step \in {"post", "content", "done"}) =>
                   posts[Alternative] = 0

(* The file in hand is not among them, and its POST is the one under way.    *)
InHand == /\ step \in {"post", "content"} /\ file # Alternative =>
                 file \in Files /\ file \notin todo /\ held[file] = "missing"
          /\ call = "post" => step = "post" /\ posts[file] = 0

(* After a refusal no call is under way, and where the invocation stands     *)
(* leads to none: it has still to look at the answer, or what it could not   *)
(* fetch is missing.                                                         *)
Halted == refused =>
    /\ call = "none"
    /\ \/ step = "done"
       \/ answer = "stop" /\ step \in {"lookup", "quota", "post", "content", "search", "check"}
       \/ step = "attempt" /\ \E f \in Files : held[f] = "missing"

(* The calls of each step; the quota is asked for with an account only, and  *)
(* first only for a file that is missing.                                    *)
Accounted == /\ call # "none" => step \in {"lookup", "quota", "post", "content", "search", "check"}
             /\ step = "check" /\ (call # "none" \/ answer # "none") => Bearer
             /\ step = "quota" /\ (call # "none" \/ answer # "none") => Bearer /\ todo # {}

RequestInv == TransportTypeOK /\ Unposted /\ InHand /\ OnePost /\ Halted /\ Accounted

LEMMA TransportStarts == TransportInit => RequestInv
<1> SUFFICES ASSUME TransportInit PROVE RequestInv
  OBVIOUS
<1>1. TransportTypeOK
  <2>1. /\ call \in Calls /\ answer \in {"none", "ok", "error", "stop"} /\ step \in Steps
        /\ late \in BOOLEAN /\ refused \in BOOLEAN
    BY DEF TransportInit, Calls, Steps
  <2>2. hop \in 0..MaxHops /\ attempt \in 0..2 /\ requests \in 0..RequestCap /\ gets \in 0..MaxGets
    BY TransportAssumption DEF TransportInit
  <2>3. /\ file \in Files \union {Alternative} /\ todo \subseteq Files /\ held \in [Files -> Held]
        /\ posts \in [Files \union {Alternative} -> Nat]
    BY DEF TransportInit
  <2> QED
    BY <2>1, <2>2, <2>3 DEF TransportTypeOK
<1>2. Unposted /\ OnePost
  BY DEF TransportInit, Unposted, OnePost, Alternative
<1>3. InHand /\ Halted /\ Accounted
  BY DEF TransportInit, InHand, Halted, Accounted
<1> QED
  BY <1>1, <1>2, <1>3 DEF RequestInv

LEMMA TransportGoesOn == RequestInv /\ [TransportNext]_transportVars => RequestInv'
<1> SUFFICES ASSUME RequestInv, [TransportNext]_transportVars PROVE RequestInv'
  OBVIOUS
<1> USE TransportAssumption DEF RequestInv
<1>1. CASE UNCHANGED transportVars
  BY <1>1 DEF transportVars, onlineVars, TransportTypeOK, Unposted, InHand, OnePost, Halted, Accounted
<1>2. CASE Request
  <2>1. UNCHANGED <<late, step, file, todo, held, gets>> /\ call # "none"
    BY <1>2 DEF Request
  <2>2. /\ requests' \in 0..RequestCap /\ posts' \in [Files \union {Alternative} -> Nat]
        /\ posts' = posts \/ (call = "post" /\ posts' = [posts EXCEPT ![file] = @ + 1])
    <3>1. CASE UNCHANGED <<requests, posts>>
      BY <3>1 DEF TransportTypeOK
    <3>2. CASE /\ ~Exhausted /\ requests' = requests + 1
               /\ posts' = IF call = "post" THEN [posts EXCEPT ![file] = @ + 1] ELSE posts
      <4>1. requests \in 0..RequestCap /\ RequestCap \in Nat /\ ~(requests >= RequestCap)
        BY <3>2 DEF TransportTypeOK, Exhausted
      <4>2. requests' \in 0..RequestCap
        BY <3>2, <4>1
      <4>3. posts \in [Files \union {Alternative} -> Nat] /\ file \in Files \union {Alternative}
        BY DEF TransportTypeOK
      <4> QED
        BY <3>2, <4>2, <4>3
    <3> QED
      BY <1>2, <3>1, <3>2 DEF Request
  <2>3. /\ hop' \in 0..MaxHops /\ attempt' \in 0..2
        /\ answer' \in {"none", "ok", "error", "stop"} /\ refused' \in BOOLEAN
        /\ call' \in {call, "none"}
        /\ refused' => refused \/ (call' = "none" /\ answer' = "stop")
        /\ call = "post" => call' = "none"
        /\ call # "post" => posts' = posts
        /\ call' # "none" => answer' = answer
    <3>1. CASE Exhausted
      BY <1>2, <3>1 DEF Request, EndCall, TransportTypeOK, Calls
    <3>2. CASE ~Exhausted
      <4>1. PICK r \in Responses : Receive(r)
        BY <1>2, <3>2 DEF Request
      <4>2. posts' = IF call = "post" THEN [posts EXCEPT ![file] = @ + 1] ELSE posts
        BY <1>2, <3>2 DEF Request
      <4>3. CASE Retried(r) /\ attempt + 1 < Attempts
        BY <4>1, <4>2, <4>3 DEF Receive, Retried, Attempts, TransportTypeOK, Calls
      <4>4. CASE Retried(r) /\ attempt + 1 >= Attempts
        BY <4>1, <4>2, <4>4 DEF Receive, Retried, EndCall, TransportTypeOK, Calls
      <4>5. CASE ~Retried(r)
        <5>1. CASE r = "redirect" /\ call # "post" /\ hop < MaxHops
          BY <4>1, <4>2, <4>5, <5>1 DEF Receive, TransportTypeOK, Calls
        <5>2. CASE r = "redirect" /\ call # "post" /\ ~(hop < MaxHops)
          BY <4>1, <4>2, <4>5, <5>2 DEF Receive, EndCall, TransportTypeOK, Calls
        <5>3. CASE r # "redirect" \/ call = "post"
          <6>1. Outcome(r) \in {"ok", "error", "stop"}
            BY DEF Outcome
          <6>2. EndCall(Outcome(r))
            BY <4>1, <4>5, <5>3 DEF Receive
          <6> HIDE DEF Outcome
          <6> QED
            BY <4>2, <6>1, <6>2 DEF EndCall, TransportTypeOK, Calls
        <5> QED
          BY <5>1, <5>2, <5>3
      <4> QED
        <5>1. attempt + 1 < Attempts \/ attempt + 1 >= Attempts
          BY DEF TransportTypeOK, Attempts
        <5> QED
          BY <4>3, <4>4, <4>5, <5>1
    <3> QED
      BY <3>1, <3>2
  <2>4. TransportTypeOK'
    <3>1. call' \in Calls
      BY <2>3 DEF TransportTypeOK, Calls
    <3>2. /\ late' \in BOOLEAN /\ step' \in Steps /\ file' \in Files \union {Alternative}
          /\ todo' \subseteq Files /\ held' \in [Files -> Held] /\ gets' \in 0..MaxGets
      BY <2>1 DEF TransportTypeOK
    <3> QED
      BY <2>1, <2>2, <2>3, <3>1, <3>2 DEF TransportTypeOK
  <2>5. Unposted' /\ OnePost'
    <3>1. CASE posts' = posts
      BY <2>1, <3>1 DEF Unposted, OnePost
    <3>2. CASE call = "post" /\ posts' = [posts EXCEPT ![file] = @ + 1]
      <4>1. step = "post" /\ posts[file] = 0 /\ file \notin todo
        BY <3>2 DEF InHand, TransportTypeOK, Alternative
      <4> QED
        BY <2>1, <3>2, <4>1 DEF Unposted, OnePost, TransportTypeOK, Alternative
    <3> QED
      BY <2>2, <3>1, <3>2
  <2>6. InHand' /\ Accounted'
    BY <2>1, <2>3 DEF InHand, Accounted
  <2>7. Halted'
    BY <2>1, <2>3 DEF Halted, Accounted
  <2> QED
    BY <2>4, <2>5, <2>6, <2>7
<1>3. CASE TimePasses
  BY <1>3 DEF TimePasses, onlineVars, TransportTypeOK, Unposted, InHand, OnePost, Halted, Accounted
<1> USE DEF At, Ask, Proceed, AcquireFails, TransportTypeOK, Unposted, InHand, OnePost, Halted, Accounted,
     Calls, Steps, Alternative, Held
<1>4. CASE Lookup
  BY <1>4 DEF Lookup
<1>5. CASE Quota
  <2>1. CASE todo # {} /\ Bearer /\ answer = "none" /\ Ask("get") /\ UNCHANGED step
    BY <1>5, <2>1 DEF Quota
  <2>2. CASE (todo = {} \/ ~Bearer \/ answer = "ok") /\ Proceed("loop")
    BY <1>5, <2>2 DEF Quota
  <2>3. CASE answer = "ok" /\ AcquireFails(FALSE)
    BY <1>5, <2>3 DEF Quota
  <2>4. CASE answer \in {"error", "stop"} /\ AcquireFails(answer = "stop")
    BY <1>5, <2>4 DEF Quota
  <2> QED
    BY <1>5, <2>1, <2>2, <2>3, <2>4 DEF Quota
<1>6. CASE Loop
  <2>1. ASSUME NEW f \in todo, todo' = todo \ {f}, UNCHANGED <<held, gets>>,
               Proceed("loop") /\ UNCHANGED file
        PROVE  RequestInv'
    BY <1>6, <2>1 DEF Loop
  <2>2. ASSUME NEW f \in todo, todo' = todo \ {f}, UNCHANGED <<held, gets>>,
               file' = f /\ step' = "post" /\ Ask("post")
        PROVE  RequestInv'
    BY <1>6, <2>2 DEF Loop
  <2>3. ASSUME UNCHANGED <<file, todo, held, gets>>, Proceed("done") \/ AcquireFails(FALSE)
        PROVE  RequestInv'
    BY <1>6, <2>3 DEF Loop
  <2> QED
    BY <1>6, <2>1, <2>2, <2>3 DEF Loop
<1>7. CASE Posted
  BY <1>7 DEF Posted
<1>8. CASE Fetched
  BY <1>8 DEF Fetched, Halts
<1>9. CASE Attempt
  BY <1>9 DEF Attempt
<1>10. CASE SearchPage
  BY <1>10 DEF SearchPage
<1>11. CASE Check
  BY <1>11 DEF Check
<1>12. CASE Confirm
  BY <1>12 DEF Confirm
<1> QED
  BY <1>1, <1>2, <1>3, <1>4, <1>5, <1>6, <1>7, <1>8, <1>9, <1>10, <1>11, <1>12
     DEF TransportNext, Invocation

LEMMA RequestInductive == TransportSpec => []RequestInv
BY TransportStarts, TransportGoesOn, PTL DEF TransportSpec

(* Type correctness of Transport.                                            *)
THEOREM TransportTyped == TransportSpec => []TransportTypeOK
BY RequestInductive, PTL DEF RequestInv

(* No POST is sent twice in an invocation, for any files, budget and number  *)
(* of redirects.                                                             *)
THEOREM PostsOnce == TransportSpec => []OnePost
BY RequestInductive, PTL DEF RequestInv

(* After a refusal nothing is requested any more: the steps left lead to no  *)
(* call.                                                                     *)
THEOREM RefusalsEndIt == TransportSpec => RefusalEndsIt
<1>1. RequestInv /\ [TransportNext]_transportVars
         => [refused => requests' = requests]_transportVars
  <2> SUFFICES ASSUME RequestInv, [TransportNext]_transportVars, refused
               PROVE  requests' = requests
    OBVIOUS
  <2>1. CASE UNCHANGED transportVars
    BY <2>1 DEF transportVars, onlineVars
  <2>2. CASE Request
    BY <2>2 DEF Request, RequestInv, Halted
  <2>3. CASE TimePasses
    BY <2>3 DEF TimePasses, onlineVars
  <2>4. CASE Invocation
    BY <2>4 DEF Invocation, Lookup, Quota, Loop, Posted, Fetched, Attempt, SearchPage, Check,
       Confirm, AcquireFails, Proceed, Ask
  <2> QED
    BY <2>1, <2>2, <2>3, <2>4 DEF TransportNext
<1> QED
  BY <1>1, RequestInductive, PTL DEF TransportSpec, RefusalEndsIt

-----------------------------------------------------------------------------
(* Catalogue                                                                 *)

Apart(s) == \A i, j \in 1..Len(s) : s[i] = s[j] => i = j

Catalogued ==
    /\ CatalogueTypeOK
    /\ listing \in Seq(Items) /\ Apart(listing) /\ received \in Seq(Items)
    /\ query = "rank" => envelope = "full"

(* What has been read of a list that may have changed since its first page:  *)
(* entries of the first list, and, when nothing changed, all entries before  *)
(* the page.                                                                 *)
Followed == verdict = "open" =>
    /\ page = 1 => received = <<>> /\ altered = {}
    /\ page > 1 =>
          /\ envelope \in {"full", "no total"} /\ IsFiniteSet(first)
          /\ "added" \notin altered => Members(listing) \subseteq first
          /\ "removed" \notin altered => first \subseteq Members(listing)
          /\ envelope = "full" => total = Cardinality(first)
          /\ envelope = "full" /\ Comparable => Members(received) \subseteq first
          /\ altered = {} =>
                /\ (page - 1) * PageSize <= Len(listing)
                /\ Members(received) = {listing[i] : i \in 1..((page - 1) * PageSize)}

(* A list of shows that is not said to be truncated is whole.                *)
Faithful == Comparable /\ (envelope # "no total" \/ altered = {})
Concluded ==
    verdict = "listed" /\ ~truncated /\ Faithful => Members(received) = first

CatalogueInv == Catalogued /\ Followed /\ Concluded /\ ListsAreWhole

(* Sequences and the sets of their entries.                                  *)
LEMMA ApartIsDistinct ==
    ASSUME NEW S, NEW s \in Seq(S)
    PROVE  /\ Distinct(s) <=> Apart(s)
           /\ IsFiniteSet(Members(s)) /\ Members(s) \subseteq S
<1>1. /\ s \in [1..Len(s) -> Members(s)] /\ Len(s) \in Nat
      /\ \A t \in Members(s) : \E i \in 1..Len(s) : s[i] = t
  BY DEF Members
<1>2. s \in Surjection(1..Len(s), Members(s))
  BY <1>1 DEF Surjection
<1>3. IsFiniteSet(1..Len(s)) /\ Cardinality(1..Len(s)) = Len(s)
  <2>1. 1 \in Int /\ Len(s) \in Int
    BY <1>1
  <2>2. /\ IsFiniteSet(1..Len(s))
        /\ Cardinality(1..Len(s)) = IF 1 > Len(s) THEN 0 ELSE Len(s) - 1 + 1
    BY <2>1, FS_Interval
  <2> QED
    BY <1>1, <2>2
<1>4. /\ IsFiniteSet(Members(s))
      /\ Cardinality(Members(s)) = Cardinality(1..Len(s))
             <=> s \in Injection(1..Len(s), Members(s))
  BY <1>2, <1>3, FS_Surjection
<1>5. s \in Injection(1..Len(s), Members(s)) <=> Apart(s)
  BY <1>1 DEF Injection, IsInjective, Apart
<1>6. Members(s) \subseteq S
  BY DEF Members
<1>7. Distinct(s) <=> Cardinality(Members(s)) = Len(s)
  BY DEF Distinct
<1> QED
  BY <1>3, <1>4, <1>5, <1>6, <1>7

LEMMA JoinedMembers ==
    ASSUME NEW S, NEW s \in Seq(S), NEW t \in Seq(S)
    PROVE  /\ Members(s \o t) = Members(s) \union Members(t)
           /\ s \o t \in Seq(S) /\ Len(s \o t) = Len(s) + Len(t)
<1>1. ASSUME NEW i \in 1..Len(s \o t) PROVE (s \o t)[i] \in Members(s) \union Members(t)
  <2>1. CASE i <= Len(s)
    BY <2>1 DEF Members
  <2>2. CASE i > Len(s)
    <3>1. (s \o t)[i] = t[i - Len(s)] /\ i - Len(s) \in 1..Len(t)
      BY <2>2
    <3> QED
      BY <3>1 DEF Members
  <2> QED
    BY <2>1, <2>2
<1>2. ASSUME NEW i \in 1..Len(s) PROVE s[i] \in Members(s \o t)
  <2>1. i \in 1..Len(s \o t) /\ (s \o t)[i] = s[i]
    OBVIOUS
  <2> QED
    BY <2>1 DEF Members
<1>3. ASSUME NEW i \in 1..Len(t) PROVE t[i] \in Members(s \o t)
  <2>1. i + Len(s) \in 1..Len(s \o t) /\ (s \o t)[i + Len(s)] = t[i]
    OBVIOUS
  <2> QED
    BY <2>1 DEF Members
<1> DEFINE u == s \o t
<1>4. u \in Seq(S) /\ Len(u) = Len(s) + Len(t)
  OBVIOUS
<1>5. Members(u) = {u[i] : i \in 1..Len(u)}
  BY DEF Members
<1>6. \A i \in 1..Len(u) : u[i] \in Members(s) \union Members(t)
  BY <1>1
<1>7. Members(s) \subseteq Members(u) /\ Members(t) \subseteq Members(u)
  BY <1>2, <1>3 DEF Members
<1> HIDE DEF u
<1>8. Members(u) = Members(s) \union Members(t)
  BY <1>5, <1>6, <1>7
<1> QED
  BY <1>4, <1>8 DEF u

LEMMA PartOf ==
    ASSUME NEW S, NEW s \in Seq(S), NEW a \in Nat \ {0}, NEW b \in Nat, b <= Len(s)
    PROVE  /\ SubSeq(s, a, b) \in Seq(S)
           /\ Members(SubSeq(s, a, b)) = {s[i] : i \in a..b}
<1> DEFINE u == SubSeq(s, a, b)
<1>1. /\ u \in Seq(S)
      /\ Len(u) = IF a <= b THEN b - a + 1 ELSE 0
      /\ \A i \in 1..(b - a + 1) : u[i] = s[a + i - 1]
  OBVIOUS
<1> HIDE DEF u
<1>2. ASSUME NEW i \in 1..Len(u) PROVE u[i] \in {s[k] : k \in a..b}
  <2>1. a <= b /\ i \in 1..(b - a + 1) /\ a + i - 1 \in a..b
    BY <1>1
  <2> QED
    BY <1>1, <2>1
<1>3. ASSUME NEW k \in a..b PROVE s[k] \in Members(u)
  <2> DEFINE j == k - a + 1
  <2>1. j \in 1..(b - a + 1) /\ a + j - 1 = k /\ Len(u) = b - a + 1
    BY <1>1
  <2> HIDE DEF j
  <2>2. u[j] = s[k]
    BY <1>1, <2>1
  <2> QED
    BY <2>1, <2>2 DEF Members
<1>4. Members(u) = {u[i] : i \in 1..Len(u)}
  BY DEF Members
<1>5. Members(u) = {s[i] : i \in a..b}
  BY <1>2, <1>3, <1>4
<1> QED
  BY <1>1, <1>5 DEF u

LEMMA Beginnings ==
    ASSUME NEW S, NEW s \in Seq(S), NEW n \in Nat, n <= Len(s)
    PROVE  /\ SubSeq(s, 1, n) \in Seq(S) /\ Len(SubSeq(s, 1, n)) = n
           /\ Members(SubSeq(s, 1, n)) \subseteq Members(s)
           /\ n = Len(s) => SubSeq(s, 1, n) = s
<1> DEFINE u == SubSeq(s, 1, n)
<1>1. /\ u \in Seq(S) /\ Len(u) = n /\ \A i \in 1..n : u[i] = s[i]
      /\ 1..n \subseteq 1..Len(s)
  OBVIOUS
<1>2. n = Len(s) => u = s
  OBVIOUS
<1> HIDE DEF u
<1>3. Members(u) \subseteq Members(s)
  BY <1>1 DEF Members
<1> QED
  BY <1>1, <1>2, <1>3 DEF u

LEMMA Inserting ==
    ASSUME NEW S, NEW s \in Seq(S), NEW i \in 1..(Len(s) + 1), NEW x \in S
    PROVE  /\ Inserted(s, i, x) \in Seq(S)
           /\ Len(Inserted(s, i, x)) = Len(s) + 1
           /\ \A k \in 1..(Len(s) + 1) :
                 Inserted(s, i, x)[k] = IF k < i THEN s[k] ELSE IF k = i THEN x ELSE s[k - 1]
<1> DEFINE u == SubSeq(s, 1, i - 1)
           v == SubSeq(s, i, Len(s))
<1>1. /\ u \in Seq(S) /\ Len(u) = i - 1 /\ \A k \in 1..(i - 1) : u[k] = s[k]
      /\ v \in Seq(S) /\ Len(v) = Len(s) - i + 1
      /\ \A k \in 1..(Len(s) - i + 1) : v[k] = s[i + k - 1]
  OBVIOUS
<1> HIDE DEF u, v
<1>2. /\ u \o <<x>> \in Seq(S) /\ Len(u \o <<x>>) = i
      /\ \A k \in 1..i : (u \o <<x>>)[k] = IF k < i THEN s[k] ELSE x
  <2> DEFINE y == <<x>>
             z == u \o y
  <2>1. y \in Seq(S) /\ Len(y) = 1 /\ y[1] = x /\ z = u \o y
    OBVIOUS
  <2> HIDE DEF y, z
  <2>2. z \in Seq(S) /\ Joined(u, y, z)
    BY <1>1, <2>1, JoinAt
  <2>3. Len(z) = i /\ \A k \in 1..(i - 1) : z[k] = s[k]
    BY <1>1, <2>1, <2>2 DEF Joined
  <2>4. z[i] = x
    <3>1. 1 \in 1..Len(y) /\ Len(u) + 1 = i
      BY <1>1, <2>1
    <3> QED
      BY <2>1, <2>2, <3>1 DEF Joined
  <2>5. \A k \in 1..i : k = i \/ (k \in 1..(i - 1) /\ k < i)
    OBVIOUS
  <2>6. \A k \in 1..i : z[k] = IF k < i THEN s[k] ELSE x
    BY <2>3, <2>4, <2>5
  <2> QED
    BY <2>2, <2>3, <2>6 DEF y, z
<1> DEFINE w == u \o <<x>>
<1> HIDE DEF w
<1>3. w \in Seq(S) /\ Len(w) = i /\ \A k \in 1..i : w[k] = IF k < i THEN s[k] ELSE x
  BY <1>2 DEF w
<1>4. /\ w \o v \in Seq(S) /\ Len(w \o v) = Len(s) + 1
      /\ \A k \in 1..(Len(s) + 1) : (w \o v)[k] = IF k <= i THEN w[k] ELSE v[k - i]
  <2>1. w \in Seq(S) /\ v \in Seq(S) /\ Len(w) + Len(v) = Len(s) + 1
    BY <1>1, <1>3
  <2>2. w \o v \in Seq(S) /\ Len(w \o v) = Len(s) + 1
    BY <2>1
  <2>3. ASSUME NEW k \in 1..(Len(s) + 1)
        PROVE  (w \o v)[k] = IF k <= i THEN w[k] ELSE v[k - i]
    BY <1>3, <2>1
  <2> QED
    BY <2>2, <2>3
<1>5. \A k \in 1..(Len(s) + 1) :
         (w \o v)[k] = IF k < i THEN s[k] ELSE IF k = i THEN x ELSE s[k - 1]
  BY <1>1, <1>3, <1>4
<1> QED
  BY <1>4, <1>5 DEF Inserted, w, u, v

LEMMA InsertingApart ==
    ASSUME NEW S, NEW s \in Seq(S), Apart(s), NEW i \in 1..(Len(s) + 1),
           NEW x \in S, x \notin Members(s)
    PROVE  /\ Apart(Inserted(s, i, x))
           /\ Members(Inserted(s, i, x)) = Members(s) \union {x}
<1> DEFINE t == Inserted(s, i, x)
<1>1. /\ Len(t) = Len(s) + 1 /\ t \in Seq(S)
      /\ \A k \in 1..(Len(s) + 1) : t[k] = IF k < i THEN s[k] ELSE IF k = i THEN x ELSE s[k - 1]
  BY Inserting
<1>2. \A k \in 1..Len(s) : s[k] # x
  BY DEF Members
<1> HIDE DEF t
<1>3. ASSUME NEW j \in 1..Len(t), NEW k \in 1..Len(t), t[j] = t[k] PROVE j = k
  <2>1. /\ j < i \/ j = i \/ j > i
        /\ k < i \/ k = i \/ k > i
    BY <1>1
  <2>2. /\ j < i => j \in 1..Len(s) /\ t[j] = s[j]
        /\ j > i => j - 1 \in 1..Len(s) /\ t[j] = s[j - 1]
        /\ k < i => k \in 1..Len(s) /\ t[k] = s[k]
        /\ k > i => k - 1 \in 1..Len(s) /\ t[k] = s[k - 1]
        /\ j = i => t[j] = x
        /\ k = i => t[k] = x
    BY <1>1
  <2>3. CASE j = i
    BY <1>2, <1>3, <2>1, <2>2, <2>3
  <2>4. CASE k = i
    BY <1>2, <1>3, <2>1, <2>2, <2>4
  <2>5. CASE j # i /\ k # i
    BY <1>1, <1>3, <2>1, <2>2, <2>5 DEF Apart
  <2> QED
    BY <2>3, <2>4, <2>5
<1>4. ASSUME NEW k \in 1..Len(t) PROVE t[k] \in Members(s) \union {x}
  BY <1>1 DEF Members
<1>5. ASSUME NEW k \in 1..Len(s) PROVE s[k] \in Members(t)
  <2>1. CASE k < i
    BY <1>1, <2>1 DEF Members
  <2>2. CASE k >= i
    <3>1. k + 1 \in 1..Len(t) /\ t[k + 1] = s[k]
      BY <1>1, <2>2
    <3> QED
      BY <3>1 DEF Members
  <2> QED
    BY <2>1, <2>2
<1>6. x \in Members(t)
  BY <1>1 DEF Members
<1>7. Members(t) = Members(s) \union {x}
  BY <1>4, <1>5, <1>6 DEF Members
<1> QED
  BY <1>3, <1>7 DEF Apart, t

LEMMA LeavingOut ==
    ASSUME NEW S, listing \in Seq(S), Apart(listing), NEW i \in 1..Len(listing)
    PROVE  /\ Without(i) \in Seq(S) /\ Len(Without(i)) = Len(listing) - 1
           /\ Apart(Without(i))
           /\ Members(Without(i)) = Members(listing) \ {listing[i]}
<1> DEFINE u == SubSeq(listing, 1, i - 1)
           v == SubSeq(listing, i + 1, Len(listing))
           t == u \o v
<1>1. /\ u \in Seq(S) /\ Len(u) = i - 1 /\ \A k \in 1..(i - 1) : u[k] = listing[k]
      /\ v \in Seq(S) /\ Len(v) = Len(listing) - i
      /\ \A k \in 1..(Len(listing) - i) : v[k] = listing[i + k]
  OBVIOUS
<1> HIDE DEF u, v
<1>2. /\ t \in Seq(S) /\ Len(t) = Len(listing) - 1
      /\ \A k \in 1..(Len(listing) - 1) : t[k] = IF k < i THEN u[k] ELSE v[k - (i - 1)]
  <2> HIDE DEF t
  <2>a. t \in Seq(S) /\ Joined(u, v, t)
    BY <1>1, JoinAt DEF t
  <2>1. t \in Seq(S) /\ Len(t) = Len(listing) - 1
    BY <1>1, <2>a DEF Joined
  <2>2. ASSUME NEW k \in 1..(Len(listing) - 1)
        PROVE  t[k] = IF k < i THEN u[k] ELSE v[k - (i - 1)]
    <3>1. CASE k < i
      <4>1. k \in 1..Len(u)
        BY <1>1, <3>1
      <4> QED
        BY <2>a, <3>1, <4>1 DEF Joined
    <3>2. CASE ~(k < i)
      <4> DEFINE j == k - (i - 1)
      <4>1. j \in 1..Len(v) /\ Len(u) + j = k
        BY <1>1, <3>2
      <4> HIDE DEF j
      <4>2. t[Len(u) + j] = v[j]
        BY <2>a, <4>1 DEF Joined
      <4> QED
        BY <3>2, <4>1, <4>2 DEF j
    <3> QED
      BY <3>1, <3>2
  <2> QED
    BY <2>1, <2>2
<1>3. Without(i) = t
  BY DEF Without, t, u, v
<1> HIDE DEF t
<1> DEFINE Back(k) == IF k < i THEN k ELSE k + 1
<1>4. ASSUME NEW k \in 1..Len(t)
      PROVE  t[k] = listing[Back(k)] /\ Back(k) \in 1..Len(listing) /\ Back(k) # i
  <2>1. k \in 1..(Len(listing) - 1) /\ Len(listing) \in Nat
    BY <1>2
  <2>2. CASE k < i
    BY <1>1, <1>2, <2>1, <2>2
  <2>3. CASE k >= i
    <3>1. k - (i - 1) \in 1..(Len(listing) - i) /\ i + (k - (i - 1)) = k + 1
      BY <2>1, <2>3
    <3>2. t[k] = v[k - (i - 1)] /\ v[k - (i - 1)] = listing[k + 1]
      BY <1>1, <1>2, <2>1, <2>3, <3>1
    <3> QED
      BY <2>1, <2>3, <3>2
  <2> QED
    BY <2>1, <2>2, <2>3
<1>5. ASSUME NEW j \in 1..Len(t), NEW k \in 1..Len(t), t[j] = t[k] PROVE j = k
  <2>1. Back(j) = Back(k)
    <3>1. /\ t[j] = listing[Back(j)] /\ Back(j) \in 1..Len(listing)
          /\ t[k] = listing[Back(k)] /\ Back(k) \in 1..Len(listing)
      BY <1>4
    <3> HIDE DEF Back
    <3> QED
      BY <1>5, <3>1 DEF Apart
  <2>2. j \in Nat /\ k \in Nat /\ i \in Nat
    BY <1>2
  <2> QED
    BY <2>1, <2>2
<1>6. ASSUME NEW k \in 1..Len(t) PROVE t[k] \in Members(listing) /\ t[k] # listing[i]
  <2>1. t[k] = listing[Back(k)] /\ Back(k) \in 1..Len(listing) /\ Back(k) # i
    BY <1>4
  <2> HIDE DEF Back
  <2> QED
    BY <2>1 DEF Apart, Members
<1>7. ASSUME NEW k \in 1..Len(listing), listing[k] # listing[i] PROVE listing[k] \in Members(t)
  <2>1. CASE k < i
    BY <1>2, <1>4, <2>1 DEF Members
  <2>2. CASE k > i
    <3>1. k - 1 \in 1..Len(t) /\ Back(k - 1) = k
      BY <1>2, <2>2
    <3>2. t[k - 1] = listing[k]
      BY <1>4, <3>1
    <3> QED
      BY <3>1, <3>2 DEF Members
  <2> QED
    BY <1>7, <2>1, <2>2
<1>8. Members(t) = Members(listing) \ {listing[i]}
  BY <1>6, <1>7 DEF Members
<1> QED
  BY <1>2, <1>3, <1>5, <1>8 DEF Apart

LEMMA Dividing ==
    ASSUME NEW a \in Nat, NEW b \in Nat \ {0}
    PROVE  a \div b \in Nat /\ b * (a \div b) <= a /\ a < b * (a \div b) + b
OBVIOUS

LEMMA Multiplying ==
    ASSUME NEW L \in Nat, NEW P \in Nat \ {0}, NEW q \in Nat,
           P * q <= L + P - 1, L + P - 1 < P * q + P, NEW p \in Nat
    PROVE  p < q <=> p * P < L
<1>1. CASE p < q
  <2>1. P * (p + 1) <= P * q
    BY <1>1
  <2>2. P * (p + 1) = p * P + P
    OBVIOUS
  <2> QED
    BY <1>1, <2>1, <2>2
<1>2. CASE q <= p
  <2>1. P * q <= P * p
    BY <1>2
  <2> QED
    BY <1>2, <2>1
<1> QED
  BY <1>1, <1>2

LEMMA CatalogueStarts == CatalogueInit => CatalogueInv
<1> SUFFICES ASSUME CatalogueInit PROVE CatalogueInv
  OBVIOUS
<1>1. PICK S : S \subseteq Items /\ listing \in Listings(S)
  BY CatalogueAssumption DEF CatalogueInit, Items
<1>2. listing \in Seq(Items) /\ Distinct(listing)
  BY <1>1 DEF Listings
<1>3. Apart(listing) /\ Members(listing) \subseteq Items
  BY <1>2, ApartIsDistinct
<1>4. received \in Seq(Items) /\ Len(received) = 0 /\ Members(received) = {}
  <2>1. received = <<>>
    BY DEF CatalogueInit
  <2>2. <<>> \in Seq(Items) /\ Len(<<>>) = 0
    OBVIOUS
  <2>3. 1..0 = {}
    OBVIOUS
  <2> QED
    BY <2>1, <2>2, <2>3 DEF Members
<1>5. Catalogued
  <2>1. page \in 1..MaxPages /\ Len(received) <= MaxResults
    <3>1. page = 1 /\ MaxPages \in Nat \ {0} /\ MaxResults \in Nat
      BY CatalogueAssumption DEF CatalogueInit
    <3> QED
      BY <1>4, <3>1
  <2>2. /\ query \in {"rank", "name", "imdb"}
        /\ envelope \in {"full", "no total", "no pages", "bare"}
        /\ query = "rank" => envelope = "full"
    BY DEF CatalogueInit
  <2>3. /\ pages \in Nat \union {None} /\ total \in Nat \union {None} /\ truncated \in BOOLEAN
        /\ verdict = "open" /\ chosen \subseteq Items /\ first \subseteq Items
        /\ altered \subseteq {"added", "removed", "moved"}
    BY DEF CatalogueInit
  <2> QED
    BY <1>2, <1>3, <1>4, <2>1, <2>2, <2>3 DEF Catalogued, CatalogueTypeOK
<1>6. verdict = "open" /\ page = 1 /\ received = <<>> /\ altered = {}
  BY DEF CatalogueInit
<1>7. Followed
  BY <1>6 DEF Followed
<1>8. Concluded /\ ListsAreWhole
  BY <1>6 DEF Concluded, ListsAreWhole, RankingWhole, UniqueShow
<1> QED
  BY <1>5, <1>7, <1>8 DEF CatalogueInv

LEMMA CountsAreNumbers ==
    ASSUME Catalogued
    PROVE  /\ page \in Nat \ {0} /\ page <= MaxPages /\ PageSize \in Nat \ {0}
           /\ MaxPages \in Nat /\ MaxResults \in Nat
           /\ Len(listing) \in Nat /\ Len(received) \in Nat /\ Len(received) <= MaxResults
<1>1. MaxPages \in Nat \ {0} /\ PageSize \in Nat \ {0} /\ MaxResults \in Nat
  BY CatalogueAssumption
<1>2. /\ page \in 1..MaxPages /\ Len(received) <= MaxResults
      /\ listing \in Seq(Items) /\ received \in Seq(Items)
  BY DEF Catalogued, CatalogueTypeOK
<1> QED
  BY <1>1, <1>2

LEMMA Altering == ASSUME CatalogueInv, Alter PROVE CatalogueInv'
<1>1. /\ verdict = "open" /\ page > 1
      /\ UNCHANGED <<query, envelope, page, pages, total, received, truncated, verdict, chosen,
                     first>>
  BY DEF Alter
<1>2. /\ listing \in Seq(Items) /\ Apart(listing) /\ Items' = Items
      /\ altered \subseteq {"added", "removed", "moved"}
  BY <1>1 DEF CatalogueInv, Catalogued, CatalogueTypeOK, Items
<1>3. /\ listing' \in Seq(Items) /\ Apart(listing')
      /\ \/ /\ altered' = altered \union {"added"} /\ Members(listing) \subseteq Members(listing')
         \/ /\ altered' = altered \union {"removed"} /\ Members(listing') \subseteq Members(listing)
         \/ altered' = altered \union {"moved"} /\ Members(listing') = Members(listing)
  <2>1. ASSUME NEW x \in Items \ Members(listing), NEW i \in 1..(Len(listing) + 1),
               listing' = Inserted(listing, i, x), altered' = altered \union {"added"}
        PROVE  <1>3
    <3>1. /\ Inserted(listing, i, x) \in Seq(Items) /\ Apart(Inserted(listing, i, x))
          /\ Members(Inserted(listing, i, x)) = Members(listing) \union {x}
      BY <1>2, Inserting, InsertingApart
    <3> QED
      BY <2>1, <3>1
  <2>2. ASSUME NEW i \in 1..Len(listing), listing' = Without(i),
               altered' = altered \union {"removed"}
        PROVE  <1>3
    BY <1>2, <2>2, LeavingOut
  <2>3. ASSUME NEW i \in 1..Len(listing), NEW j \in 1..Len(listing),
               listing' = Inserted(Without(i), j, listing[i]),
               altered' = altered \union {"moved"}
        PROVE  <1>3
    <3>1. /\ Without(i) \in Seq(Items) /\ Len(Without(i)) = Len(listing) - 1
          /\ Apart(Without(i)) /\ Members(Without(i)) = Members(listing) \ {listing[i]}
      BY <1>2, LeavingOut
    <3>2. listing[i] \in Items /\ listing[i] \in Members(listing) /\ j \in 1..(Len(Without(i)) + 1)
      BY <1>2, <3>1 DEF Members
    <3>3. /\ Inserted(Without(i), j, listing[i]) \in Seq(Items)
          /\ Apart(Inserted(Without(i), j, listing[i]))
          /\ Members(Inserted(Without(i), j, listing[i])) = Members(Without(i)) \union {listing[i]}
      <4> DEFINE rest == Without(i)
                 item == listing[i]
      <4>1. /\ rest \in Seq(Items) /\ Apart(rest) /\ item \in Items
            /\ item \notin Members(rest) /\ j \in 1..(Len(rest) + 1)
        BY <3>1, <3>2
      <4> HIDE DEF rest, item
      <4>2. Inserted(rest, j, item) \in Seq(Items)
        BY <4>1, Inserting
      <4>3. /\ Apart(Inserted(rest, j, item))
            /\ Members(Inserted(rest, j, item)) = Members(rest) \union {item}
        BY <4>1, InsertingApart
      <4> QED
        BY <4>2, <4>3, Zenon DEF rest, item
    <3> QED
      BY <2>3, <3>1, <3>2, <3>3
  <2> QED
    BY <2>1, <2>2, <2>3 DEF Alter
<1>4. Distinct(listing') /\ Members(listing') \subseteq Items
  BY <1>3, ApartIsDistinct
<1>5. Catalogued'
  <2>1. altered' \subseteq {"added", "removed", "moved"}
    BY <1>2, <1>3
  <2>2. Distinct(listing)' /\ Apart(listing)' /\ Members(listing)' \subseteq Items'
    BY <1>2, <1>3, <1>4 DEF Distinct, Apart, Members
  <2>3. Members(received)' = Members(received)
    BY <1>1 DEF Members
  <2> QED
    BY <1>1, <1>2, <1>3, <2>1, <2>2, <2>3 DEF CatalogueInv, Catalogued, CatalogueTypeOK
<1>6. Followed'
  <2>1. Comparable' => Comparable
    BY <1>3 DEF Comparable
  <2>2. altered' # {}
    BY <1>3
  <2>3. /\ "added" \notin altered' => "added" \notin altered
        /\ "removed" \notin altered' => "removed" \notin altered
    BY <1>3
  <2>4. "added" \notin altered' => Members(listing') \subseteq Members(listing)
    BY <1>3
  <2>5. "removed" \notin altered' => Members(listing) \subseteq Members(listing')
    BY <1>3
  <2>6. Members(received)' = Members(received) /\ Members(listing)' = Members(listing')
    BY <1>1 DEF Members
  <2>7. /\ page > 1
        /\ envelope \in {"full", "no total"} /\ IsFiniteSet(first)
        /\ "added" \notin altered => Members(listing) \subseteq first
        /\ "removed" \notin altered => first \subseteq Members(listing)
        /\ envelope = "full" => total = Cardinality(first)
        /\ envelope = "full" /\ Comparable => Members(received) \subseteq first
    BY <1>1 DEF CatalogueInv, Followed
  <2>8. page \in Nat \ {0}
    BY CountsAreNumbers DEF CatalogueInv
  <2>9. page' # 1
    BY <1>1, <2>8
  <2>10. /\ "added" \notin altered' => Members(listing)' \subseteq first'
         /\ "removed" \notin altered' => first' \subseteq Members(listing)'
         /\ envelope' = "full" /\ Comparable' => Members(received)' \subseteq first'
    BY <1>1, <2>1, <2>3, <2>4, <2>5, <2>6, <2>7
  <2>11. envelope' \in {"full", "no total"} /\ IsFiniteSet(first)'
    BY <1>1, <2>7
  <2>12. (envelope = "full" => total = Cardinality(first))'
    BY <1>1, <2>7
  <2> HIDE DEF Comparable
  <2> QED
    BY <2>2, <2>9, <2>10, <2>11, <2>12 DEF Followed
<1>7. Concluded' /\ ListsAreWhole'
  BY <1>1 DEF Concluded, ListsAreWhole, RankingWhole, UniqueShow
<1> QED
  BY <1>5, <1>6, <1>7 DEF CatalogueInv

(* A refusal says nothing of the list.                                       *)
LEMMA Refusing ==
    ASSUME CatalogueInv, Refuse, UNCHANGED <<query, envelope, listing, altered>>,
           first' \subseteq Items
    PROVE  CatalogueInv'
<1>1. /\ verdict' = "refused"
      /\ UNCHANGED <<query, envelope, listing, altered, page, pages, total, received, truncated, chosen>>
  BY DEF Refuse
<1>2. Catalogued'
  <2>1. Items' = Items
    BY DEF Items
  <2>2. /\ Distinct(listing)' = Distinct(listing) /\ Apart(listing)' = Apart(listing)
        /\ Members(listing)' = Members(listing) /\ Members(received)' = Members(received)
    BY <1>1 DEF Distinct, Apart, Members
  <2> QED
    BY <1>1, <2>1, <2>2 DEF CatalogueInv, Catalogued, CatalogueTypeOK
<1>3. Followed' /\ Concluded' /\ ListsAreWhole'
  BY <1>1 DEF Followed, Concluded, ListsAreWhole, RankingWhole, UniqueShow
<1> QED
  BY <1>2, <1>3 DEF CatalogueInv

(* The pages of a list.                                                      *)
LEMMA Paging ==
    ASSUME CatalogueInv
    PROVE  /\ Slice \in Seq(Items) /\ Members(Slice) \subseteq Members(listing)
           /\ Advertised \in Nat
           /\ page \in Nat \ {0} /\ PageSize \in Nat \ {0} /\ Len(listing) \in Nat
           /\ (page - 1) * PageSize \in Nat /\ page * PageSize = (page - 1) * PageSize + PageSize
           /\ page < Advertised =>
                 /\ page * PageSize < Len(listing)
                 /\ Members(Slice) =
                        {listing[i] : i \in ((page - 1) * PageSize + 1)..(page * PageSize)}
           /\ page >= Advertised =>
                 Members(Slice) =
                     {listing[i] : i \in ((page - 1) * PageSize + 1)..Len(listing)}
<1>1. /\ page \in Nat \ {0} /\ PageSize \in Nat \ {0}
      /\ listing \in Seq(Items) /\ Len(listing) \in Nat
  BY CountsAreNumbers DEF CatalogueInv, Catalogued
<1> DEFINE from == (page - 1) * PageSize
           upto == page * PageSize
           to == IF upto < Len(listing) THEN upto ELSE Len(listing)
<1>2. from \in Nat /\ upto \in Nat /\ upto = from + PageSize
  BY <1>1
<1>3. Slice = SubSeq(listing, from + 1, to)
  BY DEF Slice
<1>4. to \in Nat /\ to <= Len(listing)
  BY <1>1, <1>2
<1>5. /\ SubSeq(listing, from + 1, to) \in Seq(Items)
      /\ Members(SubSeq(listing, from + 1, to)) = {listing[i] : i \in (from + 1)..to}
  <2> DEFINE start == from + 1
  <2>1. start \in Nat \ {0}
    BY <1>2
  <2> HIDE DEF start, to
  <2>2. /\ SubSeq(listing, start, to) \in Seq(Items)
        /\ Members(SubSeq(listing, start, to)) = {listing[i] : i \in start..to}
    BY <1>1, <1>4, <2>1, PartOf
  <2> QED
    BY <2>2 DEF start
<1>6. Members(Slice) \subseteq Members(listing)
  <2>1. \A i \in (from + 1)..to : i \in 1..Len(listing)
    <3> HIDE DEF from, to
    <3> QED
      BY <1>1, <1>2, <1>4
  <2> HIDE DEF from, to
  <2>2. \A i \in (from + 1)..to : listing[i] \in Members(listing)
    BY <2>1, Zenon DEF Members
  <2>3. Members(Slice) = {listing[i] : i \in (from + 1)..to}
    BY <1>3, <1>5, Zenon
  <2> QED
    BY <2>2, <2>3, Zenon
<1>7. Advertised \in Nat /\ (page < Advertised <=> upto < Len(listing))
  <2>1. Advertised = (Len(listing) + PageSize - 1) \div PageSize
    BY DEF Advertised
  <2>2. PICK a \in Nat : a = Len(listing) + PageSize - 1
    <3>1. Len(listing) + PageSize - 1 \in Nat
      BY <1>1
    <3> QED
      BY <3>1
  <2>3. /\ Advertised \in Nat /\ PageSize * Advertised <= a
        /\ a < PageSize * Advertised + PageSize
    BY <1>1, <2>1, <2>2, Dividing
  <2> QED
    BY <1>1, <2>2, <2>3, Multiplying
<1>8. page < Advertised => to = upto
  BY <1>7
<1>9. page >= Advertised => to = Len(listing)
  BY <1>1, <1>2, <1>7
<1>10. Slice \in Seq(Items) /\ Members(Slice) = {listing[i] : i \in (from + 1)..to}
  BY <1>3, <1>5
<1> HIDE DEF to
<1>11. /\ page < Advertised => Members(Slice) = {listing[i] : i \in (from + 1)..upto}
       /\ page >= Advertised => Members(Slice) = {listing[i] : i \in (from + 1)..Len(listing)}
  BY <1>8, <1>9, <1>10
<1> QED
  BY <1>1, <1>2, <1>6, <1>7, <1>10, <1>11

(* What one more page of an unshifted list makes of what was read.           *)
Firstly == IF page = 1 THEN Members(listing) ELSE first

LEMMA Following ==
    ASSUME CatalogueInv, verdict = "open"
    PROVE  /\ IsFiniteSet(Firstly)
           /\ "added" \notin altered => Members(listing) \subseteq Firstly
           /\ "removed" \notin altered => Firstly \subseteq Members(listing)
           /\ altered = {} => /\ (page - 1) * PageSize <= Len(listing)
                              /\ Members(received) = {listing[i] : i \in 1..((page - 1) * PageSize)}
           /\ page > 1 \/ page = 1
           /\ page > 1 => envelope \in {"full", "no total"}
           /\ page = 1 => altered = {} /\ received = <<>> /\ Members(received) = {}
           /\ Cardinality(Members(listing)) = Len(listing) /\ IsFiniteSet(Members(listing))
           /\ page > 1 /\ envelope = "full" => total = Cardinality(first)
           /\ page > 1 /\ envelope = "full" /\ Comparable => Members(received) \subseteq first
<1>1. IsFiniteSet(Members(listing)) /\ Cardinality(Members(listing)) = Len(listing)
  BY ApartIsDistinct DEF CatalogueInv, Catalogued, Distinct
<1>2. page \in Nat \ {0} /\ Len(listing) \in Nat /\ PageSize \in Nat \ {0}
  BY CountsAreNumbers DEF CatalogueInv
<1>3. CASE page = 1
  <2>1. received = <<>> /\ altered = {}
    BY <1>3 DEF CatalogueInv, Followed
  <2>2. Members(received) = {}
    <3>1. Len(<<>>) = 0 /\ 1..0 = {}
      OBVIOUS
    <3> QED
      BY <2>1, <3>1 DEF Members
  <2>3. (page - 1) * PageSize = 0 /\ 1..0 = {}
    BY <1>2, <1>3
  <2> QED
    BY <1>1, <1>2, <1>3, <2>1, <2>2, <2>3 DEF Firstly
<1>4. CASE page > 1
  <2>1. page # 1
    BY <1>2, <1>4
  <2> HIDE DEF Comparable
  <2> QED
    BY <1>1, <1>4, <2>1 DEF CatalogueInv, Followed, Firstly
<1>5. page = 1 \/ page > 1
  BY <1>2
<1> QED
  BY <1>3, <1>4, <1>5

LEMMA Unshifted ==
    ASSUME CatalogueInv, verdict = "open", envelope = "full" \/ page = 1,
           page > 1 => total = Len(listing)
    PROVE  /\ Cardinality(Firstly) = Len(listing)
           /\ Comparable => /\ Members(listing) \subseteq Firstly
                            /\ Members(received) \subseteq Firstly
<1>1. /\ IsFiniteSet(Firstly)
      /\ "added" \notin altered => Members(listing) \subseteq Firstly
      /\ "removed" \notin altered => Firstly \subseteq Members(listing)
      /\ page > 1 \/ page = 1
      /\ page = 1 => altered = {} /\ Members(received) = {}
      /\ Cardinality(Members(listing)) = Len(listing) /\ IsFiniteSet(Members(listing))
      /\ page > 1 /\ envelope = "full" => total = Cardinality(first)
      /\ page > 1 /\ envelope = "full" /\ Comparable => Members(received) \subseteq first
  BY Following
<1>2. page \in Nat \ {0}
  BY CountsAreNumbers DEF CatalogueInv
<1>3. /\ Cardinality(Firstly) = Len(listing)
      /\ Comparable => Members(received) \subseteq Firstly
  <2>1. CASE page = 1
    BY <1>1, <2>1 DEF Firstly
  <2>2. CASE page > 1
    <3>1. page # 1
      BY <1>2, <2>2
    <3> QED
      BY <1>1, <2>2, <3>1 DEF Firstly
  <2> QED
    BY <1>1, <2>1, <2>2
<1>4. Comparable => Members(listing) \subseteq Firstly
  <2> SUFFICES ASSUME Comparable PROVE Members(listing) \subseteq Firstly
    OBVIOUS
  <2>1. CASE "added" \notin altered
    BY <1>1, <2>1
  <2>2. CASE "removed" \notin altered
    BY <1>1, <1>3, <2>2, FS_Subset
  <2> QED
    BY <2>1, <2>2 DEF Comparable
<1> QED
  BY <1>3, <1>4

(* As many entries of a set as it has, each of them once, are all of it.     *)
LEMMA AllOfThem ==
    ASSUME NEW s \in Seq(Items), Distinct(s), NEW S, IsFiniteSet(S), Members(s) \subseteq S,
           Len(s) = Cardinality(S)
    PROVE  Members(s) = S
BY FS_Subset DEF Distinct

LEMMA Continuing ==
    ASSUME CatalogueInv, verdict = "open", envelope \in {"full", "no total"},
           NEW all \in Seq(Items), Len(all) <= MaxResults,
           Members(all) = Members(received) \union Members(Slice),
           envelope = "full" => /\ Cardinality(Firstly) = Len(listing)
                                /\ Comparable => Members(all) \subseteq Firstly,
           page < Advertised, page # MaxPages, page' = page + 1,
           pages' = Advertised, total' = (IF envelope = "full" THEN Len(listing) ELSE None),
           received' = all, first' = Firstly,
           UNCHANGED <<query, envelope, listing, truncated, verdict, chosen, altered>>
    PROVE  CatalogueInv'
<1>1. /\ page \in Nat \ {0} /\ page <= MaxPages /\ MaxPages \in Nat
      /\ Len(listing) \in Nat /\ Catalogued
  BY CountsAreNumbers DEF CatalogueInv
<1>2. /\ IsFiniteSet(Firstly)
      /\ "added" \notin altered => Members(listing) \subseteq Firstly
      /\ "removed" \notin altered => Firstly \subseteq Members(listing)
      /\ altered = {} => /\ (page - 1) * PageSize <= Len(listing)
                         /\ Members(received) = {listing[i] : i \in 1..((page - 1) * PageSize)}
  BY Following
<1>3. /\ Members(listing)' = Members(listing) /\ Distinct(listing)' = Distinct(listing)
      /\ Apart(listing)' = Apart(listing) /\ Members(received)' = Members(all)
  BY DEF Members, Distinct, Apart
<1>4. page' \in 1..MaxPages /\ page' # 1 /\ page' - 1 = page
  <2>1. page' = page + 1 /\ page # MaxPages
    OBVIOUS
  <2> QED
    BY ONLY <1>1, <2>1
<1>5. Members(all) \subseteq Items
  BY ApartIsDistinct
<1>6. Firstly \subseteq Items /\ Items' = Items
  BY <1>1 DEF Firstly, Catalogued, CatalogueTypeOK, Items
<1>7. pages' \in Nat \union {None} /\ total' \in Nat \union {None}
  BY <1>1, Paging
<1>8. Catalogued'
  BY <1>1, <1>3, <1>4, <1>5, <1>6, <1>7 DEF Catalogued, CatalogueTypeOK
<1>9. altered = {} => /\ page * PageSize <= Len(listing)
                      /\ Members(all) = {listing[i] : i \in 1..(page * PageSize)}
  <2> SUFFICES ASSUME altered = {}
               PROVE  /\ page * PageSize <= Len(listing)
                      /\ Members(all) = {listing[i] : i \in 1..(page * PageSize)}
    OBVIOUS
  <2> DEFINE from == (page - 1) * PageSize
             upto == page * PageSize
  <2>1. /\ from \in Nat /\ upto = from + PageSize /\ PageSize \in Nat
        /\ upto < Len(listing) /\ Members(Slice) = {listing[i] : i \in (from + 1)..upto}
    BY Paging
  <2>2. Members(received) = {listing[i] : i \in 1..from}
    BY <1>2
  <2> HIDE DEF from, upto
  <2>3. 1..upto = (1..from) \union ((from + 1)..upto)
    BY ONLY <2>1
  <2>4. Members(all) = {listing[i] : i \in 1..upto}
    BY <2>1, <2>2, <2>3
  <2>5. upto <= Len(listing)
    BY ONLY <1>1, <2>1
  <2> QED
    BY <2>4, <2>5 DEF upto
<1>10. Followed'
  <2>1. Comparable' = Comparable
    BY DEF Comparable
  <2>2. ("added" \notin altered => Members(listing) \subseteq first)'
    BY <1>2, <1>3
  <2>3. ("removed" \notin altered => first \subseteq Members(listing))'
    BY <1>2, <1>3
  <2>4. (envelope = "full" => total = Cardinality(first))'
    OBVIOUS
  <2>5. (envelope = "full" /\ Comparable => Members(received) \subseteq first)'
    BY <1>3, <2>1
  <2>6. IsFiniteSet(first)' /\ (envelope \in {"full", "no total"})'
    BY <1>2
  <2>7. (altered = {} => /\ (page - 1) * PageSize <= Len(listing)
                         /\ Members(received) = {listing[i] : i \in 1..((page - 1) * PageSize)})'
    BY <1>3, <1>4, <1>9
  <2> HIDE DEF Comparable
  <2> QED
    BY <1>4, <2>2, <2>3, <2>4, <2>5, <2>6, <2>7 DEF Followed
<1>11. Concluded' /\ ListsAreWhole'
  BY DEF Concluded, ListsAreWhole, RankingWhole, UniqueShow
<1> QED
  BY <1>8, <1>10, <1>11 DEF CatalogueInv

LEMMA Ranking == ASSUME CatalogueInv, Rank PROVE CatalogueInv'
<1> DEFINE r == Response
           all == received \o r.data
<1>1. /\ query = "rank" /\ verdict = "open" /\ first' = Firstly
      /\ UNCHANGED <<query, envelope, listing, altered>>
      /\ envelope = "full" /\ Catalogued
  BY DEF Rank, Reads, Firstly, CatalogueInv, Catalogued
<1>2. /\ r.page = page /\ r.pages = Advertised /\ r.total = Len(listing) /\ r.data = Slice
  BY <1>1 DEF Response
<1>3. Firstly \subseteq Items /\ Items' = Items
  BY <1>1 DEF Firstly, Catalogued, CatalogueTypeOK, Items
<1>4. CASE Refuse
  BY <1>1, <1>3, <1>4, Refusing
<1>5. ASSUME ~Unrankable(r) PROVE
      /\ all \in Seq(Items) /\ Distinct(all) /\ Len(all) <= MaxResults
      /\ Comparable => Members(all) \subseteq Firstly
      /\ Cardinality(Firstly) = Len(listing) /\ IsFiniteSet(Firstly)
      /\ Members(all) = Members(received) \union Members(Slice)
  <2>1. /\ Slice \in Seq(Items) /\ Members(Slice) \subseteq Members(listing)
    BY Paging
  <2>2. received \in Seq(Items)
    BY <1>1 DEF Catalogued
  <2>3. /\ all \in Seq(Items) /\ Len(all) = Len(received) + Len(Slice)
        /\ Members(all) = Members(received) \union Members(Slice)
    BY <1>2, <2>1, <2>2, JoinedMembers
  <2>4. /\ Distinct(all) /\ ~(Len(received) + Len(Slice) > MaxResults)
        /\ page > 1 => total = Len(listing)
    BY <1>2, <1>5 DEF Unrankable, Shifted
  <2>5. Len(received) \in Nat /\ Len(Slice) \in Nat /\ MaxResults \in Nat
    BY <1>1, <2>1, CountsAreNumbers
  <2>6. IsFiniteSet(Firstly)
    BY <1>1, Following
  <2>7. /\ Cardinality(Firstly) = Len(listing)
        /\ Comparable => /\ Members(listing) \subseteq Firstly
                         /\ Members(received) \subseteq Firstly
    BY <1>1, <2>4, Unshifted
  <2> HIDE DEF all, Comparable
  <2> QED
    BY <2>1, <2>3, <2>4, <2>5, <2>6, <2>7
<1>6. ASSUME ~Unrankable(r), Len(all) = r.total, verdict' = "ranked", chosen' = Best(Members(all)),
             received' = all, UNCHANGED <<page, pages, total, truncated>>
      PROVE  CatalogueInv'
  <2>1. /\ all \in Seq(Items) /\ Distinct(all) /\ Len(all) <= MaxResults
        /\ Comparable => Members(all) \subseteq Firstly
        /\ Cardinality(Firstly) = Len(listing) /\ IsFiniteSet(Firstly)
        /\ Members(all) = Members(received) \union Members(Slice)
    BY <1>5, <1>6
  <2>2. Comparable => Members(all) = Firstly
    BY <1>2, <1>6, <2>1, AllOfThem
  <2>3. Members(all) \subseteq Items
    BY <2>1, ApartIsDistinct
  <2>4. Catalogued'
    <3>1. /\ Distinct(listing)' = Distinct(listing) /\ Apart(listing)' = Apart(listing)
          /\ Members(listing)' = Members(listing)
          /\ Members(received)' = Members(all)
      BY <1>1, <1>6 DEF Distinct, Apart, Members
    <3>2. chosen' \subseteq Items
      BY <1>6, <2>3 DEF Best
    <3> HIDE DEF all
    <3> QED
      BY <1>1, <1>3, <1>6, <2>1, <2>3, <3>1, <3>2 DEF Catalogued, CatalogueTypeOK
  <2>5. Followed' /\ Concluded'
    BY <1>6 DEF Followed, Concluded
  <2>6. ListsAreWhole'
    <3>1. Comparable' = Comparable
      BY <1>1 DEF Comparable
    <3>2. Members(received)' = Members(all) /\ Distinct(received)' = Distinct(all)
      BY <1>6 DEF Members, Distinct
    <3>3. Comparable => Members(received)' = first' /\ chosen' = Best(first')
      BY <1>1, <1>6, <2>2, <3>2
    <3>4. Best(first)' = Best(first')
      BY DEF Best, Better, Eligible
    <3>5. verdict' # "automatic"
      BY <1>6
    <3> HIDE DEF Comparable, all
    <3> QED
      BY <2>1, <3>1, <3>2, <3>3, <3>4, <3>5 DEF ListsAreWhole, RankingWhole, UniqueShow
  <2> QED
    BY <2>4, <2>5, <2>6 DEF CatalogueInv
<1>7. ASSUME ~Unrankable(r), page < r.pages, page # MaxPages,
             page' = page + 1, pages' = r.pages, total' = r.total, received' = all,
             UNCHANGED <<truncated, verdict, chosen>>
      PROVE  CatalogueInv'
  <2>1. /\ all \in Seq(Items) /\ Distinct(all) /\ Len(all) <= MaxResults
        /\ Comparable => Members(all) \subseteq Firstly
        /\ Cardinality(Firstly) = Len(listing) /\ IsFiniteSet(Firstly)
        /\ Members(all) = Members(received) \union Members(Slice)
    BY <1>5, <1>7
  <2> HIDE DEF all
  <2> QED
    BY <1>1, <1>2, <1>7, <2>1, Continuing, Paging
<1> HIDE DEF r, all
<1>8. \/ Refuse
      \/ /\ ~Unrankable(r) /\ Len(all) = r.total /\ verdict' = "ranked"
         /\ chosen' = Best(Members(all)) /\ received' = all
         /\ UNCHANGED <<page, pages, total, truncated>>
      \/ /\ ~Unrankable(r) /\ page < r.pages /\ page # MaxPages
         /\ page' = page + 1 /\ pages' = r.pages /\ total' = r.total
         /\ received' = all /\ UNCHANGED <<truncated, verdict, chosen>>
  BY DEF Rank, r, all
<1> QED
  BY <1>4, <1>6, <1>7, <1>8

(* What is taken of a page.                                                  *)
LEMMA Taking ==
    ASSUME CatalogueInv, NEW r, r = Response
    PROVE  /\ r.data \in Seq(Items) /\ Members(r.data) \subseteq Members(listing)
           /\ received \o Taken(r) \in Seq(Items)
           /\ Members(received \o Taken(r)) = Members(received) \union Members(Taken(r))
           /\ Members(Taken(r)) \subseteq Members(listing)
           /\ Len(received \o Taken(r)) <= MaxResults
           /\ ~Cut(r) => Taken(r) = r.data
<1>1. /\ received \in Seq(Items) /\ listing \in Seq(Items) /\ Len(received) \in Nat
      /\ Len(received) <= MaxResults /\ MaxResults \in Nat
  BY CountsAreNumbers DEF CatalogueInv, Catalogued
<1>2. r.data = IF envelope = "bare" THEN listing ELSE Slice
  BY DEF Response
<1>3. r.data \in Seq(Items) /\ Members(r.data) \subseteq Members(listing)
  BY <1>1, <1>2, Paging
<1> DEFINE n == IF Len(r.data) < Available THEN Len(r.data) ELSE Available
           t == SubSeq(r.data, 1, n)
<1>4. Available \in Nat /\ Available = MaxResults - Len(received) /\ Len(r.data) \in Nat
  BY <1>1, <1>3 DEF Available
<1>5. n \in Nat /\ n <= Len(r.data) /\ n <= Available /\ (~(Len(r.data) > Available) => n = Len(r.data))
  BY <1>4
<1> HIDE DEF n
<1>6. /\ t \in Seq(Items) /\ Len(t) = n /\ Members(t) \subseteq Members(r.data)
      /\ n = Len(r.data) => t = r.data
  BY <1>3, <1>5, Beginnings
<1>9. Taken(r) = t
  BY DEF Taken, n
<1> HIDE DEF t
<1>10. /\ received \o t \in Seq(Items) /\ Len(received \o t) = Len(received) + n
       /\ Members(received \o t) = Members(received) \union Members(t)
  <2>1. /\ received \o t \in Seq(Items) /\ Len(received \o t) = Len(received) + Len(t)
        /\ Members(received \o t) = Members(received) \union Members(t)
    <3> DEFINE had == received
    <3>1. had \in Seq(Items) /\ t \in Seq(Items)
      BY <1>1, <1>6, Zenon
    <3> HIDE DEF had
    <3>2. /\ had \o t \in Seq(Items) /\ Len(had \o t) = Len(had) + Len(t)
          /\ Members(had \o t) = Members(had) \union Members(t)
      BY <3>1, JoinedMembers
    <3> QED
      BY <3>2, Zenon DEF had
  <2> QED
    BY <1>6, <2>1, Zenon
<1>11. ~Cut(r) => ~(Len(r.data) > Available)
  BY DEF Cut
<1>12. Len(received \o t) <= MaxResults
  BY <1>1, <1>4, <1>5, <1>10
<1> QED
  BY <1>3, <1>5, <1>6, <1>9, <1>10, <1>11, <1>12

LEMMA Searching == ASSUME CatalogueInv, Search PROVE CatalogueInv'
<1> DEFINE r == Response
           all == received \o Taken(r)
           Spurned == \/ Absurd(r) \/ ~Distinct(all)
                      \/ query = "imdb" /\ ~(Members(all) \subseteq Meant)
                      \/ r.total # None /\ r.total < Len(all)
<1>1. /\ query # "rank" /\ verdict = "open" /\ first' = Firstly
      /\ UNCHANGED <<query, envelope, listing, altered>> /\ Catalogued
      /\ envelope \in {"full", "no total", "no pages", "bare"}
  BY DEF Search, Reads, Firstly, CatalogueInv, Catalogued, CatalogueTypeOK
<1>2. /\ r.page = IF envelope = "bare" THEN None ELSE page
      /\ r.pages = IF envelope \in {"bare", "no pages"} THEN None ELSE Advertised
      /\ r.total = IF envelope \in {"bare", "no total"} THEN None ELSE Len(listing)
      /\ r.data = IF envelope = "bare" THEN listing ELSE Slice
  BY DEF Response
<1>3. Firstly \subseteq Items /\ Items' = Items
  BY <1>1 DEF Firstly, Catalogued, CatalogueTypeOK, Items
<1>4. /\ all \in Seq(Items) /\ Members(all) = Members(received) \union Members(Taken(r))
      /\ Members(Taken(r)) \subseteq Members(listing) /\ Len(all) <= MaxResults
      /\ ~Cut(r) => Taken(r) = r.data
  BY Taking
<1>5. Members(all) \subseteq Items
  BY <1>4, ApartIsDistinct
<1>6. /\ page \in Nat \ {0} /\ Len(listing) \in Nat /\ Advertised \in Nat /\ Len(all) \in Nat
      /\ None \notin Nat /\ page # None /\ Len(listing) # None /\ Advertised # None
  <2>1. page \in Nat \ {0} /\ Len(listing) \in Nat /\ Advertised \in Nat
    BY Paging
  <2>2. Len(all) \in Nat
    BY <1>4
  <2> QED
    BY <2>1, <2>2 DEF None
<1>7. /\ IsFiniteSet(Firstly)
      /\ "added" \notin altered => Members(listing) \subseteq Firstly
      /\ "removed" \notin altered => Firstly \subseteq Members(listing)
      /\ altered = {} => /\ (page - 1) * PageSize <= Len(listing)
                         /\ Members(received) = {listing[i] : i \in 1..((page - 1) * PageSize)}
      /\ page > 1 \/ page = 1
      /\ page > 1 => envelope \in {"full", "no total"}
      /\ page = 1 => Members(received) = {}
  BY <1>1, Following
<1>8. ~Spurned /\ envelope = "full" =>
          /\ Cardinality(Firstly) = Len(listing)
          /\ Comparable => Members(all) \subseteq Firstly
  <2> SUFFICES ASSUME ~Spurned, envelope = "full"
               PROVE  /\ Cardinality(Firstly) = Len(listing)
                      /\ Comparable => Members(all) \subseteq Firstly
    OBVIOUS
  <2>1. page > 1 => total = Len(listing)
    BY <1>2 DEF Absurd, Shifted
  <2> HIDE DEF r, all, Spurned, Comparable
  <2>2. /\ Cardinality(Firstly) = Len(listing)
        /\ Comparable => /\ Members(listing) \subseteq Firstly
                         /\ Members(received) \subseteq Firstly
    BY <1>1, <2>1, Unshifted
  <2> QED
    BY <1>4, <2>2
<1> HIDE DEF r, all
<1>9. CASE Refuse
  BY <1>1, <1>3, <1>9, Refusing
<1>10. ASSUME ~Spurned, Cut(r) \/ ~More(r), verdict' = "listed", received' = all,
              truncated' = (\/ Cut(r) \/ (r.total # None /\ r.total > Len(all))
                            \/ r.page # None /\ r.pages = None),
              UNCHANGED <<page, pages, total, chosen>>
       PROVE  CatalogueInv'
  <2>1. Catalogued'
    <3>1. /\ Distinct(listing)' = Distinct(listing) /\ Apart(listing)' = Apart(listing)
          /\ Members(listing)' = Members(listing) /\ Members(received)' = Members(all)
      BY <1>1, <1>10 DEF Distinct, Apart, Members
    <3>2. truncated' \in BOOLEAN
      BY <1>10
    <3> QED
      BY <1>1, <1>3, <1>4, <1>5, <1>10, <3>1, <3>2 DEF Catalogued, CatalogueTypeOK
  <2>2. Followed' /\ ListsAreWhole'
    BY <1>10 DEF Followed, ListsAreWhole, RankingWhole, UniqueShow
  <2>3. ASSUME ~truncated', Faithful PROVE Members(all) = Firstly
    <3>1. /\ ~Cut(r) /\ ~More(r) /\ Taken(r) = r.data
          /\ ~(r.total # None /\ r.total > Len(all)) /\ ~(r.page # None /\ r.pages = None)
      BY <1>4, <1>10, <2>3
    <3>2. CASE envelope = "bare"
      <4>1. page = 1 /\ Members(received) = {} /\ Taken(r) = listing
        BY <1>2, <1>7, <3>1, <3>2
      <4> QED
        BY <1>4, <4>1 DEF Firstly
    <3>3. CASE envelope = "no pages"
      BY <1>2, <1>6, <3>1, <3>3
    <3>4. CASE envelope = "full"
      <4>1. r.total = Len(listing) /\ Distinct(all) /\ ~(r.total < Len(all))
        BY <1>2, <1>6, <1>10, <3>4
      <4>2. Len(all) = Len(listing)
        BY <1>6, <3>1, <4>1
      <4>3. Cardinality(Firstly) = Len(listing) /\ Members(all) \subseteq Firstly
        BY <1>8, <1>10, <2>3, <3>4 DEF Faithful
      <4> QED
        BY <1>4, <1>7, <4>1, <4>2, <4>3, AllOfThem
    <3>5. CASE envelope = "no total"
      <4>1. altered = {} /\ Members(listing) = Firstly
        BY <1>7, <2>3, <3>5 DEF Faithful
      <4>2. page >= Advertised
        <5>1. r.pages = Advertised
          BY <1>2, <3>5
        <5>2. ~(Advertised > page)
          BY <1>6, <3>1, <5>1 DEF More
        <5> QED
          BY ONLY <1>6, <5>2
      <4> DEFINE from == (page - 1) * PageSize
      <4>3. /\ from \in Nat /\ from <= Len(listing) /\ Len(listing) \in Nat
            /\ Members(received) = {listing[i] : i \in 1..from}
            /\ Members(Slice) = {listing[i] : i \in (from + 1)..Len(listing)}
        BY <1>7, <4>1, <4>2, Paging
      <4> HIDE DEF from
      <4>4. 1..Len(listing) = (1..from) \union ((from + 1)..Len(listing))
        BY ONLY <4>3
      <4>5. Members(all) = Members(received) \union Members(Slice)
        BY <1>2, <1>4, <3>1, <3>5
      <4>6. Members(listing) = {listing[i] : i \in 1..Len(listing)}
        BY DEF Members
      <4>7. Members(all) = Members(listing)
        BY ONLY <4>3, <4>4, <4>5, <4>6
      <4> QED
        BY <4>1, <4>7
    <3> QED
      BY <1>1, <3>2, <3>3, <3>4, <3>5
  <2>4. Concluded'
    <3>1. Faithful' = Faithful
      BY <1>1 DEF Faithful, Comparable
    <3>2. Members(received)' = Members(all)
      BY <1>10 DEF Members
    <3> HIDE DEF Faithful
    <3> QED
      BY <1>1, <2>3, <3>1, <3>2 DEF Concluded
  <2> QED
    BY <2>1, <2>2, <2>4 DEF CatalogueInv
<1>11. ASSUME ~Spurned, ~Cut(r), More(r), page' = page + 1, pages' = r.pages, total' = r.total,
              received' = all, UNCHANGED <<truncated, verdict, chosen>>
       PROVE  CatalogueInv'
  <2>1. r.pages # None /\ r.pages > page /\ page # MaxPages
    BY <1>11 DEF Cut, More
  <2>2. /\ envelope \in {"full", "no total"} /\ r.pages = Advertised /\ page < Advertised
        /\ r.total = (IF envelope = "full" THEN Len(listing) ELSE None)
        /\ Taken(r) = Slice
    <3>1. envelope \in {"full", "no total"} /\ r.pages = Advertised
      BY <1>1, <1>2, <2>1
    <3>2. page < Advertised
      BY <1>6, <2>1, <3>1
    <3>3. Taken(r) = Slice
      BY <1>2, <1>4, <1>11, <3>1
    <3>4. r.total = (IF envelope = "full" THEN Len(listing) ELSE None)
      BY <1>2, <3>1
    <3> QED
      BY <3>1, <3>2, <3>3, <3>4
  <2>3. Members(all) = Members(received) \union Members(Slice)
    BY <1>4, <2>2
  <2>4. envelope = "full" => /\ Cardinality(Firstly) = Len(listing)
                             /\ Comparable => Members(all) \subseteq Firstly
    BY <1>8, <1>11
  <2>5. pages' = Advertised /\ total' = (IF envelope = "full" THEN Len(listing) ELSE None)
    BY <1>11, <2>2
  <2> HIDE DEF Spurned, Comparable
  <2> QED
    BY <1>1, <1>4, <1>11, <2>1, <2>2, <2>3, <2>4, <2>5, Continuing
<1>12. \/ Refuse
       \/ /\ ~Spurned /\ (Cut(r) \/ ~More(r)) /\ verdict' = "listed" /\ received' = all
          /\ truncated' = (\/ Cut(r) \/ (r.total # None /\ r.total > Len(all))
                           \/ r.page # None /\ r.pages = None)
          /\ UNCHANGED <<page, pages, total, chosen>>
       \/ /\ ~Spurned /\ ~Cut(r) /\ More(r) /\ page' = page + 1 /\ pages' = r.pages
          /\ total' = r.total /\ received' = all /\ UNCHANGED <<truncated, verdict, chosen>>
  BY DEF Search, r, all
<1> QED
  BY <1>9, <1>10, <1>11, <1>12

LEMMA Deciding ==
    ASSUME CatalogueInv, Resolve \/ Pick
    PROVE  CatalogueInv'
<1>1. /\ UNCHANGED <<query, envelope, listing, page, pages, total, received, truncated, first,
                     altered>>
      /\ verdict' \in {"automatic", "refused", "offered", "picked"}
  BY DEF Resolve, Pick
<1>2. Catalogued
  BY DEF CatalogueInv
<1>3. Exact \subseteq Items /\ Displayed \subseteq Items
  BY <1>2 DEF Exact, Displayed, Catalogued, CatalogueTypeOK
<1>4. /\ chosen' \subseteq Items
      /\ verdict' = "automatic" => ~truncated /\ verdict = "listed" /\ chosen' = Exact
  <2>1. chosen \subseteq Items
    BY <1>2 DEF Catalogued, CatalogueTypeOK
  <2>2. CASE Resolve
    BY <1>3, <2>1, <2>2 DEF Resolve, Sole
  <2>3. CASE Pick
    BY <1>3, <2>1, <2>3 DEF Pick
  <2> QED
    BY <2>2, <2>3
<1>5. /\ Distinct(listing)' = Distinct(listing) /\ Apart(listing)' = Apart(listing)
      /\ Members(listing)' = Members(listing) /\ Members(received)' = Members(received)
      /\ Items' = Items /\ Faithful' = Faithful
  BY <1>1 DEF Distinct, Apart, Members, Items, Faithful, Comparable
<1>6. Catalogued'
  BY <1>1, <1>2, <1>4, <1>5 DEF Catalogued, CatalogueTypeOK
<1>7. Followed' /\ Concluded' /\ RankingWhole'
  BY <1>1 DEF Followed, Concluded, RankingWhole
<1>8. UniqueShow'
  <2> SUFFICES ASSUME verdict' = "automatic", Faithful' PROVE chosen' = first' \intersect Meant
    BY DEF UniqueShow, Faithful
  <2>1. Members(received) = first
    BY <1>4, <1>5 DEF CatalogueInv, Concluded
  <2> QED
    BY <1>1, <1>4, <2>1 DEF Exact
<1> QED
  BY <1>6, <1>7, <1>8 DEF CatalogueInv, ListsAreWhole

LEMMA CatalogueGoesOn == CatalogueInv /\ [CatalogueNext]_catalogueVars => CatalogueInv'
<1> SUFFICES ASSUME CatalogueInv, [CatalogueNext]_catalogueVars PROVE CatalogueInv'
  OBVIOUS
<1>1. CASE UNCHANGED catalogueVars
  <2>1. /\ Catalogued' = Catalogued
    BY <1>1 DEF catalogueVars, Catalogued, CatalogueTypeOK, Items, Distinct, Members, Apart
  <2>2. Followed' = Followed /\ Concluded' = Concluded
    BY <1>1 DEF catalogueVars, Followed, Concluded, Members, Comparable, Faithful
  <2>3. ListsAreWhole' = ListsAreWhole
    BY <1>1 DEF catalogueVars, ListsAreWhole, RankingWhole, UniqueShow, Members, Comparable,
                Distinct, Best, Better, Eligible
  <2> QED
    BY <2>1, <2>2, <2>3 DEF CatalogueInv
<1> QED
  BY <1>1, Altering, Ranking, Searching, Deciding DEF CatalogueNext

LEMMA CatalogueInductive == CatalogueSpec => []CatalogueInv
BY CatalogueStarts, CatalogueGoesOn, PTL DEF CatalogueSpec

(* Type correctness of Catalogue.                                            *)
THEOREM CatalogueTyped == CatalogueSpec => []CatalogueTypeOK
<1>1. CatalogueInv => CatalogueTypeOK
  BY DEF CatalogueInv, Catalogued
<1> QED
  BY <1>1, CatalogueInductive, PTL

(* For any catalogue, page size and limits: what is ranked is all that was   *)
(* listed, and a show is taken without asking only if it is the only one     *)
(* meant of the whole list.                                                  *)
THEOREM ListsWhole == CatalogueSpec => []ListsAreWhole
<1>1. CatalogueInv => ListsAreWhole
  BY DEF CatalogueInv
<1> QED
  BY <1>1, CatalogueInductive, PTL

-----------------------------------------------------------------------------
(* Selections                                                                *)

Owning == {"alias", "detail", "episodes", "freeze", "record", "conflict", "display", "fetch",
           "store", "ready"}
Planning == {"episodes", "freeze", "record"}

(* From the lock on, a process has its season.                               *)
Locked == \A p \in Processes : pc[p] \in Owning => Mine(p)

(* What is frozen or planned for a request is in its range.                  *)
Ranged == /\ \A r \in Requests : \A v \in DOMAIN frozen[r] : InRange(r, v)
          /\ \A p \in Processes : \A v \in DOMAIN plan[p] \union known[p] : InRange(request[p], v)

(* A plan is made from nothing, of what the provider listed.                 *)
Planned == \A p \in Processes :
    /\ pc[p] \in {"off", "resolve", "alias", "detail"} => plan[p] = Absent /\ known[p] = {}
    /\ pc[p] = "episodes" => DOMAIN plan[p] \subseteq known[p]
    /\ pc[p] = "record" => frozen[request[p]] = Absent

(* A plan agrees with what is frozen, which nobody else can change.          *)
PlanAgrees == \A p \in Processes, r \in Requests :
    pc[p] \in Planning =>
        \A v \in Selected(plan[p]) \intersect Selected(frozen[r]) : plan[p][v] = frozen[r][v]

(* The plan of a whole season is one of the provider's lists.                *)
PlanWhole == \A p \in Processes :
    Episodes[request[p]] = {} =>
        /\ pc[p] = "episodes" => known[p] \in seasons
        /\ pc[p] \in {"freeze", "record"} => DOMAIN plan[p] \in seasons

SelectionInv == /\ SelectionsTypeOK /\ Locked /\ Ranged /\ Planned /\ PlanAgrees /\ PlanWhole
                /\ SelectionsAgree /\ WholeIsWhole

(* A manifest is a function from some variants to files.                     *)
LEMMA ManifestFacts ==
    ASSUME NEW m \in Manifests
    PROVE  /\ DOMAIN m \subseteq Variants
           /\ m \in [DOMAIN m -> Versions \union {Unavailable}]
           /\ Selected(m) \subseteq DOMAIN m
           /\ DOMAIN m = {} => m = Absent
<1>1. PICK vs \in SUBSET Variants : m \in [vs -> Versions \union {Unavailable}]
  BY DEF Manifests
<1>2. DOMAIN m = vs
  BY <1>1
<1>3. vs = {} => m = Absent
  BY <1>1 DEF Absent
<1> QED
  BY <1>1, <1>2, <1>3 DEF Selected

LEMMA FunctionsAreManifests ==
    ASSUME NEW vs \in SUBSET Variants, NEW m \in [vs -> Versions \union {Unavailable}]
    PROVE  m \in Manifests
BY DEF Manifests

LEMMA AbsentIsEmpty ==
    /\ Absent \in Manifests /\ DOMAIN Absent = {} /\ Selected(Absent) = {}
<1>1. Absent \in [{} -> Versions \union {Unavailable}] /\ DOMAIN Absent = {}
  BY DEF Absent
<1>2. Absent \in Manifests
  <2>1. {} \in SUBSET Variants
    OBVIOUS
  <2> QED
    BY <1>1, <2>1, Zenon DEF Manifests
<1> QED
  BY <1>1, <1>2 DEF Selected

LEMMA SelectionsAtFirst == SelectionsInit => SelectionInv
<1> SUFFICES ASSUME SelectionsInit PROVE SelectionInv
  OBVIOUS
<1>1. SelectionsTypeOK
  <2>1. (CHOOSE r \in Requests : TRUE) \in Requests
    BY SelectionsAssumption
  <2>2. /\ changes \in 0..MaxChanges
        /\ pc \in [Processes -> {"off", "resolve", "alias", "detail", "episodes", "freeze", "record",
                                 "conflict", "display", "fetch", "store", "ready"}]
    BY SelectionsAssumption DEF SelectionsInit
  <2>3. /\ frozen \in [Requests -> Manifests] /\ plan \in [Processes -> Manifests]
        /\ known \in [Processes -> SUBSET Variants] /\ half \subseteq Requests
    BY AbsentIsEmpty DEF SelectionsInit
  <2>4. /\ owner \in [Seasons -> Processes \union {Nobody}] /\ got \in [Processes -> Titles]
        /\ request \in [Processes -> Requests] /\ display \in Titles \union {"absent", "torn"}
    BY <2>1 DEF SelectionsInit
  <2> QED
    BY <2>2, <2>3, <2>4 DEF SelectionsInit, SelectionsTypeOK
<1>2. Locked /\ Planned /\ PlanAgrees /\ PlanWhole
  BY DEF SelectionsInit, Locked, Planned, PlanAgrees, PlanWhole, Owning, Planning
<1>3. Ranged /\ SelectionsAgree /\ WholeIsWhole
  BY AbsentIsEmpty DEF SelectionsInit, Ranged, SelectionsAgree, WholeIsWhole
<1> QED
  BY <1>1, <1>2, <1>3 DEF SelectionInv

(* An error or the end of an invocation, whatever it was at.                 *)
LEMMA Leaving ==
    ASSUME SelectionInv, NEW p \in Processes, Leave(p), UNCHANGED <<providerVars, frozen, half, seasons>>,
           display' \in Titles \union {"absent", "torn"}
    PROVE  SelectionInv'
<1> USE DEF Leave, Goto, Release, Fresh, Mine, providerVars
<1>1. SelectionsTypeOK'
  <2>1. (CHOOSE r \in Requests : TRUE) \in Requests /\ (CHOOSE t \in Titles : TRUE) \in Titles
    BY SelectionsAssumption DEF SelectionInv, SelectionsTypeOK
  <2> QED
    BY <2>1, AbsentIsEmpty DEF SelectionInv, SelectionsTypeOK
<1>2. Locked'
  BY DEF SelectionInv, SelectionsTypeOK, Locked, Owning, Seasons
<1>3. Ranged' /\ Planned'
  BY AbsentIsEmpty DEF SelectionInv, SelectionsTypeOK, Ranged, Planned, InRange
<1>4. PlanAgrees' /\ PlanWhole'
  <2>1. \A q \in Processes \ {p} : /\ pc'[q] = pc[q] /\ request'[q] = request[q]
                                 /\ plan'[q] = plan[q] /\ known'[q] = known[q]
    BY DEF SelectionInv, SelectionsTypeOK
  <2>2. pc'[p] = "off"
    BY DEF SelectionInv, SelectionsTypeOK
  <2>3. \A q \in Processes : pc'[q] \in Planning =>
           /\ pc[q] \in Planning /\ request'[q] = request[q]
           /\ plan'[q] = plan[q] /\ known'[q] = known[q]
    BY <2>1, <2>2 DEF Planning
  <2>4. PlanAgrees'
    <3> SUFFICES ASSUME NEW q \in Processes, NEW r \in Requests, pc'[q] \in Planning,
                        NEW v \in Selected(plan'[q]) \intersect Selected(frozen[r])
                 PROVE  plan'[q][v] = frozen[r][v]
      BY DEF PlanAgrees, Selected
    <3>1. pc[q] \in Planning /\ plan'[q] = plan[q]
      BY <2>3
    <3> QED
      BY <3>1 DEF SelectionInv, PlanAgrees
  <2>5. PlanWhole'
    <3> SUFFICES ASSUME NEW q \in Processes, pc'[q] \in Planning, Episodes[request'[q]] = {}
                 PROVE  /\ pc'[q] = "episodes" => known'[q] \in seasons
                        /\ pc'[q] \in {"freeze", "record"} => DOMAIN plan'[q] \in seasons
      BY DEF PlanWhole, Planning
    <3>1. q # p /\ request'[q] = request[q] /\ plan'[q] = plan[q] /\ known'[q] = known[q]
      BY <2>2, <2>3 DEF Planning
    <3>2. pc'[q] = pc[q]
      BY <2>1, <3>1
    <3> QED
      BY <3>1, <3>2 DEF SelectionInv, PlanWhole
  <2> QED
    BY <2>4, <2>5
<1>5. SelectionsAgree' /\ WholeIsWhole'
  BY DEF SelectionInv, SelectionsAgree, WholeIsWhole, Selected
<1> QED
  BY <1>1, <1>2, <1>3, <1>4, <1>5 DEF SelectionInv

(* Steps that only go on, with the season in hand and no longer planning.    *)
LEMMA GoingOn ==
    ASSUME SelectionInv, NEW p \in Processes, pc[p] \in Owning, NEW s, Goto(p, s),
           s \in {"conflict", "display", "fetch", "store", "ready"},
           UNCHANGED <<providerVars, frozen, half, owner, request, known, plan, seasons>>,
           display' \in Titles \union {"absent", "torn"}, got' \in [Processes -> Titles]
    PROVE  SelectionInv'
<1>1. SelectionsTypeOK'
  BY DEF SelectionInv, SelectionsTypeOK, Goto, providerVars
<1>2. pc'[p] = s /\ \A q \in Processes \ {p} : pc'[q] = pc[q]
  BY DEF SelectionInv, SelectionsTypeOK, Goto
<1>3. Locked' /\ Ranged' /\ Planned'
  BY <1>2 DEF SelectionInv, Locked, Ranged, Planned, Mine, Owning, InRange
<1>4. PlanAgrees' /\ PlanWhole' /\ SelectionsAgree' /\ WholeIsWhole'
  BY <1>2 DEF SelectionInv, PlanAgrees, PlanWhole, SelectionsAgree, WholeIsWhole, Planning, Selected
<1> QED
  BY <1>1, <1>3, <1>4 DEF SelectionInv

LEMMA Beginning == ASSUME SelectionInv, NEW p \in Processes, Begin(p) PROVE SelectionInv'
<1>1. PICK r \in Requests :
          /\ request' = [request EXCEPT ![p] = r]
          /\ \/ frozen[r] = Absent /\ Goto(p, "resolve") /\ UNCHANGED owner
             \/ /\ frozen[r] # Absent /\ owner[Of[r]] = Nobody
                /\ owner' = [owner EXCEPT ![Of[r]] = p]
                /\ Goto(p, "display")
  BY DEF Begin
<1>2. pc[p] = "off" /\ UNCHANGED <<providerVars, diskVars, known, plan, got, seasons>>
  BY DEF Begin
<1>3. /\ request'[p] = r /\ pc'[p] \in {"resolve", "display"}
      /\ plan'[p] = Absent /\ known'[p] = {}
      /\ \A q \in Processes \ {p} : pc'[q] = pc[q] /\ request'[q] = request[q]
  BY <1>1, <1>2 DEF SelectionInv, SelectionsTypeOK, Planned, Goto
<1>4. SelectionsTypeOK'
  BY <1>1, <1>2 DEF SelectionInv, SelectionsTypeOK, Goto, providerVars, diskVars, Seasons
<1>5. Locked'
  <2>1. Of[r] \in Seasons /\ \A q \in Processes : Of[request[q]] \in Seasons
    BY DEF SelectionInv, SelectionsTypeOK, Seasons
  <2>2. \A q \in Processes : owner[Of[request[q]]] = q => owner'[Of[request[q]]] = q
    BY <1>1, <2>1, SelectionsAssumption DEF SelectionInv, SelectionsTypeOK
  <2>3. pc'[p] = "display" => owner'[Of[r]] = p
    BY <1>1, <1>2, <2>1 DEF SelectionInv, SelectionsTypeOK, Goto
  <2> QED
    BY <1>3, <2>2, <2>3 DEF SelectionInv, Locked, Mine, Owning
<1>6. Ranged' /\ Planned'
  BY <1>2, <1>3, AbsentIsEmpty DEF SelectionInv, Ranged, Planned, InRange, diskVars
<1>7. PlanAgrees' /\ PlanWhole'
  BY <1>2, <1>3 DEF SelectionInv, PlanAgrees, PlanWhole, Planning, Selected, diskVars
<1>8. SelectionsAgree' /\ WholeIsWhole'
  BY <1>2 DEF SelectionInv, SelectionsAgree, WholeIsWhole, Selected, diskVars
<1> QED
  BY <1>4, <1>5, <1>6, <1>7, <1>8 DEF SelectionInv

LEMMA Locking == ASSUME SelectionInv, NEW p \in Processes, Lock(p) PROVE SelectionInv'
<1>1. CASE Leave(p)
  BY <1>1, Leaving DEF Lock, diskVars, SelectionInv, SelectionsTypeOK
<1>2. CASE /\ owner[Of[request[p]]] = Nobody
           /\ owner' = [owner EXCEPT ![Of[request[p]]] = p]
           /\ Goto(p, "alias") /\ UNCHANGED localVars
  <2>1. pc[p] = "resolve" /\ UNCHANGED <<providerVars, diskVars, localVars, seasons>>
    BY <1>2 DEF Lock
  <2>2. pc'[p] = "alias" /\ \A q \in Processes \ {p} : pc'[q] = pc[q]
    BY <1>2 DEF SelectionInv, SelectionsTypeOK, Goto
  <2>3. SelectionsTypeOK'
    BY <1>2, <2>1 DEF SelectionInv, SelectionsTypeOK, Goto, providerVars, diskVars, localVars, Seasons
  <2>4. Locked'
    <3>1. \A q \in Processes : Of[request[q]] \in Seasons
      BY DEF SelectionInv, SelectionsTypeOK, Seasons
    <3>2. /\ owner'[Of[request[p]]] = p
          /\ \A q \in Processes : owner[Of[request[q]]] = q => owner'[Of[request[q]]] = q
      BY <1>2, <3>1, SelectionsAssumption DEF SelectionInv, SelectionsTypeOK
    <3> QED
      BY <2>1, <2>2, <3>2 DEF SelectionInv, Locked, Mine, Owning, localVars
  <2>5. Ranged' /\ Planned'
    BY <2>1, <2>2 DEF SelectionInv, Ranged, Planned, InRange, diskVars, localVars
  <2>6. PlanAgrees' /\ PlanWhole'
    BY <2>1, <2>2 DEF SelectionInv, PlanAgrees, PlanWhole, Planning, Selected, diskVars, localVars
  <2>7. SelectionsAgree' /\ WholeIsWhole'
    BY <2>1 DEF SelectionInv, SelectionsAgree, WholeIsWhole, Selected, diskVars
  <2> QED
    BY <2>3, <2>4, <2>5, <2>6, <2>7 DEF SelectionInv
<1> QED
  BY <1>1, <1>2 DEF Lock

(* What a restriction of a frozen manifest says, it says truly.              *)
LEMMA RestrictionFacts ==
    ASSUME NEW m \in Manifests, NEW r \in Requests
    PROVE  /\ Restricted(m, r) \in Manifests
           /\ \A v \in DOMAIN Restricted(m, r) :
                 v \in DOMAIN m /\ InRange(r, v) /\ Restricted(m, r)[v] = m[v]
           /\ (\A v \in DOMAIN m : InRange(r, v)) => DOMAIN Restricted(m, r) = DOMAIN m
<1>1. DOMAIN m \subseteq Variants /\ m \in [DOMAIN m -> Versions \union {Unavailable}]
  BY ManifestFacts
<1> DEFINE vs == {w \in DOMAIN m : InRange(r, w)}
<1>2. vs \in SUBSET Variants
  BY <1>1
<1>3. Restricted(m, r) \in [vs -> Versions \union {Unavailable}]
  BY <1>1 DEF Restricted
<1>4. Restricted(m, r) \in Manifests
  BY <1>2, <1>3 DEF Manifests
<1> QED
  BY <1>4 DEF Restricted

LEMMA Aliasing == ASSUME SelectionInv, NEW p \in Processes, Alias(p) PROVE SelectionInv'
<1>1. pc[p] = "alias" /\ UNCHANGED <<providerVars, diskVars, owner, request, known, got, seasons>>
  BY DEF Alias, localVars
<1>2. CASE Goto(p, "conflict") /\ UNCHANGED localVars
  BY <1>1, <1>2, GoingOn DEF localVars, diskVars, SelectionInv, SelectionsTypeOK, Owning
<1>3. CASE Goto(p, "detail") /\ UNCHANGED localVars
  <2>1. pc'[p] = "detail" /\ \A q \in Processes \ {p} : pc'[q] = pc[q]
    BY <1>3 DEF SelectionInv, SelectionsTypeOK, Goto
  <2>2. SelectionsTypeOK'
    BY <1>1, <1>3 DEF SelectionInv, SelectionsTypeOK, Goto, providerVars, diskVars, localVars
  <2>3. Locked' /\ Ranged' /\ Planned'
    BY <1>1, <1>3, <2>1 DEF SelectionInv, Locked, Ranged, Planned, Mine, Owning, InRange, localVars,
       diskVars
  <2>4. PlanAgrees' /\ PlanWhole' /\ SelectionsAgree' /\ WholeIsWhole'
    BY <1>1, <1>3, <2>1 DEF SelectionInv, PlanAgrees, PlanWhole, SelectionsAgree, WholeIsWhole,
       Planning, Selected, localVars, diskVars
  <2> QED
    BY <2>2, <2>3, <2>4 DEF SelectionInv
<1>4. ASSUME NEW m \in Aliases(request[p]), plan' = [plan EXCEPT ![p] = m], Goto(p, "freeze")
      PROVE  SelectionInv'
  <2> DEFINE r == request[p]
  <2>1. r \in Requests
    BY DEF SelectionInv, SelectionsTypeOK
  <2>2. PICK q \in Requests : Evidence(q, r) /\ m = Restricted(frozen[q], r)
    BY DEF Aliases
  <2>3. frozen[q] \in Manifests
    BY DEF SelectionInv, SelectionsTypeOK
  <2>4. /\ m \in Manifests
        /\ \A v \in DOMAIN m : v \in DOMAIN frozen[q] /\ InRange(r, v) /\ m[v] = frozen[q][v]
        /\ (\A v \in DOMAIN frozen[q] : InRange(r, v)) => DOMAIN m = DOMAIN frozen[q]
    BY <2>1, <2>2, <2>3, RestrictionFacts
  <2>5. /\ pc'[p] = "freeze" /\ plan'[p] = m
        /\ \A o \in Processes \ {p} : pc'[o] = pc[o] /\ plan'[o] = plan[o]
    BY <1>4 DEF SelectionInv, SelectionsTypeOK, Goto
  <2>6. SelectionsTypeOK'
    BY <1>1, <1>4, <2>4 DEF SelectionInv, SelectionsTypeOK, Goto, providerVars, diskVars
  <2>7. Locked' /\ Planned'
    BY <1>1, <2>5 DEF SelectionInv, Locked, Planned, Mine, Owning, diskVars
  <2>8. Ranged'
    <3>1. \A v \in DOMAIN m : InRange(r, v)
      BY <2>4
    <3> QED
      BY <1>1, <2>5, <3>1 DEF SelectionInv, Ranged, InRange, diskVars
  <2>9. PlanAgrees'
    <3>1. \A s \in Requests : \A v \in Selected(m) \intersect Selected(frozen[s]) :
              m[v] = frozen[s][v]
      BY <2>4 DEF SelectionInv, SelectionsAgree, Selected
    <3> QED
      BY <1>1, <2>5, <3>1 DEF SelectionInv, PlanAgrees, Planning, Selected, diskVars
  <2>10. PlanWhole'
    <3>1. ASSUME Episodes[r] = {} PROVE DOMAIN m \in seasons
      <4>1. Of[q] = Of[r] /\ frozen[q] # Absent /\ Episodes[q] = {}
        BY <2>2, <3>1 DEF Evidence
      <4>2. \A v \in DOMAIN frozen[q] : InRange(r, v)
        BY <3>1, <4>1 DEF SelectionInv, Ranged, InRange
      <4> QED
        BY <2>4, <4>1, <4>2 DEF SelectionInv, WholeIsWhole
    <3> QED
      BY <1>1, <2>5, <3>1 DEF SelectionInv, PlanWhole
  <2>11. SelectionsAgree' /\ WholeIsWhole'
    BY <1>1 DEF SelectionInv, SelectionsAgree, WholeIsWhole, Selected, diskVars
  <2> QED
    BY <2>6, <2>7, <2>8, <2>9, <2>10, <2>11 DEF SelectionInv
<1>5. CASE /\ Cardinality(Aliases(request[p])) = 1
           /\ plan' = [plan EXCEPT ![p] = CHOOSE m \in Aliases(request[p]) : TRUE]
           /\ Goto(p, "freeze")
  <2>1. Aliases(request[p]) # {}
    BY <1>5, FS_EmptySet
  <2>2. (CHOOSE m \in Aliases(request[p]) : TRUE) \in Aliases(request[p])
    BY <2>1
  <2> QED
    BY <1>4, <1>5, <2>2
<1> QED
  BY <1>2, <1>3, <1>5 DEF Alias

LEMMA Detailing == ASSUME SelectionInv, NEW p \in Processes, Detail(p) PROVE SelectionInv'
<1> DEFINE r == request[p]
           there == {v \in listed : InRange(r, v)}
<1>1. CASE Fails(p)
  BY <1>1, Leaving DEF Fails, diskVars, SelectionInv, SelectionsTypeOK
<1>2. CASE /\ known' = [known EXCEPT ![p] = there]
           /\ seasons' = seasons \union {ListOf(Of[r])}
           /\ Goto(p, "episodes")
           /\ UNCHANGED <<providerVars, diskVars, owner, request, plan, got>>
  <2>1. pc[p] = "detail" /\ there \subseteq Variants /\ r \in Requests
    BY DEF Detail, SelectionInv, SelectionsTypeOK
  <2>2. /\ pc'[p] = "episodes" /\ known'[p] = there
        /\ \A o \in Processes \ {p} : pc'[o] = pc[o] /\ known'[o] = known[o]
    BY <1>2 DEF SelectionInv, SelectionsTypeOK, Goto
  <2>3. SelectionsTypeOK'
    BY <1>2, <2>1 DEF SelectionInv, SelectionsTypeOK, Goto, providerVars, diskVars
  <2>4. Locked' /\ Planned'
    BY <1>2, <2>1, <2>2, AbsentIsEmpty DEF SelectionInv, Locked, Planned, Mine, Owning, diskVars
  <2>5. Ranged'
    BY <1>2, <2>2 DEF SelectionInv, Ranged, InRange, diskVars
  <2>6. PlanAgrees'
    BY <1>2, <2>1, <2>2, AbsentIsEmpty DEF SelectionInv, PlanAgrees, Planned, Planning, Selected,
       diskVars
  <2>7. PlanWhole'
    <3> SUFFICES ASSUME NEW o \in Processes, Episodes[request[o]] = {}
                 PROVE  /\ pc'[o] = "episodes" => known'[o] \in seasons'
                        /\ pc'[o] \in {"freeze", "record"} => DOMAIN plan[o] \in seasons'
      BY <1>2 DEF PlanWhole
    <3>1. CASE o = p
      <4>1. there = ListOf(Of[r])
        BY <3>1 DEF InRange, ListOf
      <4>2. known'[o] \in seasons' /\ pc'[o] = "episodes"
        BY <1>2, <2>2, <3>1, <4>1
      <4> QED
        BY <4>2
    <3>2. CASE o # p
      BY <1>2, <2>2, <3>2 DEF SelectionInv, PlanWhole
    <3> QED
      BY <3>1, <3>2
  <2>8. SelectionsAgree' /\ WholeIsWhole'
    BY <1>2 DEF SelectionInv, SelectionsAgree, WholeIsWhole, Selected, diskVars
  <2> QED
    BY <2>3, <2>4, <2>5, <2>6, <2>7, <2>8 DEF SelectionInv
<1> QED
  BY <1>1, <1>2 DEF Detail

(* A file chosen for a variant is the one frozen for it, if there is one.    *)
LEMMA ChoiceFacts ==
    ASSUME SelectionInv, NEW v \in Variants
    PROVE  /\ Choice(v) \in Versions \union {Unavailable}
           /\ \A r \in Requests : v \in Selected(frozen[r]) => Choice(v) = frozen[r][v]
<1>1. \A q \in Requests : v \in Selected(frozen[q]) => frozen[q][v] \in Versions \union {Unavailable}
  <2> SUFFICES ASSUME NEW q \in Requests, v \in Selected(frozen[q])
               PROVE  frozen[q][v] \in Versions \union {Unavailable}
    OBVIOUS
  <2>1. frozen[q] \in Manifests
    BY DEF SelectionInv, SelectionsTypeOK
  <2> QED
    BY <2>1, ManifestFacts
<1>2. CASE Cached(v) = {}
  BY <1>2, SMTT(30) DEF Choice, Cached, SelectionInv, SelectionsTypeOK
<1>3. CASE Cached(v) # {}
  <2>1. Choice(v) \in Cached(v)
    BY <1>3 DEF Choice
  <2>2. PICK q \in Requests : v \in Selected(frozen[q]) /\ Choice(v) = frozen[q][v]
    BY <2>1 DEF Cached
  <2> QED
    BY <1>1, <2>2 DEF SelectionInv, SelectionsAgree
<1> QED
  BY <1>2, <1>3

LEMMA Choosing == ASSUME SelectionInv, NEW p \in Processes, Episode(p) PROVE SelectionInv'
<1> DEFINE r == request[p]
           open == known[p] \ DOMAIN plan[p]
<1>1. /\ pc[p] = "episodes" /\ plan[p] \in Manifests /\ known[p] \subseteq Variants
      /\ DOMAIN plan[p] \subseteq known[p]
  BY DEF Episode, SelectionInv, SelectionsTypeOK, Planned
<1>2. CASE Fails(p)
  BY <1>2, Leaving DEF Fails, diskVars, SelectionInv, SelectionsTypeOK
<1>3. CASE /\ open = {} /\ Goto(p, "freeze")
           /\ UNCHANGED <<providerVars, diskVars, owner, localVars, seasons>>
  <2>1. pc'[p] = "freeze" /\ \A o \in Processes \ {p} : pc'[o] = pc[o]
    BY <1>3 DEF SelectionInv, SelectionsTypeOK, Goto
  <2>2. DOMAIN plan[p] = known[p]
    BY <1>1, <1>3
  <2>3. SelectionsTypeOK'
    BY <1>3 DEF SelectionInv, SelectionsTypeOK, Goto, providerVars, diskVars, localVars
  <2>4. Locked' /\ Planned' /\ Ranged'
    BY <1>1, <1>3, <2>1 DEF SelectionInv, Locked, Planned, Ranged, Mine, Owning, InRange, diskVars,
       localVars
  <2>5. PlanAgrees' /\ SelectionsAgree' /\ WholeIsWhole'
    BY <1>1, <1>3, <2>1 DEF SelectionInv, PlanAgrees, SelectionsAgree, WholeIsWhole, Planning,
       Selected, diskVars, localVars
  <2>6. PlanWhole'
    BY <1>1, <1>3, <2>1, <2>2 DEF SelectionInv, PlanWhole, localVars
  <2> QED
    BY <2>3, <2>4, <2>5, <2>6 DEF SelectionInv
<1>4. ASSUME NEW next \in SUBSET open,
             plan' = [plan EXCEPT ![p] =
                         [v \in DOMAIN plan[p] \union next |->
                             IF v \in next THEN [w \in next |-> Choice(w)][v] ELSE plan[p][v]]],
             UNCHANGED <<providerVars, diskVars, owner, pc, request, known, got, seasons>>
      PROVE  SelectionInv'
  <2> DEFINE m == [v \in DOMAIN plan[p] \union next |->
                      IF v \in next THEN [w \in next |-> Choice(w)][v] ELSE plan[p][v]]
  <2>1. plan'[p] = m /\ \A o \in Processes \ {p} : plan'[o] = plan[o]
    BY <1>4 DEF SelectionInv, SelectionsTypeOK
  <2>2. DOMAIN m = DOMAIN plan[p] \union next /\ DOMAIN m \subseteq known[p]
    BY <1>1
  <2>3. \A v \in next : m[v] = Choice(v)
    OBVIOUS
  <2>4. \A v \in DOMAIN plan[p] : m[v] = plan[p][v]
    OBVIOUS
  <2>5. m \in Manifests
    <3>1. \A v \in next : Choice(v) \in Versions \union {Unavailable}
      BY <1>1, ChoiceFacts
    <3>2. \A v \in DOMAIN plan[p] : plan[p][v] \in Versions \union {Unavailable}
      BY <1>1, ManifestFacts
    <3>3. m \in [DOMAIN plan[p] \union next -> Versions \union {Unavailable}]
      BY <3>1, <3>2
    <3>4. DOMAIN plan[p] \union next \in SUBSET Variants
      BY <1>1
    <3> HIDE DEF m
    <3> QED
      BY <3>3, <3>4, FunctionsAreManifests
  <2>6. \A s \in Requests : \A v \in Selected(m) \intersect Selected(frozen[s]) :
            m[v] = frozen[s][v]
    <3> SUFFICES ASSUME NEW s \in Requests, NEW v \in Selected(m), v \in Selected(frozen[s])
                 PROVE  m[v] = frozen[s][v]
      OBVIOUS
    <3>1. v \in DOMAIN m /\ m[v] # Unavailable
      BY DEF Selected
    <3>2. CASE v \in next
      BY <1>1, <2>3, <3>2, ChoiceFacts
    <3>3. CASE v \in DOMAIN plan[p]
      <4>1. v \in Selected(plan[p])
        BY <2>4, <3>1, <3>3 DEF Selected
      <4> QED
        BY <1>1, <2>4, <3>3, <4>1 DEF SelectionInv, PlanAgrees, Planning
    <3> QED
      BY <2>2, <3>1, <3>2, <3>3
  <2> HIDE DEF m
  <2>7. SelectionsTypeOK'
    BY <1>4, <2>1, <2>5 DEF SelectionInv, SelectionsTypeOK, providerVars, diskVars, m
  <2>8. Locked' /\ Planned'
    BY <1>1, <1>4, <2>1, <2>2 DEF SelectionInv, Locked, Planned, Mine, Owning, diskVars
  <2>9. Ranged'
    BY <1>4, <2>1, <2>2 DEF SelectionInv, Ranged, InRange, diskVars
  <2>10. PlanAgrees'
    BY <1>4, <2>1, <2>6 DEF SelectionInv, PlanAgrees, Selected, diskVars
  <2>11. PlanWhole' /\ SelectionsAgree' /\ WholeIsWhole'
    BY <1>1, <1>4, <2>1 DEF SelectionInv, PlanWhole, SelectionsAgree, WholeIsWhole, Selected,
       diskVars
  <2> QED
    BY <2>7, <2>8, <2>9, <2>10, <2>11 DEF SelectionInv
<1>5. ASSUME NEW w \in open,
             plan' = [plan EXCEPT ![p] =
                         [v \in DOMAIN plan[p] \union {u \in open : Number[u] = Number[w]} |->
                             IF v \in {u \in open : Number[u] = Number[w]}
                             THEN [u \in {x \in open : Number[x] = Number[w]} |-> Choice(u)][v]
                             ELSE plan[p][v]]],
             UNCHANGED <<providerVars, diskVars, owner, pc, request, known, got, seasons>>
      PROVE  SelectionInv'
  BY <1>4, <1>5
<1> QED
  BY <1>2, <1>3, <1>5 DEF Episode

LEMMA Freezing == ASSUME SelectionInv, NEW p \in Processes, Freeze(p) PROVE SelectionInv'
<1>1. CASE Fails(p)
  BY <1>1, Leaving DEF Fails, diskVars, SelectionInv, SelectionsTypeOK
<1>2. CASE /\ frozen[request[p]] = Absent /\ half' = half \union {request[p]}
           /\ Goto(p, "record")
           /\ UNCHANGED <<providerVars, frozen, display, owner, localVars, seasons>>
  <2>1. pc[p] = "freeze" /\ pc'[p] = "record" /\ \A o \in Processes \ {p} : pc'[o] = pc[o]
    BY <1>2 DEF Freeze, SelectionInv, SelectionsTypeOK, Goto
  <2>2. SelectionsTypeOK'
    BY <1>2 DEF SelectionInv, SelectionsTypeOK, Goto, providerVars, localVars
  <2>3. Locked' /\ Planned' /\ Ranged'
    BY <1>2, <2>1 DEF SelectionInv, Locked, Planned, Ranged, Mine, Owning, InRange, localVars
  <2>4. PlanAgrees' /\ PlanWhole' /\ SelectionsAgree' /\ WholeIsWhole'
    BY <1>2, <2>1 DEF SelectionInv, PlanAgrees, PlanWhole, SelectionsAgree, WholeIsWhole, Planning,
       Selected, localVars
  <2> QED
    BY <2>2, <2>3, <2>4 DEF SelectionInv
<1> QED
  BY <1>1, <1>2 DEF Freeze

LEMMA Recording == ASSUME SelectionInv, NEW p \in Processes, Record(p) PROVE SelectionInv'
<1> DEFINE r == request[p]
<1>1. CASE Fails(p)
  BY <1>1, Leaving DEF Fails, diskVars, SelectionInv, SelectionsTypeOK
<1>2. CASE /\ frozen' = [frozen EXCEPT ![r] = plan[p]] /\ half' = half \ {r}
           /\ Goto(p, "display")
           /\ UNCHANGED <<providerVars, display, owner, localVars, seasons>>
  <2>1. /\ pc[p] = "record" /\ pc'[p] = "display" /\ \A o \in Processes \ {p} : pc'[o] = pc[o]
        /\ r \in Requests /\ plan[p] \in Manifests
    BY <1>2 DEF Record, SelectionInv, SelectionsTypeOK, Goto
  <2>2. frozen'[r] = plan[p] /\ \A s \in Requests \ {r} : frozen'[s] = frozen[s]
    BY <1>2, <2>1 DEF SelectionInv, SelectionsTypeOK
  <2>3. \A o \in Processes \ {p} : pc[o] \in Owning => Of[request[o]] # Of[r]
    BY <2>1 DEF SelectionInv, Locked, Mine, Owning
  <2>4. \A v \in DOMAIN plan[p] : InRange(r, v)
    BY DEF SelectionInv, Ranged
  <2>5. SelectionsTypeOK'
    BY <1>2, <2>1 DEF SelectionInv, SelectionsTypeOK, Goto, providerVars, localVars
  <2>6. Locked' /\ Planned'
    BY <1>2, <2>1, <2>2, <2>3 DEF SelectionInv, Locked, Planned, Mine, Owning, localVars
  <2>7. Ranged'
    BY <1>2, <2>2, <2>4 DEF SelectionInv, Ranged, InRange, localVars
  <2>8. PlanAgrees'
    <3> SUFFICES ASSUME NEW o \in Processes, NEW s \in Requests, pc'[o] \in Planning,
                        NEW v \in Selected(plan[o]), v \in Selected(frozen'[s])
                 PROVE  plan[o][v] = frozen'[s][v]
      BY <1>2 DEF PlanAgrees, Selected, localVars
    <3>1. o # p /\ pc[o] \in Planning
      BY <2>1 DEF Planning
    <3>2. CASE s = r
      <4>1. InRange(request[o], v) /\ InRange(r, v)
        BY <2>2, <2>4, <3>2 DEF SelectionInv, Ranged, Selected
      <4> QED
        BY <2>3, <3>1, <4>1 DEF InRange, Owning, Planning
    <3>3. CASE s # r
      BY <2>2, <3>1, <3>3 DEF SelectionInv, PlanAgrees
    <3> QED
      BY <3>2, <3>3
  <2>9. PlanWhole'
    BY <1>2, <2>1 DEF SelectionInv, PlanWhole, localVars
  <2>10. SelectionsAgree'
    <3>1. \A s \in Requests : \A v \in Selected(plan[p]) \intersect Selected(frozen[s]) :
              plan[p][v] = frozen[s][v]
      BY <2>1 DEF SelectionInv, PlanAgrees, Planning
    <3> SUFFICES ASSUME NEW q \in Requests, NEW s \in Requests,
                        NEW v \in Selected(frozen'[q]), v \in Selected(frozen'[s])
                 PROVE  frozen'[q][v] = frozen'[s][v]
      BY DEF SelectionsAgree, Selected
    <3>2. CASE q = r /\ s = r
      BY <3>2
    <3>3. CASE q = r /\ s # r
      BY <2>2, <3>1, <3>3
    <3>4. CASE q # r /\ s = r
      BY <2>2, <3>1, <3>4
    <3>5. CASE q # r /\ s # r
      BY <2>2, <3>5 DEF SelectionInv, SelectionsAgree
    <3> QED
      BY <3>2, <3>3, <3>4, <3>5
  <2>11. WholeIsWhole'
    BY <1>2, <2>1, <2>2 DEF SelectionInv, WholeIsWhole, PlanWhole
  <2> QED
    BY <2>5, <2>6, <2>7, <2>8, <2>9, <2>10, <2>11 DEF SelectionInv
<1> QED
  BY <1>1, <1>2 DEF Record

LEMMA Displaying ==
    ASSUME SelectionInv, NEW p \in Processes, Display(p) \/ FetchDisplay(p) \/ StoreDisplay(p)
    PROVE  SelectionInv'
<1>1. CASE Leave(p)
  BY <1>1, Leaving DEF Display, FetchDisplay, StoreDisplay, Fails, diskVars, SelectionInv,
     SelectionsTypeOK
<1>2. CASE ~Leave(p)
  <2>1. /\ pc[p] \in Owning
        /\ Goto(p, "ready") \/ Goto(p, "fetch") \/ Goto(p, "store")
        /\ UNCHANGED <<providerVars, frozen, half, owner, request, known, plan, seasons>>
    BY <1>2 DEF Display, FetchDisplay, StoreDisplay, Fails, diskVars, localVars, Owning
  <2>2. display' \in Titles \union {"absent", "torn"} /\ got' \in [Processes -> Titles]
    BY <1>2 DEF Display, FetchDisplay, StoreDisplay, Fails, diskVars, localVars, SelectionInv,
       SelectionsTypeOK
  <2> QED
    BY <2>1, <2>2, GoingOn
<1> QED
  BY <1>1, <1>2

LEMMA Pruning == ASSUME SelectionInv, Prune PROVE SelectionInv'
<1>1. PICK r \in Requests : frozen' = [frozen EXCEPT ![r] = Absent]
  BY DEF Prune
<1>2. UNCHANGED <<providerVars, half, display, owner, pc, localVars, seasons>>
  BY DEF Prune
<1>3. frozen'[r] = Absent /\ \A s \in Requests \ {r} : frozen'[s] = frozen[s]
  BY <1>1 DEF SelectionInv, SelectionsTypeOK
<1>4. SelectionsTypeOK'
  BY <1>1, <1>2, AbsentIsEmpty DEF SelectionInv, SelectionsTypeOK, providerVars, localVars
<1>5. Locked' /\ Ranged' /\ Planned' /\ PlanWhole' /\ WholeIsWhole'
  <2>1. Locked' /\ PlanWhole'
    BY <1>2 DEF SelectionInv, Locked, PlanWhole, Mine, localVars
  <2>2. Ranged'
    BY <1>2, <1>3, AbsentIsEmpty DEF SelectionInv, Ranged, InRange, localVars
  <2>3. Planned'
    BY <1>2, <1>3, <1>1 DEF SelectionInv, SelectionsTypeOK, Planned, localVars
  <2>4. WholeIsWhole'
    BY <1>2, <1>3 DEF SelectionInv, WholeIsWhole
  <2> QED
    BY <2>1, <2>2, <2>3, <2>4
<1>6. \A s \in Requests : \/ frozen'[s] = frozen[s]
                          \/ Selected(frozen'[s]) = {}
  BY <1>3, AbsentIsEmpty DEF Selected
<1>7. PlanAgrees' /\ SelectionsAgree'
  BY <1>2, <1>6 DEF SelectionInv, PlanAgrees, SelectionsAgree, Selected, localVars
<1> QED
  BY <1>4, <1>5, <1>7 DEF SelectionInv

LEMMA Changing == ASSUME SelectionInv, Change PROVE SelectionInv'
<1>1. UNCHANGED <<diskVars, owner, pc, localVars, seasons>>
  BY DEF Change
<1>2. SelectionsTypeOK'
  <2>1. changes' \in 0..MaxChanges
    BY SelectionsAssumption DEF Change, SelectionInv, SelectionsTypeOK
  <2>2. /\ listed' \subseteq Variants /\ title' \in Titles
        /\ best' \in [Variants -> Versions \union {Unavailable}]
    BY DEF Change, SelectionInv, SelectionsTypeOK
  <2> QED
    BY <1>1, <2>1, <2>2 DEF SelectionInv, SelectionsTypeOK, diskVars, localVars
<1>3. Locked' /\ Ranged' /\ Planned' /\ PlanAgrees' /\ PlanWhole' /\ SelectionsAgree' /\ WholeIsWhole'
  BY <1>1 DEF SelectionInv, Locked, Ranged, Planned, PlanAgrees, PlanWhole, SelectionsAgree,
     WholeIsWhole, Mine, InRange, Selected, diskVars, localVars
<1> QED
  BY <1>2, <1>3 DEF SelectionInv

LEMMA SelectionsGoOn == SelectionInv /\ [SelectionsNext]_selectionsVars => SelectionInv'
<1> SUFFICES ASSUME SelectionInv, [SelectionsNext]_selectionsVars PROVE SelectionInv'
  OBVIOUS
<1>1. ASSUME NEW p \in Processes, Step(p) PROVE SelectionInv'
  <2>1. CASE Refused(p) \/ Close(p) \/ Die(p)
    BY <2>1, Leaving DEF Refused, Close, Die, Fails, diskVars, SelectionInv, SelectionsTypeOK
  <2> QED
    BY <1>1, <2>1, Beginning, Locking, Aliasing, Detailing, Choosing, Freezing, Recording,
       Displaying DEF Step
<1>2. CASE UNCHANGED selectionsVars
  <2>1. SelectionsTypeOK' /\ Locked' /\ Ranged' /\ Planned'
    BY <1>2 DEF SelectionInv, SelectionsTypeOK, Locked, Ranged, Planned, Mine, InRange,
       selectionsVars, providerVars, diskVars, localVars
  <2>2. PlanAgrees' /\ PlanWhole' /\ SelectionsAgree' /\ WholeIsWhole'
    BY <1>2 DEF SelectionInv, PlanAgrees, PlanWhole, SelectionsAgree, WholeIsWhole, Selected,
       selectionsVars, diskVars, localVars
  <2> QED
    BY <2>1, <2>2 DEF SelectionInv
<1> QED
  BY <1>1, <1>2, Pruning, Changing DEF SelectionsNext

LEMMA SelectionInductive == SelectionsSpec => []SelectionInv
BY SelectionsAtFirst, SelectionsGoOn, PTL DEF SelectionsSpec

(* Type correctness of Selections.                                           *)
THEOREM SelectionsTyped == SelectionsSpec => []SelectionsTypeOK
BY SelectionInductive, PTL DEF SelectionInv

(* For any processes, requests and changes of the catalogue: frozen requests *)
(* agree on the file of every episode, and a frozen whole season is one the  *)
(* provider has listed.                                                      *)
THEOREM SelectionsConsistent == SelectionsSpec => []SelectionsHold
BY SelectionInductive, PTL DEF SelectionInv, SelectionsHold

(* A frozen selection is only ever pruned, and a display record never        *)
(* replaced.                                                                 *)
THEOREM FrozenForGood == SelectionsSpec => NothingRewritten
<1> DEFINE StillFrozen ==
               /\ \A r \in Requests : frozen[r] # Absent => frozen'[r] \in {frozen[r], Absent}
               /\ display # "absent" => display' = display
<1>1. SelectionInv /\ [SelectionsNext]_selectionsVars => [StillFrozen]_selectionsVars
  <2> SUFFICES ASSUME SelectionInv, [SelectionsNext]_selectionsVars PROVE StillFrozen \/ UNCHANGED selectionsVars
    OBVIOUS
  <2>1. CASE UNCHANGED <<frozen, display>>
    BY <2>1
  <2>2. ASSUME NEW p \in Processes, Record(p) PROVE StillFrozen
    <3>1. /\ frozen[request[p]] = Absent /\ frozen \in [Requests -> Manifests]
          /\ UNCHANGED display
      BY <2>2 DEF SelectionInv, SelectionsTypeOK, Planned, Record, Fails, diskVars
    <3>2. frozen' = frozen \/ frozen' = [frozen EXCEPT ![request[p]] = plan[p]]
      BY <2>2 DEF Record, Fails, diskVars
    <3> QED
      BY <3>1, <3>2
  <2>3. ASSUME NEW p \in Processes, StoreDisplay(p) PROVE StillFrozen
    BY <2>3 DEF StoreDisplay, Storable
  <2>4. CASE Prune
    BY <2>4 DEF Prune, SelectionInv, SelectionsTypeOK
  <2>5. ASSUME NEW p \in Processes, Step(p), ~Record(p), ~StoreDisplay(p)
        PROVE  UNCHANGED <<frozen, display>>
    BY <2>5 DEF Step, Begin, Lock, Alias, Refused, Detail, Episode, Freeze, Display, FetchDisplay,
       Close, Die, Fails, diskVars
  <2>6. CASE Change
    BY <2>6 DEF Change, diskVars
  <2> QED
    BY <2>1, <2>2, <2>3, <2>4, <2>5, <2>6 DEF SelectionsNext, selectionsVars, diskVars
<1> QED
  BY <1>1, SelectionInductive, PTL DEF SelectionsSpec, NothingRewritten

-----------------------------------------------------------------------------
(* Transcripts                                                               *)

LEMMA LeastIs ==
    ASSUME NEW K, K \subseteq Nat, K # {}
    PROVE  Min(K) \in K /\ \A y \in K : Min(K) <= y
<1> DEFINE Least(x) == x \in K /\ \A y \in K : x <= y
           G == {n \in Nat : (\E k \in K : k <= n) => \E x \in K : Least(x)}
<1>1. 0 \in G
  <2> SUFFICES ASSUME NEW k \in K, k <= 0 PROVE Least(k)
    OBVIOUS
  <2> QED
    OBVIOUS
<1>2. ASSUME NEW n \in Nat, n \in G PROVE n + 1 \in G
  <2> SUFFICES ASSUME NEW k \in K, k <= n + 1 PROVE \E x \in K : Least(x)
    OBVIOUS
  <2>1. CASE \E j \in K : j <= n
    BY <1>2, <2>1
  <2>2. CASE \A j \in K : ~(j <= n)
    <3>1. k = n + 1 /\ \A j \in K : n + 1 <= j
      BY <2>2
    <3> QED
      BY <3>1
  <2> QED
    BY <2>1, <2>2
<1>3. \A n \in Nat : n \in G
  <2> HIDE DEF G
  <2> QED
    BY <1>1, <1>2, NatInduct
<1>4. \E x \in K : \A y \in K : x =< y
  <2>1. PICK k \in K : k \in Nat
    OBVIOUS
  <2> QED
    BY <1>3, <2>1
<1> QED
  BY <1>4 DEF Min

LEMMA GreatestIs ==
    ASSUME NEW a \in Nat, NEW b \in Nat, NEW K, K \subseteq a..b, K # {}
    PROVE  Max(K) \in K /\ \A y \in K : y <= Max(K)
<1> DEFINE L == {b - x : x \in K}
<1>1. L \subseteq Nat /\ L # {}
  <2>1. \A x \in K : b - x \in Nat
    OBVIOUS
  <2> QED
    BY <2>1
<1>2. PICK l \in L : \A y \in L : l <= y
  <2> HIDE DEF L
  <2> QED
    BY <1>1, LeastIs
<1>3. PICK x \in K : l = b - x
  OBVIOUS
<1>4. \A y \in K : x >= y
  <2> SUFFICES ASSUME NEW y \in K PROVE x >= y
    OBVIOUS
  <2>1. b - x <= b - y
    BY <1>2, <1>3
  <2> QED
    BY <2>1
<1> QED
  BY <1>4 DEF Max

(* What the framer makes of the lines it has passed.                         *)
RecordSet == [header : Nat, timing : Nat, stop : Nat, label : {<<>>} \union (Nat \X Nat),
              separated : BOOLEAN, text : Seq(Lines)]
Shaped(r) ==
    /\ r.header \in 1..Len(lines) /\ r.timing \in 1..Len(lines) /\ r.stop \in 1..(Len(lines) + 1)
    /\ r.header <= r.timing /\ r.timing < r.stop
    /\ Timed(lines[r.timing])
    /\ IF r.label = <<>> THEN r.timing = r.header
       ELSE r.timing = r.header + 1 /\ Numbered(lines[r.header]) /\ r.label = LabelAt(r.header)
    /\ r.separated = Separated(r.header)
    /\ r.text = SubSeq(lines, r.timing + 1, r.stop - 1)
    /\ \A i \in 1..Len(lines) : r.timing < i /\ i < r.stop =>
          ~Timed(lines[i]) /\ (Numbered(lines[i]) => ~TimedAt(i + 1))
PassedFramed == \A i \in 1..Len(lines) : i < at /\ ~Empty(lines[i]) =>
               \E k \in 1..Len(records) : records[k].header <= i /\ i < records[k].stop
Framing ==
    /\ records \in Seq(RecordSet)
    /\ \A k \in 1..Len(records) : Shaped(records[k]) /\ records[k].stop <= at
    /\ \A j, k \in 1..Len(records) : j < k => records[j].stop <= records[k].header
    /\ PassedFramed
FrameInv ==
    /\ lines \in Seq(Lines) /\ at \in 1..(Len(lines) + 1)
    /\ work \in {"frame", "prepare"} => Framing
    /\ work = "prepare" => at = Len(lines) + 1

LEMMA ShapedStops == ASSUME NEW r, Shaped(r) PROVE r.stop \in Nat
<1>1. r.stop \in 1..(Len(lines) + 1)
  BY DEF Shaped
<1> QED
  BY <1>1

LEMMA LineFacts ==
    ASSUME lines \in Seq(Lines)
    PROVE  /\ DOMAIN lines = 1..Len(lines) /\ Len(lines) \in Nat
           /\ \A i \in 1..Len(lines) : lines[i] \in Lines
  OBVIOUS

(* A body ends at the first turn, and with it every caption paragraph        *)
(* before the right label.                                                   *)
LEMMA StopIs ==
    ASSUME lines \in Seq(Lines), NEW from \in 1..(Len(lines) + 1)
    PROVE  /\ BodyStop(from) \in from..(Len(lines) + 1)
           /\ BodyStop(from) <= Len(lines) => Turn(BodyStop(from), from)
           /\ \A i \in 1..Len(lines) : from <= i /\ i < BodyStop(from) => ~Turn(i, from)
<1> DEFINE K == {i \in DOMAIN lines : Turn(i, from)} \cup {Len(lines) + 1}
<1>1. DOMAIN lines = 1..Len(lines) /\ Len(lines) \in Nat
  BY LineFacts
<1>2. K \subseteq Nat /\ K # {}
  BY <1>1
<1>3. BodyStop(from) = Min(K)
  BY DEF BodyStop
<1>4. Min(K) \in K /\ \A y \in K : Min(K) <= y
  <2> HIDE DEF K
  <2> QED
    BY <1>2, LeastIs
<1>5. \A i \in K : i \in from..(Len(lines) + 1) /\ (i <= Len(lines) => Turn(i, from))
  <2>1. \A i \in DOMAIN lines : Turn(i, from) => i >= from
    BY DEF Turn
  <2> QED
    BY <1>1, <2>1
<1>6. ASSUME NEW i \in 1..Len(lines), i < Min(K), from <= i PROVE ~Turn(i, from)
  <2>1. i \notin K
    <3> HIDE DEF K
    <3>1. Min(K) \in Nat
      BY <1>2, <1>4
    <3> QED
      BY <1>4, <1>6, <3>1
  <2> QED
    BY <1>1, <2>1
<1> HIDE DEF K
<1> QED
  BY <1>3, <1>4, <1>5, <1>6

LEMMA RightIs ==
    ASSUME lines \in Seq(Lines), NEW stop \in 1..Len(lines), NEW header, NEW label,
           Right(stop, header, label) # 0, Empty(lines[stop])
    PROVE  /\ Right(stop, header, label) + 1 \in stop..Len(lines)
           /\ \A i \in 1..Len(lines) : stop <= i /\ i <= Right(stop, header, label) =>
                 ~Timed(lines[i])
<1> DEFINE later == {t \in DOMAIN lines : t >= stop /\ Timed(lines[t])}
           t == Min(later)
<1>1. DOMAIN lines = 1..Len(lines) /\ Len(lines) \in Nat
  BY LineFacts
<1>2. later # {} /\ Right(stop, header, label) = t - 1
  BY DEF Right
<1>3. later \subseteq Nat
  BY <1>1
<1>4. t \in later /\ \A y \in later : t <= y
  <2> HIDE DEF later
  <2> QED
    BY <1>2, <1>3, LeastIs
<1>5. t \in stop..Len(lines)
  <2>1. \A y \in later : y \in stop..Len(lines)
    BY <1>1
  <2> HIDE DEF later
  <2> QED
    BY <1>4, <2>1
<1>6. ASSUME NEW i \in 1..Len(lines), stop <= i, i < t PROVE ~Timed(lines[i])
  <2>1. i \notin later
    <3> HIDE DEF later
    <3> QED
      BY <1>4, <1>5, <1>6
  <2> QED
    BY <1>1, <1>6, <2>1
<1> HIDE DEF t
<1> QED
  BY <1>2, <1>5, <1>6

LEMMA BodyIs ==
    ASSUME lines \in Seq(Lines), NEW from \in 1..(Len(lines) + 1), NEW header, NEW label,
           NEW stop, stop = BodyStop(from),
           NEW right, right = (IF stop > from /\ stop <= Len(lines) /\ Empty(lines[stop])
                               THEN Right(stop, header, label) ELSE 0),
           NEW more, more = (IF right = 0 THEN {} ELSE Paragraph(stop, right)),
           NEW end, end = (IF more = {} THEN stop ELSE Max(more) + 1)
    PROVE  /\ end \in from..(Len(lines) + 1)
           /\ \A i \in 1..Len(lines) : from <= i /\ i < end =>
                 ~Timed(lines[i]) /\ (Numbered(lines[i]) => ~TimedAt(i + 1))
<1>1. DOMAIN lines = 1..Len(lines) /\ Len(lines) \in Nat
  BY LineFacts
<1>2. /\ stop \in from..(Len(lines) + 1)
      /\ \A i \in 1..Len(lines) : from <= i /\ i < stop => ~Turn(i, from)
  BY StopIs
<1>3. ASSUME NEW i \in 1..Len(lines), from <= i, i < stop
      PROVE  ~Timed(lines[i]) /\ (Numbered(lines[i]) => ~TimedAt(i + 1))
  <2>1. ~Turn(i, from) /\ i >= from
    BY <1>2, <1>3
  <2> QED
    BY <2>1 DEF Turn, NumberLike, Numbered
<1>4. CASE more = {}
  BY <1>2, <1>3, <1>4
<1>5. CASE more # {}
  <2>1. right # 0 /\ stop <= Len(lines) /\ Empty(lines[stop]) /\ right = Right(stop, header, label)
        /\ more = Paragraph(stop, right)
    BY <1>5
  <2>2. stop \in 1..Len(lines)
    BY <1>1, <1>2, <2>1
  <2>3. /\ right + 1 \in stop..Len(lines)
        /\ \A i \in 1..Len(lines) : stop <= i /\ i <= right => ~Timed(lines[i])
    BY <2>1, <2>2, RightIs
  <2>4. right \in Int
    <3>1. right = Min({t \in DOMAIN lines : t >= stop /\ Timed(lines[t])}) - 1
      BY <2>1 DEF Right
    <3>2. /\ {t \in DOMAIN lines : t >= stop /\ Timed(lines[t])} \subseteq Nat
          /\ {t \in DOMAIN lines : t >= stop /\ Timed(lines[t])} # {}
      BY <1>1, <2>1 DEF Right
    <3>3. Min({t \in DOMAIN lines : t >= stop /\ Timed(lines[t])}) \in Nat
      BY <3>2, LeastIs
    <3> QED
      BY <3>1, <3>3
  <2>5. more \subseteq stop..(right - 1)
    BY <2>1 DEF Paragraph
  <2>6. right \in Nat /\ stop <= right - 1 /\ right < Len(lines)
    BY <1>5, <2>2, <2>3, <2>4, <2>5
  <2>7. Max(more) \in more
    <3>1. stop \in Nat /\ right - 1 \in Nat
      BY <2>2, <2>6
    <3> QED
      BY <1>5, <2>5, <3>1, GreatestIs
  <2>8. end \in (stop + 1)..right
    BY <1>5, <2>2, <2>5, <2>6, <2>7
  <2>9. ASSUME NEW i \in 1..Len(lines), stop <= i, i < end
        PROVE  ~Timed(lines[i]) /\ ~TimedAt(i + 1)
    <3>1. i + 1 <= right /\ i + 1 \in 1..Len(lines) /\ stop <= i + 1 /\ i <= right
      BY <1>1, <2>2, <2>6, <2>8, <2>9
    <3> QED
      BY <2>3, <2>9, <3>1 DEF TimedAt
  <2>10. \A i \in 1..Len(lines) : i < stop \/ stop <= i
    BY <2>2
  <2> QED
    BY <1>1, <1>2, <1>3, <2>6, <2>8, <2>9, <2>10
<1> QED
  BY <1>4, <1>5

LEMMA RecordAdded ==
    ASSUME NEW S, NEW s \in Seq(S), NEW r \in S, NEW t, t = Append(s, r)
    PROVE  /\ t \in Seq(S) /\ Len(s) \in Nat /\ Len(t) = Len(s) + 1
           /\ \A k \in 1..Len(s) : t[k] = s[k]
           /\ t[Len(s) + 1] = r
  OBVIOUS

(* A record takes its header, its timing row and its body, and nothing is    *)
(* left between it and the one before.                                       *)
LEMMA RecordFramed ==
    ASSUME FrameInv, FrameRecord, ~(work' = "refused")
    PROVE  /\ FrameInv'
           /\ \E r \in RecordSet : /\ records' = Append(records, r) /\ Shaped(r)
                                   /\ r.header = at /\ r.stop = at'
<1> DEFINE plain == Timed(lines[at])
           label == IF plain THEN <<>> ELSE LabelAt(at)
           timing == IF plain THEN at ELSE at + 1
           from == timing + 1
           stop == BodyStop(from)
           right == IF stop > from /\ stop <= Len(lines) /\ Empty(lines[stop])
                    THEN Right(stop, at, label) ELSE 0
           more == IF right = 0 THEN {} ELSE Paragraph(stop, right)
           end == IF more = {} THEN stop ELSE Max(more) + 1
           r == [header |-> at, timing |-> timing, stop |-> end, label |-> label,
                 separated |-> Separated(at), text |-> SubSeq(lines, from, end - 1)]
<1>1. /\ lines \in Seq(Lines) /\ Len(lines) \in Nat /\ at \in 1..Len(lines) /\ work = "frame"
      /\ \A i \in 1..Len(lines) : lines[i] \in Lines
  BY LineFacts DEF FrameInv, FrameRecord
<1>2. /\ ~(~plain /\ (~Numbered(lines[at]) \/ ~InOrder(label))) /\ TimedAt(timing)
      /\ records' = Append(records, r) /\ at' = end
      /\ UNCHANGED <<lines, work>>
  BY Zenon DEF FrameRecord, Refusal
<1>3. timing \in at..Len(lines) /\ Timed(lines[timing])
      /\ (~plain => timing = at + 1 /\ Numbered(lines[at])) /\ (plain => timing = at)
  <2>1. timing <= Len(lines) /\ Timed(lines[timing]) /\ (~plain => Numbered(lines[at]))
    BY <1>2 DEF TimedAt
  <2>2. (~plain => timing = at + 1) /\ (plain => timing = at)
    OBVIOUS
  <2> QED
    BY <1>1, <2>1, <2>2
<1>4. from \in 1..(Len(lines) + 1) /\ from = timing + 1
  BY <1>1, <1>3
<1>5. /\ end \in from..(Len(lines) + 1)
      /\ \A i \in 1..Len(lines) : from <= i /\ i < end =>
            ~Timed(lines[i]) /\ (Numbered(lines[i]) => ~TimedAt(i + 1))
  <2> HIDE DEF from, label
  <2> QED
    BY <1>1, <1>4, BodyIs
<1>6. label = (IF plain THEN <<>> ELSE <<lines[at].a, lines[at].b>>)
      /\ label \in {<<>>} \union (Nat \X Nat) /\ (label = <<>> <=> plain)
  BY <1>1 DEF LabelAt, Lines
<1>7. r \in RecordSet
  <2>1. SubSeq(lines, from, end - 1) \in Seq(Lines)
    <3>1. \A i \in from..(end - 1) : i \in 1..Len(lines)
      <4> HIDE DEF from, end
      <4> QED
        BY <1>1, <1>4, <1>5
    <3>2. from \in Int /\ end - 1 \in Int
      <4> HIDE DEF from, end
      <4> QED
        BY <1>1, <1>4, <1>5
    <3> HIDE DEF from, end
    <3> QED
      BY <1>1, <3>1, <3>2
  <2>2. at \in Nat /\ timing \in Nat /\ end \in Nat /\ Separated(at) \in BOOLEAN
    <3>1. Separated(at) \in BOOLEAN
      BY DEF Separated, Empty
    <3> HIDE DEF from, end, timing
    <3> QED
      BY <1>1, <1>3, <1>4, <1>5, <3>1
  <2> HIDE DEF from, end, timing, label
  <2> QED
    BY <1>6, <2>1, <2>2 DEF RecordSet
<1> HIDE DEF plain, label, timing, from, stop, right, more, end
<1>8. Shaped(r)
  <2>1. /\ r.header = at /\ r.timing = timing /\ r.stop = end /\ r.label = label
        /\ r.separated = Separated(at) /\ r.text = SubSeq(lines, timing + 1, end - 1)
    BY <1>4
  <2>2. timing \in 1..Len(lines) /\ end \in 1..(Len(lines) + 1) /\ at <= timing /\ timing < end
    BY <1>1, <1>3, <1>4, <1>5
  <2>3. IF label = <<>> THEN timing = at
        ELSE timing = at + 1 /\ Numbered(lines[at]) /\ label = LabelAt(at)
    BY <1>3, <1>6 DEF LabelAt
  <2>4. \A i \in 1..Len(lines) : timing < i /\ i < end =>
          ~Timed(lines[i]) /\ (Numbered(lines[i]) => ~TimedAt(i + 1))
    BY <1>1, <1>3, <1>4, <1>5
  <2> HIDE DEF r
  <2> QED
    BY <1>1, <1>3, <2>1, <2>2, <2>3, <2>4 DEF Shaped
<1>9. r.header = at /\ r.stop = end /\ end \in 1..(Len(lines) + 1) /\ at < end
  BY <1>1, <1>3, <1>4, <1>5
<1> HIDE DEF r
<1>10. Framing
  BY <1>1 DEF FrameInv
<1>11. /\ records' \in Seq(RecordSet) /\ Len(records) \in Nat /\ Len(records') = Len(records) + 1
       /\ \A k \in 1..Len(records) : records'[k] = records[k]
       /\ records'[Len(records) + 1] = r
  BY <1>2, <1>7, <1>10, RecordAdded DEF Framing
<1>13. \A k \in 1..Len(records) : Shaped(records[k]) /\ records[k].stop <= at /\ records[k].stop \in Nat
  BY <1>10, ShapedStops DEF Framing
<1>14. \A k \in 1..Len(records') : Shaped(records'[k]) /\ records'[k].stop <= end
  <2> SUFFICES ASSUME NEW k \in 1..Len(records') PROVE Shaped(records'[k]) /\ records'[k].stop <= end
    OBVIOUS
  <2>1. CASE k = Len(records) + 1
    BY <1>1, <1>8, <1>9, <1>11, <2>1
  <2>2. CASE k \in 1..Len(records)
    BY <1>1, <1>9, <1>11, <1>13, <2>2
  <2> QED
    BY <1>11, <2>1, <2>2
<1>15. ASSUME NEW j \in 1..Len(records'), NEW k \in 1..Len(records'), j < k
       PROVE  records'[j].stop <= records'[k].header
  <2>1. j \in 1..Len(records)
    BY <1>11, <1>15
  <2>2. CASE k = Len(records) + 1
    BY <1>9, <1>11, <1>13, <2>1, <2>2
  <2>3. CASE k \in 1..Len(records)
    BY <1>10, <1>11, <1>15, <2>1, <2>3 DEF Framing
  <2> QED
    BY <1>11, <2>2, <2>3
<1>16. PassedFramed'
  <2> SUFFICES ASSUME NEW i \in 1..Len(lines), i < end, ~Empty(lines[i])
               PROVE  \E k \in 1..Len(records') : records'[k].header <= i /\ i < records'[k].stop
    BY <1>2 DEF PassedFramed
  <2>1. CASE i < at
    <3>1. PICK k \in 1..Len(records) : records[k].header <= i /\ i < records[k].stop
      BY <1>10, <2>1 DEF Framing, PassedFramed
    <3> QED
      BY <1>11, <3>1
  <2>2. CASE at <= i
    <3>1. Len(records) + 1 \in 1..Len(records')
      BY <1>11
    <3> QED
      BY <1>9, <1>11, <2>2, <3>1
  <2> QED
    BY <1>1, <2>1, <2>2
<1>17. Framing'
  <2>1. lines' = lines
    BY <1>2
  <2>2. \A k \in 1..Len(records') : (Shaped(records[k]))'
    BY <1>14, <2>1 DEF Shaped, LabelAt, Separated, TimedAt
  <2> QED
    BY <1>2, <1>11, <1>14, <1>15, <1>16, <2>2 DEF Framing
<1>18. FrameInv'
  BY <1>1, <1>2, <1>9, <1>17 DEF FrameInv
<1> QED
  BY <1>2, <1>7, <1>8, <1>9, <1>18

-----------------------------------------------------------------------------
(* Elements in ascending order of their places.                              *)
RankIn(K, a) == Cardinality({j \in K : j < a})

LEMMA AscendingIs ==
    ASSUME NEW K, K \subseteq Nat, IsFiniteSet(K)
    PROVE  /\ Cardinality(K) \in Nat /\ Ascending(K) \in [1..Cardinality(K) -> K]
           /\ \A m \in 1..Cardinality(K) :
                 Ascending(K)[m] \in K /\ RankIn(K, Ascending(K)[m]) = m - 1
           /\ \A i, j \in K : i < j => RankIn(K, i) < RankIn(K, j)
<1> DEFINE R == {p \in K \X K : p[1] < p[2]}
<1>1. ASSUME NEW a \in K PROVE Cardinality(Prior(K, R, a)) = RankIn(K, a)
  <2>1. Prior(K, R, a) = {j \in K : j < a}
    BY DEF Prior
  <2> QED
    BY <2>1 DEF RankIn
<1>2. /\ \A a \in K : <<a, a>> \notin R
      /\ \A a, b, c \in K : <<a, b>> \in R /\ <<b, c>> \in R => <<a, c>> \in R
      /\ \A a, b \in K : a = b \/ <<a, b>> \in R \/ <<b, a>> \in R
      /\ \A a, b \in K : a < b => <<a, b>> \in R
  OBVIOUS
<1>3. /\ \A a, b \in K : <<a, b>> \in R =>
            Cardinality(Prior(K, R, a)) < Cardinality(Prior(K, R, b))
      /\ \A n \in 1..Cardinality(K) : \E a \in K : Cardinality(Prior(K, R, a)) = n - 1
  <2> HIDE DEF R
  <2> QED
    BY <1>2, Places
<1>4. \A n \in 1..Cardinality(K) : \E a \in K : RankIn(K, a) = n - 1
  <2> HIDE DEF R
  <2> QED
    BY <1>1, <1>3
<1>5. ASSUME NEW a \in K, NEW b \in K, a < b PROVE RankIn(K, a) < RankIn(K, b)
  <2>1. <<a, b>> \in R
    BY <1>2, <1>5
  <2> HIDE DEF R
  <2> QED
    BY <1>1, <1>3, <2>1
<1>6. ASSUME NEW m \in 1..Cardinality(K)
      PROVE  Ascending(K)[m] \in K /\ RankIn(K, Ascending(K)[m]) = m - 1
  <2>1. Ascending(K)[m] = CHOOSE a \in K : RankIn(K, a) = m - 1
    BY DEF Ascending, RankIn
  <2>2. \E a \in K : RankIn(K, a) = m - 1
    BY <1>4
  <2> QED
    BY <2>1, <2>2, Zenon
<1>7. Ascending(K) \in [1..Cardinality(K) -> K]
  <2> DEFINE E(m) == CHOOSE i \in K : Cardinality({j \in K : j < i}) = m - 1
  <2>1. Ascending(K) = [m \in 1..Cardinality(K) |-> Ascending(K)[m]]
    <3>1. Ascending(K) = [m \in 1..Cardinality(K) |-> E(m)]
      BY DEF Ascending
    <3> HIDE DEF E
    <3> QED
      BY <3>1
  <2> QED
    BY <1>6, <2>1
<1>8. Cardinality(K) \in Nat
  BY FS_CardinalityType
<1> QED
  BY <1>5, <1>6, <1>7, <1>8

LEMMA OneOfRank ==
    ASSUME NEW K, K \subseteq Nat, NEW i \in K, NEW j \in K, NEW n \in Int,
           RankIn(K, i) = n, RankIn(K, j) = n,
           \A a, b \in K : a < b => RankIn(K, a) < RankIn(K, b)
    PROVE  i = j
<1>1. ~(i < j) /\ ~(j < i)
  <2>1. ~(n < n)
    OBVIOUS
  <2> QED
    BY <2>1
<1> QED
  BY <1>1

(* An enumeration that ascends is the ascending one.                         *)
LEMMA AscendingOne ==
    ASSUME NEW K, K \subseteq Nat, NEW n \in Nat, NEW f \in [1..n -> K],
           \A i, j \in 1..n : i < j => f[i] < f[j], \A x \in K : \E i \in 1..n : f[i] = x
    PROVE  Ascending(K) = f /\ Cardinality(K) = n /\ IsFiniteSet(K)
<1>1. \A m \in 0..n : IsFiniteSet(1..m) /\ Cardinality(1..m) = m
  <2> SUFFICES ASSUME NEW m \in 0..n PROVE IsFiniteSet(1..m) /\ Cardinality(1..m) = m
    OBVIOUS
  <2>1. IsFiniteSet(1..m) /\ Cardinality(1..m) = IF 1 > m THEN 0 ELSE m - 1 + 1
    BY FS_Interval
  <2> QED
    BY <2>1
<1>2. ASSUME NEW m \in 0..n, NEW L, L = {f[i] : i \in 1..m} PROVE IsFiniteSet(L) /\ Cardinality(L) = m
  <2> DEFINE g == [i \in 1..m |-> f[i]]
  <2>1. \A i \in 1..m : i \in 1..n
    OBVIOUS
  <2>2. g \in [1..m -> L] /\ \A x \in L : \E i \in 1..m : g[i] = x
    BY <1>2
  <2>3. ASSUME NEW i \in 1..m, NEW j \in 1..m, g[i] = g[j] PROVE i = j
    <3>1. f[i] = f[j] /\ f[i] \in Nat
      BY <2>1, <2>3
    <3>2. ~(i < j) /\ ~(j < i)
      BY <2>1, <3>1
    <3> QED
      BY <3>2
  <2> HIDE DEF g
  <2>4. g \in Bijection(1..m, L)
    BY <2>2, <2>3 DEF Bijection, Injection, IsInjective, Surjection
  <2> QED
    BY <1>1, <2>4, FS_Bijection DEF ExistsBijection
<1>3. K = {f[i] : i \in 1..n} /\ IsFiniteSet(K) /\ Cardinality(K) = n
  <2>1. K = {f[i] : i \in 1..n}
    OBVIOUS
  <2>2. n \in 0..n
    OBVIOUS
  <2>3. \A L : L = {f[i] : i \in 1..n} => IsFiniteSet(L) /\ Cardinality(L) = n
    BY <1>2, <2>2
  <2> QED
    BY <2>1, <2>3
<1>4. ASSUME NEW m \in 1..n PROVE Ascending(K)[m] = f[m]
  <2>1. {j \in K : j < f[m]} = {f[i] : i \in 1..(m - 1)}
    <3>1. ASSUME NEW i \in 1..n PROVE f[i] < f[m] <=> i \in 1..(m - 1)
      <4>1. f[i] \in Nat /\ f[m] \in Nat /\ (i < m => f[i] < f[m]) /\ (m < i => f[m] < f[i])
        OBVIOUS
      <4> QED
        BY <4>1
    <3>2. \A i \in 1..(m - 1) : i \in 1..n
      OBVIOUS
    <3> QED
      BY <1>3, <3>1, <3>2
  <2>2. RankIn(K, f[m]) = m - 1 /\ f[m] \in K
    <3>1. m - 1 \in 0..n
      OBVIOUS
    <3> QED
      BY <1>2, <2>1, <3>1 DEF RankIn
  <2>3. Ascending(K)[m] \in K /\ RankIn(K, Ascending(K)[m]) = m - 1
    BY <1>3, AscendingIs
  <2>4. \A i, j \in K : i < j => RankIn(K, i) < RankIn(K, j)
    BY <1>3, AscendingIs
  <2>5. m - 1 \in Int
    OBVIOUS
  <2> QED
    BY <2>2, <2>3, <2>4, <2>5, OneOfRank
<1>5. Ascending(K) \in [1..n -> K]
  BY <1>3, AscendingIs
<1>6. Ascending(K) = f
  <2>1. Ascending(K) = [m \in 1..n |-> Ascending(K)[m]] /\ f = [m \in 1..n |-> f[m]]
    BY <1>5
  <2> QED
    BY <1>4, <2>1
<1> QED
  BY <1>3, <1>6

(* The same, in a form that is easy to cite.                                 *)
Climbs(f, n) == \A i, j \in 1..n : i < j => f[i] < f[j]
Fills(f, n, K) == \A x \in K : \E i \in 1..n : f[i] = x
LEMMA AscendingBy ==
    ASSUME NEW K, K \subseteq Nat, NEW n \in Nat, NEW f, f \in [1..n -> K], Climbs(f, n), Fills(f, n, K)
    PROVE  Ascending(K) = f /\ Cardinality(K) = n /\ IsFiniteSet(K)
BY AscendingOne DEF Climbs, Fills

LEMMA AscendingUp ==
    ASSUME NEW K, K \subseteq Nat, IsFiniteSet(K)
    PROVE  /\ \A i, j \in 1..Cardinality(K) : i < j => Ascending(K)[i] < Ascending(K)[j]
           /\ \A x \in K : \E i \in 1..Cardinality(K) : Ascending(K)[i] = x
<1>1. /\ Cardinality(K) \in Nat
      /\ \A m \in 1..Cardinality(K) :
            Ascending(K)[m] \in K /\ RankIn(K, Ascending(K)[m]) = m - 1
      /\ \A i, j \in K : i < j => RankIn(K, i) < RankIn(K, j)
  BY AscendingIs
<1>2. ASSUME NEW i \in 1..Cardinality(K), NEW j \in 1..Cardinality(K), i < j
      PROVE  Ascending(K)[i] < Ascending(K)[j]
  <2> DEFINE a == Ascending(K)[i]
             b == Ascending(K)[j]
  <2>1. a \in K /\ b \in K /\ RankIn(K, a) = i - 1 /\ RankIn(K, b) = j - 1
    BY <1>1
  <2>2. a \in Nat /\ b \in Nat /\ (b < a => RankIn(K, b) < RankIn(K, a))
    BY <1>1, <2>1
  <2> HIDE DEF a, b
  <2>3. a # b /\ ~(b < a)
    BY <1>2, <2>1, <2>2
  <2>4. a < b
    BY <2>2, <2>3
  <2> QED
    BY <2>4 DEF a, b
<1>3. ASSUME NEW x \in K PROVE \E i \in 1..Cardinality(K) : Ascending(K)[i] = x
  <2>1. IsFiniteSet(K \ {x}) /\ Cardinality(K \ {x}) = Cardinality(K) - 1
        /\ {j \in K : j < x} \in SUBSET (K \ {x})
    BY FS_RemoveElement
  <2>2. RankIn(K, x) \in 0..(Cardinality(K) - 1)
    <3>1. RankIn(K, x) \in Nat /\ RankIn(K, x) <= Cardinality(K \ {x})
      BY <2>1, FS_CardinalityType, FS_Subset DEF RankIn
    <3> QED
      BY <1>1, <2>1, <3>1
  <2>3. PICK m \in 1..Cardinality(K) : m - 1 = RankIn(K, x)
    <3>1. RankIn(K, x) + 1 \in 1..Cardinality(K) /\ (RankIn(K, x) + 1) - 1 = RankIn(K, x)
      BY <1>1, <2>2
    <3> QED
      BY <3>1
  <2>4. Ascending(K)[m] \in K /\ RankIn(K, Ascending(K)[m]) = m - 1
    BY <1>1
  <2>5. Ascending(K)[m] = x
    <3>1. m - 1 \in Int
      OBVIOUS
    <3> QED
      BY <1>1, <2>3, <2>4, <3>1, OneOfRank
  <2> QED
    BY <2>5
<1> QED
  BY <1>2, <1>3

(* The elements at some places of a sequence.                                *)
Gathered(s, K, t) ==
    /\ IsFiniteSet(K) /\ Cardinality(K) \in Nat /\ Len(t) = Cardinality(K)
    /\ \A m \in 1..Cardinality(K) : t[m] = s[Ascending(K)[m]] /\ Ascending(K)[m] \in K
LEMMA ThoseAre ==
    ASSUME NEW S, NEW s, s \in Seq(S), NEW K, K \subseteq 1..Len(s), NEW t, t = Those(s, K)
    PROVE  t \in Seq(S) /\ Gathered(s, K, t)
<1>1. Len(s) \in Nat /\ \A i \in 1..Len(s) : s[i] \in S
  OBVIOUS
<1>2. IsFiniteSet(K)
  <2>1. IsFiniteSet(1..Len(s))
    BY <1>1, FS_Interval
  <2> QED
    BY <2>1, FS_Subset
<1>3. /\ Cardinality(K) \in Nat /\ Ascending(K) \in [1..Cardinality(K) -> K]
  <2>1. K \subseteq Nat
    BY <1>1
  <2> QED
    BY <1>2, <2>1, AscendingIs
<1>4. t = [m \in 1..Cardinality(K) |-> s[Ascending(K)[m]]]
  BY <1>3 DEF Those
<1>5. \A m \in 1..Cardinality(K) : Ascending(K)[m] \in K /\ s[Ascending(K)[m]] \in S
  BY <1>1, <1>3
<1>6. t \in Seq(S) /\ Len(t) = Cardinality(K)
  BY <1>3, <1>4, <1>5
<1>7. \A m \in 1..Cardinality(K) : t[m] = s[Ascending(K)[m]]
  BY <1>4
<1> QED
  BY <1>2, <1>3, <1>5, <1>6, <1>7 DEF Gathered

LEMMA ThoseAll ==
    ASSUME NEW S, NEW s \in Seq(S)
    PROVE  Those(s, 1..Len(s)) = s
<1> DEFINE f == [i \in 1..Len(s) |-> i]
<1>1. Len(s) \in Nat /\ s = [i \in 1..Len(s) |-> s[i]]
  OBVIOUS
<1>2. Ascending(1..Len(s)) = f
  <2>1. f \in [1..Len(s) -> 1..Len(s)] /\ (1..Len(s)) \subseteq Nat
    BY <1>1
  <2>2. \A i, j \in 1..Len(s) : i < j => f[i] < f[j]
    OBVIOUS
  <2>3. \A x \in 1..Len(s) : \E i \in 1..Len(s) : f[i] = x
    OBVIOUS
  <2> HIDE DEF f
  <2> QED
    BY <1>1, <2>1, <2>2, <2>3, AscendingOne
<1> QED
  BY <1>1, <1>2 DEF Those

-----------------------------------------------------------------------------
(* Blocks are known by where they start and stop.                            *)
StopOf(text, i) == Min({k \in i..Len(text) : Empty(text[k])} \cup {Len(text) + 1})
Spelt(text, f, g, n) ==
    /\ \A k \in 1..n : /\ f[k] < g[k]
                       /\ \A i \in 1..Len(text) : f[k] <= i /\ i < g[k] => ~Empty(text[i])
                       /\ f[k] = 1 \/ Empty(text[f[k] - 1])
                       /\ g[k] <= Len(text) => Empty(text[g[k]])
    /\ \A j, k \in 1..n : j < k => f[j] < f[k]
    /\ \A i \in 1..Len(text) : ~Empty(text[i]) => \E k \in 1..n : f[k] <= i /\ i < g[k]

Slices(text, f, g, n) == [k \in 1..n |-> SubSeq(text, f[k], g[k] - 1)]
LEMMA AtMost == ASSUME NEW a \in Nat, NEW b \in Nat, a <= b, ~(a < b) PROVE a = b
  OBVIOUS

LEMMA BlocksAre ==
    ASSUME NEW text, text \in Seq(Lines), NEW n \in Nat,
           NEW f, f \in [1..n -> 1..Len(text)], NEW g, g \in [1..n -> 1..(Len(text) + 1)],
           Spelt(text, f, g, n)
    PROVE  Blocks(text) = Slices(text, f, g, n)
<1> USE DEF Slices
<1> DEFINE starts == {i \in DOMAIN text : ~Empty(text[i]) /\ (i = 1 \/ Empty(text[i - 1]))}
<1> USE DEF Spelt
<1>1. DOMAIN text = 1..Len(text) /\ Len(text) \in Nat
  OBVIOUS
<1>2. ASSUME NEW k \in 1..n PROVE f[k] \in starts
  <2>1. f[k] \in 1..Len(text) /\ f[k] < g[k] /\ (f[k] = 1 \/ Empty(text[f[k] - 1]))
    OBVIOUS
  <2>2. ~Empty(text[f[k]])
    BY <1>1, <2>1
  <2> QED
    BY <1>1, <2>1, <2>2
<1>3. ASSUME NEW x \in starts PROVE \E k \in 1..n : f[k] = x
  <2>1. x \in 1..Len(text) /\ ~Empty(text[x]) /\ (x = 1 \/ Empty(text[x - 1]))
    BY <1>1
  <2>2. PICK k \in 1..n : f[k] <= x /\ x < g[k]
    BY <2>1
  <2>3. ASSUME f[k] < x PROVE FALSE
    <3>1. x - 1 \in 1..Len(text) /\ f[k] <= x - 1 /\ x - 1 < g[k] /\ x # 1
      <4>1. f[k] \in 1..Len(text) /\ g[k] \in 1..(Len(text) + 1)
        OBVIOUS
      <4> QED
        <5> HIDE DEF Spelt
        <5> QED
          BY <1>1, <2>1, <2>2, <2>3, <4>1
    <3> QED
      BY <2>1, <3>1
  <2>4. f[k] \in Nat /\ x \in Nat
    BY <1>1, <2>1
  <2>5. f[k] = x
    BY <2>2, <2>3, <2>4, AtMost, Zenon
  <2> QED
    BY <2>5, Zenon
<1>4. Ascending(starts) = f
  <2>1. starts \subseteq Nat
    BY <1>1
  <2> HIDE DEF starts
  <2>2. f \in [1..n -> starts]
    BY <1>2
  <2>3. Climbs(f, n)
    BY DEF Climbs
  <2>4. Fills(f, n, starts)
    BY <1>3 DEF Fills
  <2> QED
    BY <2>1, <2>2, <2>3, <2>4, AscendingBy
<1>5. ASSUME NEW k \in 1..n PROVE StopOf(text, f[k]) = g[k]
  <2> DEFINE K == {i \in f[k]..Len(text) : Empty(text[i])} \cup {Len(text) + 1}
  <2>1. f[k] \in 1..Len(text) /\ g[k] \in 1..(Len(text) + 1) /\ f[k] < g[k]
    OBVIOUS
  <2>2. K \subseteq Nat /\ K # {}
    BY <1>1, <2>1
  <2>3. Min(K) \in K /\ \A y \in K : Min(K) <= y
    <3> HIDE DEF K
    <3> QED
      BY <2>2, LeastIs
  <2>4. g[k] \in K
    <3>1. CASE g[k] <= Len(text)
      BY <1>1, <2>1, <3>1
    <3>2. CASE g[k] = Len(text) + 1
      BY <3>2
    <3> QED
      BY <1>1, <2>1, <3>1, <3>2, SMTT(20)
  <2>5. \A y \in K : ~(y < g[k])
    <3> SUFFICES ASSUME NEW y \in K, y < g[k] PROVE FALSE
      OBVIOUS
    <3>1. y \in f[k]..Len(text) /\ Empty(text[y]) /\ y \in 1..Len(text)
      BY <1>1, <2>1
    <3> QED
      BY <3>1
  <2>6. Min(K) = g[k]
    <3> HIDE DEF K
    <3>1. Min(K) \in Nat /\ Min(K) <= g[k] /\ ~(Min(K) < g[k]) /\ g[k] \in Nat
      BY <2>2, <2>3, <2>4, <2>5
    <3> QED
      BY <3>1
  <2> QED
    BY <2>6 DEF StopOf
<1>6. DOMAIN Ascending(starts) = 1..n
  BY <1>4
<1>7. Blocks(text) = [k \in DOMAIN Ascending(starts) |->
                         SubSeq(text, Ascending(starts)[k], StopOf(text, Ascending(starts)[k]) - 1)]
  BY DEF Blocks, StopOf
<1> HIDE DEF starts
<1>8. Blocks(text) = [k \in 1..n |-> SubSeq(text, f[k], StopOf(text, f[k]) - 1)]
  BY <1>4, <1>6, <1>7
<1> HIDE DEF Spelt, Slices
<1>9. [k \in 1..n |-> SubSeq(text, f[k], StopOf(text, f[k]) - 1)]
      = [k \in 1..n |-> SubSeq(text, f[k], g[k] - 1)]
  BY <1>5
<1> QED
  BY <1>8, <1>9, Zenon DEF Slices

(* Parts of a flattened sequence stay where they were put.                   *)
LEMMA FlatAt ==
    ASSUME NEW S, NEW s \in Seq(Seq(S))
    PROVE  /\ \A n \in 0..Len(s) : \A m \in n..Len(s) :
                 /\ Len(Flat(s, n)) <= Len(Flat(s, m))
                 /\ \A i \in 1..Len(Flat(s, n)) : Flat(s, m)[i] = Flat(s, n)[i]
           /\ \A n \in 0..Len(s) : \A i \in 1..Len(Flat(s, n)) :
                 \E k \in 1..n : Len(Flat(s, k - 1)) < i /\ i <= Len(Flat(s, k))
<1>1. /\ Len(s) \in Nat /\ \A n \in 0..Len(s) : Flat(s, n) \in Seq(S)
      /\ \A n \in 0..(Len(s) - 1) : Flat(s, n + 1) = Flat(s, n) \o s[n + 1]
      /\ Flat(s, 0) = <<>>
  <2>1. Flat(s, 0) = <<>>
    BY DEF Flat
  <2> QED
    BY <2>1, FlatSteps
<1>2. ASSUME NEW n \in 0..(Len(s) - 1)
      PROVE  /\ Len(Flat(s, n)) \in Nat
             /\ Len(Flat(s, n + 1)) = Len(Flat(s, n)) + Len(s[n + 1]) /\ Len(s[n + 1]) \in Nat
             /\ \A i \in 1..Len(Flat(s, n)) : Flat(s, n + 1)[i] = Flat(s, n)[i]
  <2>1. n \in 0..Len(s) /\ n + 1 \in 1..Len(s)
    BY <1>1
  <2>2. Flat(s, n) \in Seq(S) /\ s[n + 1] \in Seq(S) /\ Flat(s, n + 1) = Flat(s, n) \o s[n + 1]
    BY <1>1, <2>1, SMTT(30)
  <2> HIDE DEF Flat
  <2> QED
    BY <2>2
<1>3. ASSUME NEW n \in 0..Len(s)
      PROVE  \A m \in n..Len(s) :
                 /\ Len(Flat(s, n)) <= Len(Flat(s, m))
                 /\ \A i \in 1..Len(Flat(s, n)) : Flat(s, m)[i] = Flat(s, n)[i]
  <2> DEFINE Good(m) == /\ Len(Flat(s, n)) <= Len(Flat(s, m))
                        /\ \A i \in 1..Len(Flat(s, n)) : Flat(s, m)[i] = Flat(s, n)[i]
             G == {d \in Nat : n + d <= Len(s) => Good(n + d)}
  <2>1. Len(Flat(s, n)) \in Nat
    BY <1>1
  <2>2. 0 \in G
    BY <2>1
  <2>3. ASSUME NEW d \in Nat, d \in G PROVE d + 1 \in G
    <3> SUFFICES ASSUME n + (d + 1) <= Len(s) PROVE Good(n + (d + 1))
      OBVIOUS
    <3> DEFINE m == n + d
    <3>1. m \in 0..(Len(s) - 1) /\ m + 1 = n + (d + 1) /\ Good(m)
      BY <1>1, <2>3
    <3> HIDE DEF m
    <3>2. /\ Len(Flat(s, m)) \in Nat
          /\ Len(Flat(s, m + 1)) = Len(Flat(s, m)) + Len(s[m + 1]) /\ Len(s[m + 1]) \in Nat
          /\ \A i \in 1..Len(Flat(s, m)) : Flat(s, m + 1)[i] = Flat(s, m)[i]
      BY <1>2, <3>1
    <3>3. Good(m + 1)
      <4>1. Len(Flat(s, n)) <= Len(Flat(s, m + 1))
        BY <2>1, <3>1, <3>2
      <4>2. ASSUME NEW i \in 1..Len(Flat(s, n)) PROVE Flat(s, m + 1)[i] = Flat(s, n)[i]
        <5>1. i \in 1..Len(Flat(s, m))
          BY <2>1, <3>1, <3>2
        <5> QED
          BY <3>1, <3>2, <5>1
      <4> QED
        BY <4>1, <4>2
    <3> QED
      BY <3>1, <3>3
  <2>4. \A d \in Nat : d \in G
    <3> HIDE DEF G
    <3> QED
      BY <2>2, <2>3, NatInduct
  <2>5. ASSUME NEW m \in n..Len(s) PROVE Good(m)
    <3>1. m - n \in Nat /\ n + (m - n) = m /\ m <= Len(s)
      BY <1>1
    <3> HIDE DEF Good
    <3> QED
      BY <2>4, <3>1
  <2> QED
    BY <2>5
<1>4. ASSUME NEW n \in 0..Len(s)
      PROVE  \A i \in 1..Len(Flat(s, n)) :
                \E k \in 1..n : Len(Flat(s, k - 1)) < i /\ i <= Len(Flat(s, k))
  <2> DEFINE Good(m) == \A i \in 1..Len(Flat(s, m)) :
                           \E k \in 1..m : Len(Flat(s, k - 1)) < i /\ i <= Len(Flat(s, k))
             G == {m \in Nat : m <= Len(s) => Good(m)}
  <2>1. 0 \in G
    BY <1>1
  <2>2. ASSUME NEW m \in Nat, m \in G PROVE m + 1 \in G
    <3> SUFFICES ASSUME m + 1 <= Len(s), NEW i \in 1..Len(Flat(s, m + 1))
                 PROVE  \E k \in 1..(m + 1) : Len(Flat(s, k - 1)) < i /\ i <= Len(Flat(s, k))
      OBVIOUS
    <3>1. m \in 0..(Len(s) - 1) /\ Good(m)
      BY <1>1, <2>2
    <3>2. Len(Flat(s, m)) \in Nat /\ Len(Flat(s, m + 1)) \in Nat
      BY <1>1, <3>1
    <3>3. CASE i <= Len(Flat(s, m))
      <4>1. i \in 1..Len(Flat(s, m))
        BY <3>2, <3>3
      <4>2. PICK k \in 1..m : Len(Flat(s, k - 1)) < i /\ i <= Len(Flat(s, k))
        BY <3>1, <4>1
      <4> QED
        BY <4>2
    <3>4. CASE Len(Flat(s, m)) < i
      <4>1. m + 1 \in 1..(m + 1) /\ (m + 1) - 1 = m /\ i <= Len(Flat(s, m + 1))
        BY <3>2
      <4> QED
        BY <3>4, <4>1
    <3> QED
      BY <3>2, <3>3, <3>4
  <2>3. \A m \in Nat : m \in G
    <3> HIDE DEF G
    <3> QED
      BY <2>1, <2>2, NatInduct
  <2> QED
    BY <1>1, <2>3
<1> QED
  BY <1>3, <1>4

-----------------------------------------------------------------------------
(* The derivative, block by block.                                           *)
Block(n, c) == <<Line("label", n, 0), Line("time", c.start, c.end)>> \o c.text
CueSet == [start : Nat, end : Nat, text : Seq(Lines)]
Wordy(text) == /\ text # <<>>
               /\ \A i \in 1..Len(text) : ~Empty(text[i]) /\ text[i].kind # "time"
Sound(c) == c \in CueSet /\ c.start < c.end /\ Wordy(c.text)
Part(n, c) == Block(n, c) \o <<Line("blank", 0, 0)>>

LEMMA BlockIs ==
    ASSUME NEW c, c \in CueSet, NEW n \in Nat
    PROVE  /\ Block(n, c) \in Seq(Lines) /\ Len(Block(n, c)) = Len(c.text) + 2 /\ Len(c.text) \in Nat
           /\ Block(n, c)[1] = Line("label", n, 0) /\ Block(n, c)[2] = Line("time", c.start, c.end)
           /\ \A i \in 1..Len(c.text) : Block(n, c)[i + 2] = c.text[i]
           /\ SubSeq(Block(n, c), 3, Len(Block(n, c))) = c.text
<1> DEFINE h == <<Line("label", n, 0), Line("time", c.start, c.end)>>
           t == c.text
           b == Block(n, c)
<1>1. Line("label", n, 0) \in Lines /\ Line("time", c.start, c.end) \in Lines /\ t \in Seq(Lines)
  BY DEF CueSet, Line, Lines, Kinds
<1>2. /\ h \in Seq(Lines) /\ Len(h) = 2 /\ h[1] = Line("label", n, 0)
      /\ h[2] = Line("time", c.start, c.end)
  BY <1>1
<1>3. b = h \o t
  BY DEF Block
<1> HIDE DEF h, t, b
<1>4. /\ b \in Seq(Lines) /\ Len(b) = Len(t) + 2 /\ Len(t) \in Nat
      /\ b[1] = h[1] /\ b[2] = h[2]
      /\ \A i \in 1..Len(t) : b[i + 2] = t[i]
  <2>1. /\ b \in Seq(Lines) /\ Len(t) \in Nat /\ Len(b) = Len(h) + Len(t)
        /\ \A i \in 1..Len(h) : b[i] = h[i]
        /\ \A i \in 1..Len(t) : b[Len(h) + i] = t[i]
    <3>1. b \in Seq(Lines) /\ Joined(h, t, b)
      BY <1>1, <1>2, <1>3, JoinAt
    <3> QED
      BY <3>1 DEF Joined
  <2>2. 1 \in 1..Len(h) /\ 2 \in 1..Len(h)
    BY <1>2
  <2>3. \A i \in 1..Len(t) : i + 2 = Len(h) + i
    BY <1>2, <2>1
  <2>4. Len(b) = Len(t) + 2 /\ b[1] = h[1] /\ b[2] = h[2]
    BY <1>2, <2>1, <2>2
  <2> QED
    BY <2>1, <2>3, <2>4
<1>5. SubSeq(b, 3, Len(b)) = t
  <2>1. 3 + Len(t) - 1 = Len(b) /\ 3 + Len(t) <= Len(b) + 1 /\ 3 \in Nat \ {0}
    BY <1>4
  <2>2. /\ SubSeq(b, 3, Len(b)) \in Seq(Lines) /\ Len(SubSeq(b, 3, Len(b))) = Len(t)
        /\ \A i \in 1..Len(t) : SubSeq(b, 3, Len(b))[i] = b[3 + i - 1]
    BY <1>4, <2>1, SliceAt
  <2>3. \A i \in 1..Len(t) : SubSeq(b, 3, Len(b))[i] = t[i]
    <3>1. \A i \in 1..Len(t) : 3 + i - 1 = i + 2
      BY <1>4
    <3> QED
      BY <1>4, <2>2, <3>1
  <2> QED
    BY <1>1, <2>2, <2>3, SameSeq
<1> QED
  BY <1>2, <1>4, <1>5 DEF t, b

LEMMA PartIs ==
    ASSUME NEW c, c \in CueSet, Wordy(c.text), NEW n \in Nat
    PROVE  /\ Part(n, c) \in Seq(Lines) /\ Len(Part(n, c)) = Len(Block(n, c)) + 1
           /\ Len(Block(n, c)) \in Nat \ {0} /\ Block(n, c) \in Seq(Lines)
           /\ \A i \in 1..Len(Block(n, c)) :
                 Part(n, c)[i] = Block(n, c)[i] /\ ~Empty(Block(n, c)[i])
           /\ Empty(Part(n, c)[Len(Block(n, c)) + 1])
<1> DEFINE b == Block(n, c)
           z == Line("blank", 0, 0)
<1>1. /\ b \in Seq(Lines) /\ Len(b) = Len(c.text) + 2 /\ Len(c.text) \in Nat
      /\ b[1] = Line("label", n, 0) /\ b[2] = Line("time", c.start, c.end)
      /\ \A i \in 1..Len(c.text) : b[i + 2] = c.text[i]
  BY BlockIs
<1>2. z \in Lines /\ Empty(z) /\ Part(n, c) = Append(b, z)
  <2>1. z \in Lines /\ Empty(z)
    BY DEF Line, Lines, Kinds, Empty
  <2>2. Part(n, c) = b \o <<z>>
    BY DEF Part
  <2> HIDE DEF b, z
  <2> QED
    BY <1>1, <2>1, <2>2
<1>3. ~Empty(b[1]) /\ ~Empty(b[2])
  BY <1>1 DEF Empty, Line
<1> HIDE DEF b, z
<1>4. ASSUME NEW i \in 1..Len(b) PROVE ~Empty(b[i])
  <2>1. CASE i \in {1, 2}
    BY <1>3, <2>1
  <2>2. CASE i > 2
    <3>1. i - 2 \in 1..Len(c.text) /\ (i - 2) + 2 = i
      BY <1>1, <2>2
    <3>2. ~Empty(c.text[i - 2])
      BY <3>1 DEF Wordy
    <3>3. b[(i - 2) + 2] = c.text[i - 2]
      BY <1>1, <3>1
    <3> QED
      BY <3>1, <3>2, <3>3
  <2> QED
    BY <1>1, <2>1, <2>2
<1>5. /\ Append(b, z) \in Seq(Lines) /\ Len(Append(b, z)) = Len(b) + 1
      /\ \A i \in 1..Len(b) : Append(b, z)[i] = b[i]
      /\ Append(b, z)[Len(b) + 1] = z
  BY <1>1, <1>2
<1> QED
  BY <1>1, <1>2, <1>4, <1>5 DEF b

(* What is written reads back as one block for every cue.                    *)
LEMMA WrittenBlocks ==
    ASSUME NEW cues, cues \in Seq(CueSet), \A n \in 1..Len(cues) : Wordy(cues[n].text)
    PROVE  Blocks(Written(cues)) = [n \in 1..Len(cues) |-> Block(n, cues[n])]
<1> DEFINE N == Len(cues)
           s == [n \in 1..N |-> Part(n, cues[n])]
           text == Flat(s, N)
           Before(k) == Len(Flat(s, k - 1))
<1>1. N \in Nat /\ DOMAIN cues = 1..N /\ \A n \in 1..N : cues[n] \in CueSet /\ n \in Nat
  OBVIOUS
<1>2. s \in Seq(Seq(Lines)) /\ Len(s) = N /\ \A n \in 1..N : s[n] = Part(n, cues[n])
  <2>1. \A n \in 1..N : Part(n, cues[n]) \in Seq(Lines)
    BY <1>1, PartIs
  <2> QED
    BY <1>1, <2>1
<1>3. Written(cues) = text
  <2>1. Written(cues) = FlattenSeq(s)
    BY <1>1 DEF Written, Part, Block
  <2> HIDE DEF s
  <2> QED
    BY <1>2, <2>1, FlatWhole
<1> HIDE DEF s, N
<1>4. /\ \A n \in 0..N : Flat(s, n) \in Seq(Lines) /\ Len(Flat(s, n)) \in Nat
      /\ \A n \in 0..(N - 1) : Flat(s, n + 1) = Flat(s, n) \o s[n + 1]
  <2>1. \A n \in 0..N : Flat(s, n) \in Seq(Lines)
    BY <1>2, FlatSteps
  <2>2. \A x : x \in Seq(Lines) => Len(x) \in Nat
    OBVIOUS
  <2>3. \A n \in 0..(N - 1) : Flat(s, n + 1) = Flat(s, n) \o s[n + 1]
    BY <1>2, FlatSteps
  <2> QED
    BY <2>1, <2>2, <2>3
<1>5. /\ \A n \in 0..N : /\ Len(Flat(s, n)) <= Len(text)
                         /\ \A i \in 1..Len(Flat(s, n)) : text[i] = Flat(s, n)[i]
      /\ \A i \in 1..Len(text) : \E k \in 1..N : Len(Flat(s, k - 1)) < i /\ i <= Len(Flat(s, k))
  <2>1. \A n \in 0..N : N \in n..N /\ N \in 0..N
    BY <1>1
  <2>2. \A n \in 0..N : \A m \in n..N :
            /\ Len(Flat(s, n)) <= Len(Flat(s, m))
            /\ \A i \in 1..Len(Flat(s, n)) : Flat(s, m)[i] = Flat(s, n)[i]
    BY <1>2, FlatAt
  <2>3. \A n \in 0..N : \A i \in 1..Len(Flat(s, n)) :
            \E k \in 1..n : Len(Flat(s, k - 1)) < i /\ i <= Len(Flat(s, k))
    BY <1>2, FlatAt
  <2>4. N \in 0..N
    BY <1>1
  <2> QED
    BY <2>1, <2>2, <2>3, <2>4
<1> HIDE DEF text
<1>6. ASSUME NEW k \in 1..N
      PROVE  /\ Before(k) \in Nat /\ Len(Flat(s, k)) = Before(k) + Len(Block(k, cues[k])) + 1
             /\ Len(Block(k, cues[k])) \in Nat \ {0} /\ Len(Flat(s, k)) <= Len(text)
             /\ \A i \in 1..Len(Block(k, cues[k])) :
                   /\ text[Before(k) + i] = Block(k, cues[k])[i]
                   /\ ~Empty(text[Before(k) + i])
             /\ Empty(text[Len(Flat(s, k))])
             /\ Before(k) = 0 \/ Empty(text[Before(k)])
  <2> DEFINE b == Block(k, cues[k])
             a == Flat(s, k - 1)
             z == Flat(s, k)
  <2>1. k - 1 \in 0..(N - 1) /\ (k - 1) + 1 = k /\ k \in 0..N /\ k - 1 \in 0..N
    BY <1>1
  <2>2. a \in Seq(Lines) /\ Len(a) \in Nat /\ z = a \o Part(k, cues[k])
    <3>1. Flat(s, (k - 1) + 1) = a \o s[(k - 1) + 1]
      BY <1>4, <2>1
    <3> QED
      BY <1>2, <1>4, <2>1, <3>1
  <2>3. /\ Part(k, cues[k]) \in Seq(Lines) /\ Len(Part(k, cues[k])) = Len(b) + 1
        /\ Len(b) \in Nat \ {0}
        /\ \A i \in 1..Len(b) : Part(k, cues[k])[i] = b[i] /\ ~Empty(b[i])
        /\ Empty(Part(k, cues[k])[Len(b) + 1])
    BY <1>1, PartIs
  <2>4. Len(z) <= Len(text) /\ \A i \in 1..Len(z) : text[i] = z[i]
    BY <1>5, <2>1
  <2> HIDE DEF a, z, b
  <2>5. /\ Len(z) = Len(a) + Len(b) + 1
        /\ \A i \in 1..(Len(b) + 1) : z[Len(a) + i] = Part(k, cues[k])[i]
    <3> DEFINE p == Part(k, cues[k])
    <3>1. p \in Seq(Lines) /\ z = a \o p /\ Len(p) = Len(b) + 1
      BY <2>2, <2>3
    <3> HIDE DEF p
    <3>2. Len(z) = Len(a) + Len(p) /\ \A i \in 1..Len(p) : z[Len(a) + i] = p[i]
      <4>1. Joined(a, p, z)
        BY <2>2, <3>1, JoinAt
      <4> QED
        BY <4>1 DEF Joined
    <3>3. Len(z) = Len(a) + (Len(b) + 1) /\ \A i \in 1..(Len(b) + 1) : z[Len(a) + i] = p[i]
      BY <3>1, <3>2
    <3>4. Len(a) + (Len(b) + 1) = Len(a) + Len(b) + 1
      BY <2>2, <2>3
    <3> QED
      BY <3>3, <3>4 DEF p
  <2>6. ASSUME NEW i \in 1..Len(b) PROVE text[Len(a) + i] = b[i] /\ ~Empty(b[i])
    <3>1. Len(a) + i \in 1..Len(z) /\ i \in 1..(Len(b) + 1)
      BY <2>2, <2>3, <2>5
    <3> QED
      BY <2>3, <2>4, <2>5, <3>1
  <2>7. Empty(text[Len(z)])
    <3>1. Len(z) \in 1..Len(z) /\ Len(b) + 1 \in 1..(Len(b) + 1) /\ Len(z) = Len(a) + (Len(b) + 1)
      BY <2>2, <2>3, <2>5
    <3> QED
      BY <2>3, <2>4, <2>5, <3>1
  <2> QED
    <3>1. Before(k) = Len(a)
      BY DEF a
    <3>2. Len(a) = 0 \/ Empty(text[Len(a)])
      <4>1. CASE k = 1
        <5>1. Flat(s, k - 1) = <<>>
          BY <4>1 DEF Flat
        <5> QED
          BY <5>1 DEF a
      <4>2. CASE k # 1
        <5> DEFINE j == k - 1
        <5>1. j \in 1..N /\ j - 1 \in 0..(N - 1) /\ (j - 1) + 1 = j /\ j \in 0..N /\ j - 1 \in 0..N
          BY <1>1, <4>2
        <5> HIDE DEF j
        <5>2. Flat(s, j) = Flat(s, j - 1) \o Part(j, cues[j]) /\ Flat(s, j - 1) \in Seq(Lines)
          <6>1. Flat(s, (j - 1) + 1) = Flat(s, j - 1) \o s[(j - 1) + 1]
            BY <1>4, <5>1
          <6> QED
            BY <1>2, <1>4, <5>1, <6>1
        <5>3. /\ Part(j, cues[j]) \in Seq(Lines) /\ Len(Part(j, cues[j])) = Len(Block(j, cues[j])) + 1
              /\ Len(Block(j, cues[j])) \in Nat \ {0}
              /\ Empty(Part(j, cues[j])[Len(Block(j, cues[j])) + 1])
          BY <1>1, <5>1, PartIs
        <5>4. /\ Len(Flat(s, j)) \in 1..Len(Flat(s, j))
              /\ Flat(s, j)[Len(Flat(s, j))] = Part(j, cues[j])[Len(Block(j, cues[j])) + 1]
          <6> DEFINE x == Flat(s, j - 1)
                     p == Part(j, cues[j])
                     y == Flat(s, j)
                     l == Len(Block(j, cues[j]))
          <6>1. x \in Seq(Lines) /\ p \in Seq(Lines) /\ y = x \o p /\ Len(p) = l + 1 /\ l \in Nat
            BY <5>2, <5>3
          <6> HIDE DEF x, p, y, l
          <6>2. /\ Len(x) \in Nat /\ Len(y) = Len(x) + Len(p)
                /\ \A i \in 1..Len(p) : y[Len(x) + i] = p[i]
            <7>1. Joined(x, p, y)
              BY <6>1, JoinAt
            <7> QED
              BY <7>1 DEF Joined
          <6>3. l + 1 \in 1..Len(p) /\ Len(y) = Len(x) + (l + 1) /\ Len(y) \in 1..Len(y)
            BY <6>1, <6>2
          <6>4. y[Len(y)] = p[l + 1]
            BY <6>2, <6>3
          <6> QED
            BY <6>3, <6>4 DEF y, p, l
        <5>5. text[Len(Flat(s, j))] = Flat(s, j)[Len(Flat(s, j))]
          BY <1>5, <5>1, <5>4
        <5> QED
          BY <5>3, <5>4, <5>5 DEF a, j
      <4> QED
        BY <4>1, <4>2
    <3> QED
      BY <2>2, <2>3, <2>4, <2>5, <2>6, <2>7, <3>1, <3>2 DEF b, z
<1> DEFINE f == [k \in 1..N |-> Before(k) + 1]
           g == [k \in 1..N |-> Before(k) + Len(Block(k, cues[k])) + 1]
<1>7. text \in Seq(Lines) /\ Len(text) \in Nat
  <2>1. N \in 0..N
    BY <1>1
  <2> QED
    BY <1>4, <2>1 DEF text
<1> HIDE DEF Before
<1>8. \A k \in 1..N : f[k] = Before(k) + 1 /\ g[k] = Before(k) + Len(Block(k, cues[k])) + 1
  OBVIOUS
<1>9. f \in [1..N -> 1..Len(text)] /\ g \in [1..N -> 1..(Len(text) + 1)]
  <2>1. \A k \in 1..N : /\ Before(k) + 1 \in 1..Len(text)
                        /\ Before(k) + Len(Block(k, cues[k])) + 1 \in 1..(Len(text) + 1)
    BY <1>6, <1>7
  <2> QED
    BY <2>1
<1> HIDE DEF f, g
<1>10. ASSUME NEW k \in 1..N
       PROVE  /\ f[k] < g[k]
              /\ \A i \in 1..Len(text) : f[k] <= i /\ i < g[k] => ~Empty(text[i])
              /\ f[k] = 1 \/ Empty(text[f[k] - 1])
              /\ g[k] <= Len(text) => Empty(text[g[k]])
  <2>1. /\ Before(k) \in Nat /\ Len(Block(k, cues[k])) \in Nat \ {0}
        /\ Len(Flat(s, k)) = Before(k) + Len(Block(k, cues[k])) + 1
        /\ Empty(text[Len(Flat(s, k))]) /\ (Before(k) = 0 \/ Empty(text[Before(k)]))
        /\ \A i \in 1..Len(Block(k, cues[k])) : ~Empty(text[Before(k) + i])
    BY <1>6
  <2>2. ASSUME NEW i \in 1..Len(text), f[k] <= i, i < g[k] PROVE ~Empty(text[i])
    <3> DEFINE B == Before(k)
               l == Len(Block(k, cues[k]))
               d == i - B
    <3>1. B + 1 <= i /\ i < B + l + 1 /\ B \in Nat /\ l \in Nat /\ i \in Nat
      BY <1>7, <1>8, <2>1, <2>2
    <3> HIDE DEF B, l
    <3>2. d \in 1..l /\ B + d = i
      BY <3>1
    <3> HIDE DEF d
    <3>3. ~Empty(text[B + d])
      BY <2>1, <3>2 DEF B, l
    <3> QED
      BY <3>2, <3>3
  <2>3. f[k] = Before(k) + 1 /\ g[k] = Before(k) + Len(Block(k, cues[k])) + 1
    BY <1>8
  <2>4. f[k] < g[k] /\ f[k] - 1 = Before(k) /\ (Before(k) = 0 => f[k] = 1)
    <3> DEFINE B == Before(k)
               l == Len(Block(k, cues[k]))
    <3>1. B \in Nat /\ l \in Nat \ {0} /\ f[k] = B + 1 /\ g[k] = B + l + 1
      BY <2>1, <2>3
    <3> HIDE DEF B, l
    <3>2. f[k] < g[k] /\ f[k] - 1 = B /\ (B = 0 => f[k] = 1)
      BY <3>1
    <3> QED
      BY <3>2 DEF B
  <2>5. g[k] = Len(Flat(s, k))
    BY <2>1, <2>3
  <2> QED
    BY <2>1, <2>2, <2>4, <2>5
<1>11. ASSUME NEW j \in 1..N, NEW k \in 1..N, j < k PROVE f[j] < f[k]
  <2>1. Len(Flat(s, j)) <= Len(Flat(s, k - 1))
    <3>1. j \in 0..Len(s) /\ k - 1 \in j..Len(s)
      BY <1>1, <1>2, <1>11
    <3>2. \A n \in 0..Len(s) : \A m \in n..Len(s) : Len(Flat(s, n)) <= Len(Flat(s, m))
      BY <1>2, FlatAt
    <3> QED
      BY <3>1, <3>2
  <2>2. Before(k) = Len(Flat(s, k - 1))
    BY DEF Before
  <2>3. /\ Before(j) \in Nat /\ Before(k) \in Nat /\ Len(Block(j, cues[j])) \in Nat
        /\ Len(Flat(s, j)) = Before(j) + Len(Block(j, cues[j])) + 1
    BY <1>6
  <2> QED
    BY <1>8, <2>1, <2>2, <2>3, SMTT(30)
<1>12. ASSUME NEW i \in 1..Len(text), ~Empty(text[i]) PROVE \E k \in 1..N : f[k] <= i /\ i < g[k]
  <2>1. PICK k \in 1..N : Before(k) < i /\ i <= Len(Flat(s, k))
    BY <1>5 DEF Before
  <2>2. /\ Before(k) \in Nat /\ Len(Block(k, cues[k])) \in Nat
        /\ Len(Flat(s, k)) = Before(k) + Len(Block(k, cues[k])) + 1
        /\ Empty(text[Len(Flat(s, k))])
    BY <1>6
  <2>3. i # Len(Flat(s, k))
    BY <1>12, <2>2
  <2>4. f[k] = Before(k) + 1 /\ g[k] = Len(Flat(s, k))
    BY <1>8, <2>2
  <2>5. f[k] <= i /\ i < g[k]
    BY <1>7, <2>1, <2>2, <2>3, <2>4
  <2> QED
    BY <2>5
<1>13. Blocks(text) = Slices(text, f, g, N)
  <2>1. Spelt(text, f, g, N)
    BY <1>10, <1>11, <1>12 DEF Spelt
  <2>2. /\ text \in Seq(Lines) /\ N \in Nat
        /\ f \in [1..N -> 1..Len(text)] /\ g \in [1..N -> 1..(Len(text) + 1)]
    BY <1>1, <1>7, <1>9
  <2> HIDE DEF Blocks, text
  <2> QED
    BY <2>1, <2>2, BlocksAre
<1>14. ASSUME NEW k \in 1..N PROVE SubSeq(text, f[k], g[k] - 1) = Block(k, cues[k])
  <2> DEFINE b == Block(k, cues[k])
  <2>1. /\ Before(k) \in Nat /\ Len(b) \in Nat \ {0} /\ Len(Flat(s, k)) <= Len(text)
        /\ Len(Flat(s, k)) = Before(k) + Len(b) + 1
        /\ \A i \in 1..Len(b) : text[Before(k) + i] = b[i]
    BY <1>6
  <2>2. b \in Seq(Lines)
    BY <1>1, BlockIs
  <2>3. f[k] = Before(k) + 1 /\ g[k] - 1 = Before(k) + Len(b)
    BY <1>8, <2>1
  <2> HIDE DEF b
  <2>4. /\ SubSeq(text, f[k], g[k] - 1) \in Seq(Lines) /\ Len(SubSeq(text, f[k], g[k] - 1)) = Len(b)
        /\ \A i \in 1..Len(b) : SubSeq(text, f[k], g[k] - 1)[i] = text[Before(k) + i]
    <3> DEFINE a == Before(k) + 1
               l == Len(b)
    <3>1. a \in Nat \ {0} /\ l \in Nat /\ a + l <= Len(text) + 1
          /\ f[k] = a /\ g[k] - 1 = a + l - 1
      <4> DEFINE B == Before(k)
                 T == Len(text)
                 z == Len(Flat(s, k))
                 e == g[k] - 1
      <4>1. B \in Nat /\ l \in Nat \ {0} /\ z <= T /\ z = B + l + 1 /\ T \in Nat /\ e = B + l
        BY <1>7, <2>1, <2>3
      <4>2. f[k] = a /\ a = B + 1
        BY <2>3
      <4> HIDE DEF B, T, z, e, a, l
      <4>3. a \in Nat \ {0} /\ l \in Nat /\ a + l <= T + 1 /\ e = a + l - 1
        BY <4>1, <4>2
      <4> QED
        BY <4>2, <4>3 DEF e, T
    <3>2. \A i \in 1..l : a + i - 1 = Before(k) + i
      BY <2>1
    <3> HIDE DEF a, l
    <3>3. /\ SubSeq(text, a, a + l - 1) \in Seq(Lines) /\ Len(SubSeq(text, a, a + l - 1)) = l
          /\ \A i \in 1..l : SubSeq(text, a, a + l - 1)[i] = text[a + i - 1]
      BY <1>7, <3>1, SliceAt
    <3>4. /\ SubSeq(text, a, a + l - 1) \in Seq(Lines) /\ Len(SubSeq(text, a, a + l - 1)) = l
          /\ \A i \in 1..l : SubSeq(text, a, a + l - 1)[i] = text[Before(k) + i]
      BY <3>2, <3>3
    <3> QED
      BY <3>1, <3>4 DEF l
  <2>5. \A i \in 1..Len(b) : SubSeq(text, f[k], g[k] - 1)[i] = b[i]
    BY <2>1, <2>4
  <2>6. SubSeq(text, f[k], g[k] - 1) = b
    BY <2>2, <2>4, <2>5, SameSeq
  <2> QED
    BY <2>6 DEF b
<1> QED
  BY <1>3, <1>13, <1>14 DEF N, Slices

-----------------------------------------------------------------------------
(* The stable order of the cues.                                             *)
Sooner(cues, i, j) ==
    \/ cues[i].start < cues[j].start
    \/ cues[i].start = cues[j].start /\ i < j
Permutes(cues, p) ==
    LET N == Len(cues) IN
    /\ p \in [1..N -> 1..N]
    /\ Sorted(cues) = [n \in 1..N |-> cues[p[n]]]
    /\ \A i, j \in 1..N : i < j => Sooner(cues, p[i], p[j])
    /\ \A x \in 1..N : \E i \in 1..N : p[i] = x

LEMMA CueFacts ==
    ASSUME NEW cues, cues \in Seq(CueSet)
    PROVE  /\ Len(cues) \in Nat /\ DOMAIN cues = 1..Len(cues)
           /\ \A n \in 1..Len(cues) : /\ cues[n] \in CueSet /\ cues[n].start \in Nat
                                      /\ cues[n].end \in Nat /\ n \in Nat
<1>1. Len(cues) \in Nat /\ DOMAIN cues = 1..Len(cues) /\ \A n \in 1..Len(cues) : cues[n] \in CueSet
  OBVIOUS
<1>2. \A c \in CueSet : c.start \in Nat /\ c.end \in Nat
  BY DEF CueSet
<1>3. \A n \in 1..Len(cues) : n \in Nat
  BY <1>1
<1> QED
  BY <1>1, <1>2, <1>3

LEMMA SortedBy ==
    ASSUME NEW cues, cues \in Seq(CueSet)
    PROVE  \E p : Permutes(cues, p)
<1> DEFINE N == Len(cues)
           K == 1..N
           R == {q \in K \X K : Sooner(cues, q[1], q[2])}
           rank(i) == Cardinality({j \in K : Sooner(cues, j, i)})
           p == [n \in K |-> CHOOSE i \in K : rank(i) = n - 1]
<1>1. N \in Nat /\ DOMAIN cues = K /\ \A n \in K : cues[n].start \in Nat /\ n \in Nat
  BY CueFacts
<1>2. IsFiniteSet(K) /\ Cardinality(K) = N
  <2>1. 1 \in Int /\ N \in Int
    BY <1>1
  <2>2. IsFiniteSet(1..N) /\ Cardinality(1..N) = IF 1 > N THEN 0 ELSE N - 1 + 1
    BY <2>1, FS_Interval
  <2> QED
    BY <1>1, <2>2
<1>3. \A i, j \in K : <<i, j>> \in R <=> Sooner(cues, i, j)
  OBVIOUS
<1>4. /\ \A i \in K : ~Sooner(cues, i, i)
      /\ \A i, j, k \in K : Sooner(cues, i, j) /\ Sooner(cues, j, k) => Sooner(cues, i, k)
      /\ \A i, j \in K : i = j \/ Sooner(cues, i, j) \/ Sooner(cues, j, i)
  <2> HIDE DEF K
  <2> QED
    BY <1>1 DEF Sooner
<1>5. \A i \in K : Cardinality(Prior(K, R, i)) = rank(i)
  <2> SUFFICES ASSUME NEW i \in K PROVE Prior(K, R, i) = {j \in K : Sooner(cues, j, i)}
    OBVIOUS
  <2> HIDE DEF R, K
  <2> QED
    BY <1>3 DEF Prior
<1> HIDE DEF K, R, rank
<1>6. /\ \A a \in K : <<a, a>> \notin R
      /\ \A a, b, c \in K : <<a, b>> \in R /\ <<b, c>> \in R => <<a, c>> \in R
      /\ \A a, b \in K : a = b \/ <<a, b>> \in R \/ <<b, a>> \in R
  BY <1>3, <1>4
<1>7. /\ \A a \in K : Cardinality(Prior(K, R, a)) \in 0..(Cardinality(K) - 1)
      /\ \A a, b \in K : <<a, b>> \in R =>
            Cardinality(Prior(K, R, a)) < Cardinality(Prior(K, R, b))
      /\ \A n \in 1..Cardinality(K) : \E a \in K : Cardinality(Prior(K, R, a)) = n - 1
  BY <1>2, <1>6, Places
<1>8. /\ \A a \in K : rank(a) \in 0..(N - 1)
      /\ \A a, b \in K : Sooner(cues, a, b) => rank(a) < rank(b)
      /\ \A n \in 1..N : \E a \in K : rank(a) = n - 1
  BY <1>2, <1>3, <1>5, <1>7
<1>9. \A n \in K : p[n] \in K /\ rank(p[n]) = n - 1
  <2> SUFFICES ASSUME NEW n \in K PROVE p[n] \in K /\ rank(p[n]) = n - 1
    OBVIOUS
  <2>1. \E a \in K : rank(a) = n - 1
    BY <1>8 DEF K
  <2>2. p[n] = CHOOSE i \in K : rank(i) = n - 1
    OBVIOUS
  <2> QED
    BY <2>1, <2>2, Zenon
<1>10. Sorted(cues) = [n \in K |-> cues[p[n]]]
  BY <1>1 DEF Sorted, rank, Sooner
<1>11. p \in [K -> K]
  BY <1>9
<1> HIDE DEF p
<1>12. ASSUME NEW i \in K, NEW j \in K, i < j PROVE Sooner(cues, p[i], p[j])
  <2>1. rank(p[i]) < rank(p[j])
    BY <1>1, <1>9, <1>12
  <2>2. rank(p[i]) \in Nat /\ rank(p[j]) \in Nat /\ p[i] \in K /\ p[j] \in K
    BY <1>8, <1>9
  <2>3. p[i] # p[j] /\ ~Sooner(cues, p[j], p[i])
    <3>1. ~(rank(p[j]) < rank(p[i])) /\ rank(p[i]) # rank(p[j])
      BY <2>1, <2>2
    <3> QED
      BY <1>8, <2>2, <3>1
  <2> QED
    BY <1>4, <2>2, <2>3
<1>13. ASSUME NEW x \in K PROVE \E i \in K : p[i] = x
  <2> DEFINE i == rank(x) + 1
  <2>1. i \in K /\ i - 1 = rank(x) /\ rank(x) \in Nat
    <3> DEFINE r == rank(x)
    <3>1. r \in 0..(N - 1) /\ N \in Nat
      BY <1>1, <1>8
    <3> HIDE DEF r
    <3>2. r + 1 \in 1..N /\ (r + 1) - 1 = r /\ r \in Nat
      BY <3>1
    <3> QED
      BY <3>2 DEF r, K
  <2> HIDE DEF i
  <2>2. p[i] \in K /\ rank(p[i]) = rank(x)
    BY <1>9, <2>1
  <2>3. ~Sooner(cues, p[i], x) /\ ~Sooner(cues, x, p[i])
    BY <1>8, <2>1, <2>2
  <2>4. p[i] = x
    BY <1>4, <2>2, <2>3
  <2> QED
    BY <2>1, <2>4
<1>14. Permutes(cues, p)
  BY <1>10, <1>11, <1>12, <1>13 DEF Permutes, K
<1> QED
  BY <1>14

Chronological(cues) == \A i, j \in 1..Len(cues) : i < j => cues[i].start <= cues[j].start
AllSound(cues) == \A n \in 1..Len(cues) : Sound(cues[n])

(* It keeps the cues, puts their starts in order, and leaves a list that is  *)
(* in order alone.                                                           *)
LEMMA SortedIs ==
    ASSUME NEW cues, cues \in Seq(CueSet)
    PROVE  /\ Sorted(cues) \in Seq(CueSet) /\ Len(Sorted(cues)) = Len(cues)
           /\ Chronological(Sorted(cues))
           /\ AllSound(cues) => AllSound(Sorted(cues))
           /\ Chronological(cues) => Sorted(cues) = cues
<1> DEFINE N == Len(cues)
           s == Sorted(cues)
<1>1. N \in Nat /\ \A n \in 1..N : cues[n] \in CueSet /\ cues[n].start \in Nat /\ n \in Nat
  BY CueFacts
<1>2. PICK p : Permutes(cues, p)
  BY SortedBy
<1>3. /\ p \in [1..N -> 1..N] /\ s = [n \in 1..N |-> cues[p[n]]]
      /\ \A i, j \in 1..N : i < j => Sooner(cues, p[i], p[j])
      /\ \A x \in 1..N : \E i \in 1..N : p[i] = x
  BY <1>2 DEF Permutes
<1> HIDE DEF s
<1>4. \A n \in 1..N : p[n] \in 1..N /\ s[n] = cues[p[n]]
  BY <1>3
<1>5. s \in Seq(CueSet) /\ Len(s) = N
  <2>1. \A n \in 1..N : cues[p[n]] \in CueSet
    BY <1>1, <1>4
  <2> QED
    BY <1>1, <1>3, <2>1
<1>6. Chronological(s)
  <2> SUFFICES ASSUME NEW i \in 1..N, NEW j \in 1..N, i < j PROVE s[i].start <= s[j].start
    BY <1>5 DEF Chronological
  <2>1. Sooner(cues, p[i], p[j])
    BY <1>3
  <2>2. cues[p[i]].start \in Nat /\ cues[p[j]].start \in Nat
    BY <1>1, <1>4
  <2>3. cues[p[i]].start <= cues[p[j]].start
    BY <2>1, <2>2 DEF Sooner
  <2> QED
    BY <1>4, <2>3, Zenon
<1>7. AllSound(cues) => AllSound(s)
  BY <1>4, <1>5 DEF AllSound
<1>8. ASSUME Chronological(cues) PROVE s = cues
  <2> DEFINE e == [n \in 1..N |-> n]
  <2>1. ASSUME NEW i \in 1..N, NEW j \in 1..N, i < j PROVE p[i] < p[j]
    <3>1. Sooner(cues, p[i], p[j]) /\ p[i] \in 1..N /\ p[j] \in 1..N
      BY <1>3, <1>4, <2>1
    <3>2. p[j] < p[i] => cues[p[j]].start <= cues[p[i]].start
      BY <1>8, <3>1 DEF Chronological
    <3>3. cues[p[i]].start \in Nat /\ cues[p[j]].start \in Nat /\ p[i] \in Nat /\ p[j] \in Nat
      BY <1>1, <3>1
    <3>4. p[i] # p[j] /\ ~(p[j] < p[i])
      BY <3>1, <3>2, <3>3 DEF Sooner
    <3> QED
      BY <3>3, <3>4
  <2>2. (1..N) \subseteq Nat
    BY <1>1
  <2>3. Climbs(p, N) /\ Fills(p, N, 1..N)
    BY <1>3, <2>1 DEF Climbs, Fills
  <2>4. Climbs(e, N) /\ Fills(e, N, 1..N) /\ e \in [1..N -> 1..N]
    BY DEF Climbs, Fills
  <2>5. Ascending(1..N) = p
    BY <1>1, <1>3, <2>2, <2>3, AscendingBy
  <2>6. Ascending(1..N) = e
    <3> HIDE DEF e
    <3> QED
      BY <1>1, <2>2, <2>4, AscendingBy
  <2>7. \A n \in 1..N : p[n] = n
    BY <2>5, <2>6
  <2>8. \A n \in 1..N : s[n] = cues[n]
    BY <1>4, <2>7
  <2> QED
    BY <1>5, <2>8, SameSeq
<1> QED
  BY <1>5, <1>6, <1>7, <1>8 DEF s

(* Cues that start together stay in the order they came in.                  *)
Together(cues, v) == Those(cues, {i \in DOMAIN cues : cues[i].start = v})
LEMMA SortedStable ==
    ASSUME NEW cues, cues \in Seq(CueSet), NEW v
    PROVE  Together(Sorted(cues), v) = Together(cues, v)
<1> DEFINE N == Len(cues)
           s == Sorted(cues)
           A == {i \in DOMAIN s : s[i].start = v}
           B == {i \in DOMAIN cues : cues[i].start = v}
           n == Cardinality(A)
           a == Ascending(A)
<1>1. /\ N \in Nat /\ DOMAIN cues = 1..N
      /\ \A i \in 1..N : cues[i] \in CueSet /\ cues[i].start \in Nat /\ i \in Nat
  BY CueFacts
<1>2. PICK p : Permutes(cues, p)
  BY SortedBy
<1>3. /\ p \in [1..N -> 1..N] /\ s = [i \in 1..N |-> cues[p[i]]]
      /\ \A i, j \in 1..N : i < j => Sooner(cues, p[i], p[j])
      /\ \A x \in 1..N : \E i \in 1..N : p[i] = x
  BY <1>2 DEF Permutes
<1>4. DOMAIN s = 1..N /\ s \in Seq(CueSet) /\ Len(s) = N
  BY <1>1, <1>3, SortedIs
<1> HIDE DEF s
<1>5. \A i \in 1..N : p[i] \in 1..N /\ s[i] = cues[p[i]]
  BY <1>3
<1>6. A \subseteq 1..N /\ B \subseteq Nat
  BY <1>1, <1>4
<1>7. /\ IsFiniteSet(A) /\ n \in Nat /\ Those(s, A) \in Seq(CueSet) /\ Len(Those(s, A)) = n
      /\ \A m \in 1..n : Those(s, A)[m] = s[a[m]] /\ a[m] \in A
  <2>1. A \subseteq 1..Len(s)
    BY <1>4, <1>6
  <2> DEFINE t == Those(s, A)
  <2>2. t = Those(s, A)
    OBVIOUS
  <2> HIDE DEF A, t
  <2>3. t \in Seq(CueSet) /\ Gathered(s, A, t)
    BY <1>4, <2>1, <2>2, ThoseAre
  <2> QED
    BY <2>2, <2>3 DEF Gathered
<1>8. /\ \A i, j \in 1..n : i < j => a[i] < a[j]
      /\ \A x \in A : \E i \in 1..n : a[i] = x
  <2>1. A \subseteq Nat
    BY <1>1, <1>6
  <2> HIDE DEF A
  <2> QED
    BY <1>7, <2>1, AscendingUp
<1> DEFINE q == [m \in 1..n |-> p[a[m]]]
<1>9. \A m \in 1..n : a[m] \in 1..N /\ s[a[m]].start = v /\ q[m] \in B /\ q[m] = p[a[m]]
                      /\ q[m] \in 1..N
  <2> SUFFICES ASSUME NEW m \in 1..n
               PROVE  a[m] \in 1..N /\ s[a[m]].start = v /\ q[m] \in B /\ q[m] = p[a[m]] /\ q[m] \in 1..N
    OBVIOUS
  <2>1. a[m] \in A
    BY <1>7
  <2>2. a[m] \in 1..N /\ s[a[m]].start = v
    BY <1>4, <2>1
  <2>3. q[m] = p[a[m]]
    OBVIOUS
  <2> HIDE DEF q, a, n, A
  <2>4. p[a[m]] \in 1..N /\ cues[p[a[m]]].start = v
    BY <1>5, <2>2
  <2> QED
    BY <1>1, <2>2, <2>3, <2>4
<1>10. q \in [1..n -> B]
  <2> HIDE DEF n, a, B
  <2> QED
    BY <1>9
<1> HIDE DEF q, a, n, A
<1>11. Climbs(q, n)
  <2> SUFFICES ASSUME NEW i \in 1..n, NEW j \in 1..n, i < j PROVE q[i] < q[j]
    BY DEF Climbs
  <2>1. a[i] < a[j] /\ a[i] \in 1..N /\ a[j] \in 1..N
    BY <1>8, <1>9
  <2>2. Sooner(cues, q[i], q[j])
    BY <1>3, <1>9, <2>1
  <2>3. cues[q[i]].start = v /\ cues[q[j]].start = v /\ q[i] \in 1..N /\ q[j] \in 1..N
    BY <1>9
  <2>4. v \in Nat
    BY <1>1, <2>3
  <2> QED
    BY <2>2, <2>3, <2>4 DEF Sooner
<1>12. Fills(q, n, B)
  <2> SUFFICES ASSUME NEW x \in B PROVE \E m \in 1..n : q[m] = x
    BY DEF Fills
  <2>1. x \in 1..N /\ cues[x].start = v
    BY <1>1
  <2>2. PICK i \in 1..N : p[i] = x
    BY <1>3, <2>1
  <2>3. i \in A
    BY <1>4, <1>5, <2>1, <2>2 DEF A
  <2>4. PICK m \in 1..n : a[m] = i
    BY <1>8, <2>3
  <2> QED
    BY <1>9, <2>2, <2>4
<1>13. Ascending(B) = q /\ Cardinality(B) = n
  <2> HIDE DEF B
  <2> QED
    BY <1>6, <1>7, <1>10, <1>11, <1>12, AscendingBy
<1>14. /\ Those(cues, B) \in Seq(CueSet) /\ Len(Those(cues, B)) = n
       /\ \A m \in 1..n : Those(cues, B)[m] = cues[q[m]]
  <2>1. B \subseteq 1..Len(cues)
    BY <1>1
  <2> HIDE DEF B
  <2>2. /\ Those(cues, B) \in Seq(CueSet) /\ Len(Those(cues, B)) = Cardinality(B)
        /\ \A m \in 1..Cardinality(B) : Those(cues, B)[m] = cues[Ascending(B)[m]]
    <3> DEFINE c == cues
    <3>1. c \in Seq(CueSet) /\ B \subseteq 1..Len(c)
      BY <2>1
    <3> HIDE DEF c
    <3>2. /\ Those(c, B) \in Seq(CueSet) /\ Len(Those(c, B)) = Cardinality(B)
          /\ \A m \in 1..Cardinality(B) : Those(c, B)[m] = c[Ascending(B)[m]]
      <4> DEFINE t == Those(c, B)
      <4>1. t = Those(c, B)
        OBVIOUS
      <4> HIDE DEF t
      <4>2. t \in Seq(CueSet) /\ Gathered(c, B, t)
        BY <3>1, <4>1, ThoseAre
      <4> QED
        BY <4>1, <4>2 DEF Gathered
    <3> QED
      BY <3>2 DEF c
  <2> QED
    BY <1>13, <2>2
<1>15. \A m \in 1..n : Those(s, A)[m] = Those(cues, B)[m]
  BY <1>5, <1>7, <1>9, <1>14
<1>16. Those(s, A) = Those(cues, B)
  BY <1>7, <1>14, <1>15, SameSeq
<1> QED
  BY <1>16, Zenon DEF s, A, Together

-----------------------------------------------------------------------------
(* What the strict parser says of the derivative.                            *)
LEMMA CueBack ==
    ASSUME NEW c, Sound(c), NEW n \in Nat
    PROVE  /\ Cue(Block(n, c)) = c /\ Block(n, c)[2].a = c.start
           /\ \A before \in Nat : Fault(Block(n, c), n, before) =
                 IF before > c.start THEN "InvalidTiming" ELSE ""
<1> DEFINE b == Block(n, c)
<1>1. c \in CueSet /\ c.start < c.end /\ Wordy(c.text) /\ c.start \in Nat /\ c.end \in Nat
  BY DEF Sound, CueSet
<1>2. /\ Len(b) = Len(c.text) + 2 /\ Len(c.text) \in Nat
      /\ b[1] = Line("label", n, 0) /\ b[2] = Line("time", c.start, c.end)
      /\ \A i \in 1..Len(c.text) : b[i + 2] = c.text[i]
      /\ SubSeq(b, 3, Len(b)) = c.text
  BY <1>1, BlockIs
<1> HIDE DEF b
<1>3. b[2].kind = "time" /\ b[2].a = c.start /\ b[2].b = c.end
  BY <1>2 DEF Line
<1>4. Cue(b) = c
  <2>1. c = [start |-> c.start, end |-> c.end, text |-> c.text]
    BY <1>1 DEF CueSet
  <2> QED
    BY <1>2, <1>3, <2>1 DEF Cue
<1>5. Len(c.text) # 0
  <2>1. c.text \in Seq(Lines) /\ c.text # <<>>
    BY <1>1 DEF CueSet, Wordy
  <2> QED
    BY <2>1
<1>6. ASSUME NEW k \in 3..Len(b) PROVE b[k].kind # "time"
  <2>1. k - 2 \in 1..Len(c.text) /\ (k - 2) + 2 = k
    BY <1>2
  <2>2. c.text[k - 2].kind # "time" /\ b[(k - 2) + 2] = c.text[k - 2]
    BY <1>1, <1>2, <2>1 DEF Wordy
  <2> QED
    BY <2>1, <2>2
<1>7. ASSUME NEW before \in Nat
      PROVE  Fault(b, n, before) = IF before > c.start THEN "InvalidTiming" ELSE ""
  <2>1. b[1] = Line("label", n, 0) /\ ~(Len(b) = 1) /\ ~(Len(b) = 2) /\ ~(b[2].b <= b[2].a)
    BY <1>1, <1>2, <1>3, <1>5
  <2>2. ~(b[1] # Line("label", n, 0)) /\ ~(Len(b) = 1 \/ b[2].kind # "time")
        /\ ~(\E k \in 3..Len(b) : b[k].kind = "time")
    BY <1>3, <1>6, <2>1
  <2>3. (b[2].b <= b[2].a \/ before > b[2].a) <=> before > c.start
    BY <1>3, <2>1
  <2> QED
    BY <2>1, <2>2, <2>3 DEF Fault
<1> QED
  BY <1>3, <1>4, <1>7 DEF b

LEMMA StepsUp ==
    ASSUME NEW cues, cues \in Seq(CueSet),
           \A i \in 2..Len(cues) : cues[i - 1].start <= cues[i].start
    PROVE  Chronological(cues)
<1> DEFINE N == Len(cues)
<1>1. N \in Nat /\ \A n \in 1..N : cues[n].start \in Nat
  BY CueFacts
<1>2. ASSUME NEW i \in 1..N
      PROVE  \A d \in Nat : i + d <= N => cues[i].start <= cues[i + d].start
  <2> DEFINE G == {d \in Nat : i + d <= N => cues[i].start <= cues[i + d].start}
  <2>1. 0 \in G
    BY <1>1
  <2>2. ASSUME NEW d \in Nat, d \in G PROVE d + 1 \in G
    <3> SUFFICES ASSUME i + (d + 1) <= N PROVE cues[i].start <= cues[i + (d + 1)].start
      OBVIOUS
    <3> DEFINE j == i + d
               k == i + (d + 1)
    <3>1. j \in 1..N /\ k \in 1..N /\ k \in 2..N /\ k - 1 = j /\ cues[i].start <= cues[j].start
      BY <1>1, <2>2
    <3> HIDE DEF j, k
    <3>2. cues[j].start <= cues[k].start
      BY <3>1
    <3>3. cues[i].start <= cues[k].start
      <4>1. cues[i].start \in Nat /\ cues[j].start \in Nat /\ cues[k].start \in Nat
        BY <1>1, <3>1
      <4> QED
        BY <3>1, <3>2, <4>1
    <3> QED
      BY <3>3 DEF k
  <2>3. \A d \in Nat : d \in G
    <3> HIDE DEF G
    <3> QED
      BY <2>1, <2>2, NatInduct
  <2> QED
    BY <2>3
<1>3. ASSUME NEW i \in 1..N, NEW j \in 1..N, i < j PROVE cues[i].start <= cues[j].start
  <2>1. j - i \in Nat /\ i + (j - i) = j /\ j <= N
    BY <1>1, <1>3
  <2> QED
    BY <1>2, <2>1
<1> QED
  BY <1>3 DEF Chronological

(* Only the chronology can be wrong with a derivative.                       *)
LEMMA StrictIs ==
    ASSUME NEW cues, cues \in Seq(CueSet), cues # <<>>, AllSound(cues),
           NEW blocks, blocks = Blocks(Written(cues))
    PROVE  /\ DOMAIN blocks = 1..Len(cues) /\ CuesOf(blocks) = cues
           /\ StrictFault(blocks) \in {"", "InvalidTiming"}
           /\ StrictFault(blocks) = "" <=> Chronological(cues)
           /\ \A i \in DOMAIN blocks : Fault(blocks[i], i, 0) = ""
<1> DEFINE N == Len(cues)
           before(i) == IF i = 1 THEN 0 ELSE blocks[i - 1][2].a
           fault(i) == Fault(blocks[i], i, IF i = 1 THEN 0 ELSE blocks[i - 1][2].a)
           reached == {i \in DOMAIN blocks : \A k \in 1..(i - 1) : fault(k) = ""}
<1>1. N \in Nat /\ DOMAIN cues = 1..N /\ \A n \in 1..N : cues[n] \in CueSet /\ cues[n].start \in Nat /\ n \in Nat
  BY CueFacts
<1>2. N >= 1
  <2>1. N # 0
    OBVIOUS
  <2> QED
    BY <1>1, <2>1
<1>3. blocks = [n \in 1..N |-> Block(n, cues[n])]
  <2>1. \A n \in 1..N : Wordy(cues[n].text)
    BY DEF AllSound, Sound
  <2> QED
    BY <2>1, WrittenBlocks
<1> HIDE DEF N
<1>4. DOMAIN blocks = 1..N /\ \A n \in 1..N : blocks[n] = Block(n, cues[n])
  BY <1>3
<1>5. ASSUME NEW n \in 1..N
      PROVE  /\ Cue(blocks[n]) = cues[n] /\ blocks[n][2].a = cues[n].start
             /\ \A b \in Nat : Fault(blocks[n], n, b) = IF b > cues[n].start THEN "InvalidTiming" ELSE ""
  <2>1. Sound(cues[n]) /\ n \in Nat
    BY <1>1 DEF AllSound, N
  <2> DEFINE c == cues[n]
             b == Block(n, c)
  <2>2. Sound(c) /\ blocks[n] = b
    BY <1>4, <2>1
  <2> HIDE DEF c
  <2>3. /\ Cue(b) = c /\ b[2].a = c.start
        /\ \A e \in Nat : Fault(b, n, e) = IF e > c.start THEN "InvalidTiming" ELSE ""
    BY <2>1, <2>2, CueBack
  <2> HIDE DEF b
  <2> QED
    BY <2>2, <2>3 DEF c
<1>6. CuesOf(blocks) = cues
  <2>1. CuesOf(blocks) = [n \in 1..N |-> Cue(blocks[n])]
    BY <1>4 DEF CuesOf
  <2>2. \A n \in 1..N : Cue(blocks[n]) = cues[n] /\ cues[n] \in CueSet
    BY <1>1, <1>5
  <2>3. CuesOf(blocks) \in Seq(CueSet) /\ Len(CuesOf(blocks)) = N
        /\ \A n \in 1..N : CuesOf(blocks)[n] = cues[n]
    <3> HIDE DEF CuesOf, Cue
    <3> QED
      BY <1>1, <2>1, <2>2
  <2> DEFINE back == CuesOf(blocks)
             c == cues
  <2>4. /\ back \in Seq(CueSet) /\ c \in Seq(CueSet) /\ Len(back) = Len(c)
        /\ \A n \in 1..Len(back) : back[n] = c[n]
    BY <2>3 DEF N
  <2> HIDE DEF back, c
  <2>5. back = c
    BY <2>4, SameSeq
  <2> QED
    BY <2>5 DEF back, c
<1>7. \A i \in 1..N : Fault(blocks[i], i, 0) = ""
  <2>1. \A i \in 1..N : ~(0 > cues[i].start)
    BY <1>1
  <2> QED
    BY <1>5, <2>1
<1>8. \A i \in 2..N : i - 1 \in 1..N /\ i \in 1..N /\ i # 1
  BY <1>1
<1>9. fault(1) = "" /\ \A i \in 2..N : fault(i) = IF cues[i - 1].start > cues[i].start THEN "InvalidTiming" ELSE ""
  <2>1. fault(1) = ""
    <3>1. fault(1) = Fault(blocks[1], 1, 0)
      BY Zenon
    <3>2. 1 \in 1..N
      BY <1>1, <1>2
    <3> QED
      BY <1>7, <3>1, <3>2
  <2>2. ASSUME NEW i \in 2..N
        PROVE fault(i) = IF cues[i - 1].start > cues[i].start THEN "InvalidTiming" ELSE ""
    <3>1. fault(i) = Fault(blocks[i], i, cues[i - 1].start) /\ cues[i - 1].start \in Nat
      BY <1>1, <1>5, <1>8
    <3> QED
      BY <1>5, <1>8, <3>1
  <2> QED
    BY <2>1, <2>2
<1>10. \A i \in 1..N : fault(i) \in {"", "InvalidTiming"}
  <2>1. \A i \in 1..N : i = 1 \/ i \in 2..N
    BY <1>1
  <2> QED
    BY <1>9, <2>1
<1>11. StrictFault(blocks) = fault(Max(reached))
  <2>1. blocks # <<>>
    <3>1. 1 \in DOMAIN blocks
      BY <1>1, <1>2, <1>4
    <3> QED
      BY <3>1
  <2> QED
    BY <2>1 DEF StrictFault
<1>12. \A i \in 1..N : i \in reached <=> \A k \in 1..(i - 1) : fault(k) = ""
  BY <1>4
<1>13. reached \subseteq 1..N /\ 1 \in reached
  <2>1. 1 \in 1..N /\ \A k : k \notin 1..(1 - 1)
    BY <1>1, <1>2
  <2> QED
    BY <1>4, <2>1
<1> HIDE DEF fault, reached
<1> DEFINE m == Max(reached)
<1>14. m \in reached /\ \A y \in reached : y <= m
  <2>1. 1 \in Nat /\ N \in Nat /\ reached # {}
    BY <1>1, <1>13
  <2> QED
    BY <1>13, <2>1, GreatestIs
<1> HIDE DEF m
<1>15. m \in 1..N
  BY <1>13, <1>14
<1>16. StrictFault(blocks) \in {"", "InvalidTiming"}
  BY <1>10, <1>11, <1>15 DEF m
<1>17. ASSUME StrictFault(blocks) = "" PROVE Chronological(cues)
  <2>1. fault(m) = ""
    BY <1>11, <1>17 DEF m
  <2>2. \A k \in 1..(m - 1) : fault(k) = ""
    BY <1>12, <1>14, <1>15
  <2>3. \A k \in 1..m : fault(k) = ""
    <3>1. \A k \in 1..m : k = m \/ k \in 1..(m - 1)
      BY <1>15
    <3> QED
      BY <2>1, <2>2, <3>1
  <2>4. m = N
    <3> SUFFICES ASSUME m # N PROVE FALSE
      OBVIOUS
    <3>1. m + 1 \in 1..N /\ (m + 1) - 1 = m /\ ~(m + 1 <= m)
      BY <1>1, <1>15
    <3>2. m + 1 \in reached
      BY <1>12, <2>3, <3>1
    <3> QED
      BY <1>14, <3>1, <3>2
  <2>5. ASSUME NEW i \in 2..N PROVE cues[i - 1].start <= cues[i].start
    <3>1. fault(i) = "" /\ fault(i) = IF cues[i - 1].start > cues[i].start THEN "InvalidTiming" ELSE ""
      BY <1>8, <1>9, <2>3, <2>4
    <3>2. ~(cues[i - 1].start > cues[i].start)
      BY <3>1
    <3>3. cues[i - 1].start \in Nat /\ cues[i].start \in Nat
      BY <1>1, <1>8
    <3> QED
      BY <3>2, <3>3
  <2> QED
    BY <2>5, StepsUp DEF N
<1>18. ASSUME Chronological(cues) PROVE StrictFault(blocks) = ""
  <2>1. CASE m = 1
    BY <1>9, <1>11, <2>1 DEF m
  <2>2. CASE m \in 2..N
    <3>1. m - 1 \in 1..N /\ m \in 1..N /\ m - 1 < m
      BY <1>1, <2>2
    <3>2. cues[m - 1].start <= cues[m].start
      BY <1>18, <3>1 DEF Chronological, N
    <3>3. ~(cues[m - 1].start > cues[m].start)
      BY <1>1, <3>1, <3>2
    <3> QED
      BY <1>9, <1>11, <2>2, <3>3 DEF m
  <2>3. m = 1 \/ m \in 2..N
    BY <1>1, <1>15
  <2> QED
    BY <2>1, <2>2, <2>3
<1> QED
  BY <1>4, <1>6, <1>7, <1>16, <1>17, <1>18 DEF N

(* So what was kept is read back, in order.                                  *)
LEMMA OrderReadsBack ==
    ASSUME work = "order", retained \in Seq(CueSet), retained # <<>>, AllSound(retained), Order
    PROVE  /\ work' = "accepted" /\ transcript' = Sorted(retained)
           /\ policies' = policies \cup {p \in {"ordering"} : ~Chronological(retained)}
           /\ UNCHANGED <<lines, cause, at, previous, records, retained>>
<1> DEFINE blocks == Blocks(Written(retained))
           strict == StrictFault(blocks)
           alone == [i \in DOMAIN blocks |-> Fault(blocks[i], i, 0)]
           sorted == Sorted(CuesOf(blocks))
           again == Blocks(Written(sorted))
           expected == Sorted(retained)
           read == IF strict = "" THEN CuesOf(blocks) ELSE CuesOf(again)
<1>1. /\ CuesOf(blocks) = retained /\ strict \in {"", "InvalidTiming"}
      /\ strict = "" <=> Chronological(retained)
      /\ \A i \in DOMAIN blocks : Fault(blocks[i], i, 0) = ""
  BY StrictIs
<1>2. /\ expected \in Seq(CueSet) /\ Len(expected) = Len(retained) /\ Chronological(expected)
      /\ AllSound(expected) /\ (Chronological(retained) => expected = retained)
  BY SortedIs
<1>3. expected # <<>>
  <2>1. Len(retained) # 0
    OBVIOUS
  <2> HIDE DEF expected
  <2> QED
    BY <1>2, <2>1
<1>4. sorted = expected
  BY <1>1
<1>5. StrictFault(again) = "" /\ CuesOf(again) = expected
  <2>1. again = Blocks(Written(expected))
    BY <1>4
  <2> HIDE DEF again, expected
  <2> QED
    BY <1>2, <1>3, <2>1, StrictIs
<1>6. \A i \in DOMAIN alone : alone[i] = ""
  BY <1>1
<1>7. read = expected
  BY <1>1, <1>2, <1>5
<1>8. IF strict \notin {"", "InvalidTiming"} THEN Refusal("Derivative")
      ELSE IF strict # "" /\ \E i \in DOMAIN alone : alone[i] # ""
      THEN Refusal("Derivative")
      ELSE IF strict # "" /\ (StrictFault(again) # "" \/ CuesOf(again) # sorted)
      THEN Refusal("RoundTrip")
      ELSE IF read # expected THEN Refusal("RoundTrip")
      ELSE /\ transcript' = read
           /\ policies' = policies \cup {p \in {"ordering"} : strict # ""}
           /\ work' = "accepted"
           /\ UNCHANGED <<lines, cause, at, previous, records, retained>>
  BY Zenon DEF Order
<1> HIDE DEF blocks, strict, alone, sorted, again, expected, read
<1>9. /\ transcript' = read /\ policies' = policies \cup {p \in {"ordering"} : strict # ""}
      /\ work' = "accepted" /\ UNCHANGED <<lines, cause, at, previous, records, retained>>
  BY <1>1, <1>4, <1>5, <1>6, <1>7, <1>8
<1>10. {p \in {"ordering"} : strict # ""} = {p \in {"ordering"} : ~Chronological(retained)}
  BY <1>1
<1> QED
  BY <1>7, <1>9, <1>10 DEF expected

-----------------------------------------------------------------------------
(* What preparation makes of the records.                                    *)
LEMMA ThoseEvery ==
    ASSUME NEW S, NEW s, s \in Seq(S), NEW K, K \subseteq 1..Len(s), Cardinality(K) = Len(s)
    PROVE  Those(s, K) = s
<1>1. Len(s) \in Nat
  OBVIOUS
<1>2. IsFiniteSet(1..Len(s)) /\ Cardinality(1..Len(s)) = Len(s)
  BY <1>1, CountTo
<1>3. K = 1..Len(s)
  <2> DEFINE T == 1..Len(s)
  <2>1. IsFiniteSet(T) /\ K \subseteq T /\ Cardinality(K) = Cardinality(T)
    BY <1>2
  <2> HIDE DEF T
  <2>2. K = T
    BY <2>1, FS_Subset
  <2> QED
    BY <2>2 DEF T
<1> QED
  BY <1>3, ThoseAll

Plain(text) == \A i \in 1..Len(text) : ~Timed(text[i])
Tidied(words) == [k \in 1..Len(words) |-> Normalised(words[k])]
LEMMA WordsAre ==
    ASSUME NEW r, r \in RecordSet, Plain(r.text)
    PROVE  /\ Words(r) \in Seq(Lines) /\ Len(Words(r)) <= Len(r.text)
           /\ Cleaned(r) \in RecordSet /\ Cleaned(r) = [r EXCEPT !.text = Tidied(Words(r))]
           /\ Words(r) # <<>> => Wordy(Cleaned(r).text)
           /\ Len(Words(r)) = Len(r.text) => Words(r) = r.text
<1> DEFINE t == r.text
           K == {i \in DOMAIN t : ~Empty(t[i])}
           w == Words(r)
<1>1. t \in Seq(Lines) /\ DOMAIN t = 1..Len(t) /\ Len(t) \in Nat
  BY DEF RecordSet
<1>2. w = Those(t, K)
  BY DEF Words
<1>3. K \subseteq 1..Len(t)
  BY <1>1
<1> HIDE DEF w
<1>4. w \in Seq(Lines) /\ Gathered(t, K, w)
  <2> HIDE DEF t, K
  <2> QED
    BY <1>1, <1>2, <1>3, ThoseAre
<1>5. /\ Len(w) \in Nat /\ Len(w) = Cardinality(K)
      /\ \A m \in 1..Len(w) : w[m] \in Lines /\ ~Empty(w[m]) /\ ~Timed(w[m])
  <2>1. Len(w) \in Nat /\ Len(w) = Cardinality(K) /\ \A m \in 1..Len(w) : w[m] \in Lines
    <3> HIDE DEF t, K
    <3> QED
      BY <1>4 DEF Gathered
  <2>2. ASSUME NEW m \in 1..Len(w) PROVE ~Empty(w[m]) /\ ~Timed(w[m])
    <3> DEFINE i == Ascending(K)[m]
    <3>1. w[m] = t[i] /\ i \in K
      <4> HIDE DEF K, t
      <4> QED
        BY <1>4, <2>1 DEF Gathered
    <3> HIDE DEF i
    <3>2. i \in 1..Len(t) /\ ~Empty(t[i])
      BY <1>1, <3>1
    <3> QED
      BY <3>1, <3>2 DEF Plain
  <2> QED
    BY <2>1, <2>2
<1>6. Len(w) <= Len(t)
  <2>1. IsFiniteSet(1..Len(t)) /\ Cardinality(1..Len(t)) = Len(t)
    BY <1>1, CountTo
  <2>2. Cardinality(K) <= Cardinality(1..Len(t))
    <3> HIDE DEF K
    <3> QED
      BY <1>3, <2>1, FS_Subset
  <2> QED
    BY <1>1, <1>5, <2>1, <2>2
<1>7. \A l \in Lines : /\ Normalised(l) \in Lines
                       /\ ~Empty(l) => ~Empty(Normalised(l))
                       /\ ~Timed(l) => Normalised(l).kind # "time"
  BY DEF Normalised, Lines, Kinds, Empty, Timed
<1> DEFINE n == Tidied(w)
<1>8. n \in Seq(Lines) /\ Len(n) = Len(w) /\ \A m \in 1..Len(w) : n[m] = Normalised(w[m])
  <2>1. \A m \in 1..Len(w) : Normalised(w[m]) \in Lines
    BY <1>5, <1>7
  <2> HIDE DEF Normalised
  <2> QED
    BY <1>5, <2>1 DEF Tidied
<1>9. Cleaned(r) = [r EXCEPT !.text = n]
  <2>1. DOMAIN w = 1..Len(w)
    BY <1>4
  <2> QED
    BY <2>1 DEF Cleaned, Tidied, w
<1> HIDE DEF n
<1>10. Cleaned(r) \in RecordSet /\ Cleaned(r).text = n
  BY <1>8, <1>9 DEF RecordSet
<1>11. ASSUME w # <<>> PROVE Wordy(n)
  <2>1. n # <<>>
    <3>1. Len(w) # 0
      BY <1>4, <1>11
    <3>2. Len(n) # 0
      BY <1>8, <3>1
    <3> QED
      BY <3>2
  <2>2. \A m \in 1..Len(n) : ~Empty(n[m]) /\ n[m].kind # "time"
    BY <1>5, <1>7, <1>8
  <2> QED
    BY <2>1, <2>2 DEF Wordy
<1>12. ASSUME Len(w) = Len(t) PROVE w = t
  <2>1. Cardinality(K) = Len(t)
    BY <1>5, <1>12
  <2> HIDE DEF K, t
  <2> QED
    BY <1>1, <1>2, <1>3, <2>1, ThoseEvery
<1> QED
  BY <1>4, <1>6, <1>9, <1>10, <1>11, <1>12 DEF w, n

(* A record that needs no repair is written as its lines stand in the file.  *)
CueOf(r) == [start |-> From(r), end |-> To(r), text |-> r.text]
Clean(r) ==
    /\ r.separated /\ lines[r.timing].kind = "time" /\ r.text # <<>>
    /\ Plain(r.text) /\ ~Marked(r) /\ Words(r) = r.text

LEMMA CleanedAlone ==
    ASSUME NEW r, r \in RecordSet, Clean(r)
    PROVE  Cleaned(r) = r /\ Words(r) # <<>> /\ Wordy(r.text)
<1>1. r.text \in Seq(Lines) /\ Plain(r.text) /\ Words(r) = r.text /\ r.text # <<>>
  BY DEF RecordSet, Clean
<1>2. Cleaned(r) = [r EXCEPT !.text = Tidied(r.text)] /\ Wordy(Cleaned(r).text)
  BY <1>1, WordsAre
<1>3. \A i \in 1..Len(r.text) : r.text[i] \in Lines /\ Normalised(r.text[i]) = r.text[i]
  <2>1. DOMAIN r.text = 1..Len(r.text) /\ \A i \in 1..Len(r.text) : r.text[i] \in Lines
    BY <1>1
  <2>2. \A i \in 1..Len(r.text) : r.text[i].kind # "mark"
    BY <2>1 DEF Clean, Marked
  <2> QED
    BY <2>1, <2>2 DEF Normalised
<1>4. Tidied(r.text) = r.text
  <2> DEFINE t == r.text
  <2>1. t \in Seq(Lines) /\ Tidied(t) = [k \in 1..Len(t) |-> Normalised(t[k])]
    BY <1>1 DEF Tidied
  <2>2. \A k \in 1..Len(t) : Normalised(t[k]) = t[k]
    BY <1>3
  <2> HIDE DEF t
  <2>3. Tidied(t) = [k \in 1..Len(t) |-> t[k]]
    BY <2>1, <2>2
  <2>4. t = [k \in 1..Len(t) |-> t[k]]
    BY <2>1
  <2> QED
    BY <2>3, <2>4 DEF t
<1>5. Cleaned(r) = r
  BY <1>2, <1>4 DEF RecordSet
<1> QED
  BY <1>1, <1>2, <1>5

LEMMA SpanFacts ==
    ASSUME NEW m \in Nat, NEW a \in 1..m, NEW b \in 1..(m + 1), a < b
    PROVE  /\ a + 1 \in Nat \ {0} /\ b - a - 1 \in Nat /\ (a + 1) + (b - a - 1) <= m + 1
           /\ (a + 1) + (b - a - 1) - 1 = b - 1
           /\ \A i \in 1..(b - a - 1) : /\ a + i \in 1..m /\ (a + 1) + i - 1 = a + i
                                       /\ a < a + i /\ a + i < b
  OBVIOUS

LEMMA TextOf ==
    ASSUME lines \in Seq(Lines), NEW r, r \in RecordSet, Shaped(r)
    PROVE  /\ r.text \in Seq(Lines) /\ Len(r.text) = r.stop - r.timing - 1 /\ Len(r.text) \in Nat
           /\ \A i \in 1..Len(r.text) : r.timing + i \in 1..Len(lines) /\ r.text[i] = lines[r.timing + i]
           /\ Plain(r.text)
           /\ CueOf(r) \in CueSet /\ CueOf(r).text = r.text
<1> DEFINE t == r.timing
           n == r.stop - r.timing - 1
<1>1. /\ t \in 1..Len(lines) /\ r.stop \in 1..(Len(lines) + 1) /\ t < r.stop /\ Len(lines) \in Nat
      /\ r.text = SubSeq(lines, t + 1, r.stop - 1) /\ Timed(lines[t]) /\ lines[t] \in Lines
      /\ \A i \in 1..Len(lines) : t < i /\ i < r.stop => ~Timed(lines[i])
  BY LineFacts DEF Shaped
<1>2. /\ t + 1 \in Nat \ {0} /\ n \in Nat /\ (t + 1) + n <= Len(lines) + 1
      /\ (t + 1) + n - 1 = r.stop - 1
      /\ \A i \in 1..n : /\ t + i \in 1..Len(lines) /\ (t + 1) + i - 1 = t + i
                         /\ t < t + i /\ t + i < r.stop
  <2> DEFINE m == Len(lines)
             b == r.stop
  <2>1. m \in Nat /\ t \in 1..m /\ b \in 1..(m + 1) /\ t < b
    BY <1>1
  <2> HIDE DEF m, t, b
  <2>2. /\ t + 1 \in Nat \ {0} /\ b - t - 1 \in Nat /\ (t + 1) + (b - t - 1) <= m + 1
        /\ (t + 1) + (b - t - 1) - 1 = b - 1
        /\ \A i \in 1..(b - t - 1) : /\ t + i \in 1..m /\ (t + 1) + i - 1 = t + i
                                    /\ t < t + i /\ t + i < b
    BY <2>1, SpanFacts
  <2> QED
    BY <2>2, Zenon DEF m, b, t
<1>3. \A i \in 1..n : t + i \in 1..Len(lines) /\ (t + 1) + i - 1 = t + i /\ t < t + i /\ t + i < r.stop
  BY <1>2, Zenon
<1> DEFINE a == t + 1
<1>4. /\ r.text \in Seq(Lines) /\ Len(r.text) = n
      /\ \A i \in 1..n : r.text[i] = lines[a + i - 1]
  <2>1. a \in Nat \ {0} /\ n \in Nat /\ a + n <= Len(lines) + 1 /\ r.text = SubSeq(lines, a, a + n - 1)
    BY <1>1, <1>2
  <2> HIDE DEF a, n
  <2> QED
    BY <2>1, SliceAt
<1> HIDE DEF n
<1>5. \A i \in 1..n : r.text[i] = lines[t + i]
  BY <1>3, <1>4
<1>6. Plain(r.text)
  BY <1>1, <1>3, <1>4, <1>5 DEF Plain
<1>7. CueOf(r) \in CueSet /\ CueOf(r).text = r.text
  <2>1. lines[t].a \in Nat /\ lines[t].b \in Nat
    BY <1>1 DEF Lines
  <2> QED
    BY <1>4, <2>1 DEF CueOf, From, To, CueSet
<1> QED
  BY <1>2, <1>3, <1>4, <1>5, <1>6, <1>7 DEF n

LEMMA LinesAt ==
    ASSUME lines \in Seq(Lines), NEW a \in Nat \ {0}, NEW n \in Nat, a + n <= Len(lines) + 1
    PROVE  /\ SubSeq(lines, a, a + n - 1) \in Seq(Lines) /\ Len(SubSeq(lines, a, a + n - 1)) = n
           /\ \A i \in 1..n : SubSeq(lines, a, a + n - 1)[i] = lines[a + i - 1]
  BY SliceAt

LEMMA RecordBlock ==
    ASSUME lines \in Seq(Lines), NEW r, r \in RecordSet, Shaped(r), Clean(r),
           NEW k \in Nat, r.label = <<k, 0>>
    PROVE  /\ SubSeq(lines, r.header, r.stop - 1) = Block(k, CueOf(r))
           /\ \A i \in 1..Len(lines) : r.header <= i /\ i < r.stop => ~Empty(lines[i])
<1> DEFINE h == r.header
           c == CueOf(r)
           t == r.text
           n == Len(t) + 2
           b == Block(k, c)
<1>1. /\ r.timing = h + 1 /\ h \in 1..Len(lines) /\ h + 1 \in 1..Len(lines) /\ Len(lines) \in Nat
      /\ r.stop \in 1..(Len(lines) + 1)
      /\ Numbered(lines[h]) /\ LabelAt(h) = <<k, 0>>
      /\ lines[h] \in Lines /\ lines[h + 1] \in Lines /\ lines[h + 1].kind = "time"
  <2>1. r.label # <<>>
    OBVIOUS
  <2> QED
    BY <2>1, LineFacts DEF Shaped, Clean
<1>2. lines[h] = Line("label", k, 0) /\ lines[h + 1] = Line("time", c.start, c.end)
  <2>1. lines[h].kind = "label" /\ lines[h].a = k /\ lines[h].b = 0
    BY <1>1 DEF Numbered, LabelAt
  <2>2. c.start = lines[h + 1].a /\ c.end = lines[h + 1].b
    BY <1>1 DEF CueOf, From, To
  <2>3. \A l \in Lines : l = [kind |-> l.kind, a |-> l.a, b |-> l.b]
    BY DEF Lines
  <2> QED
    BY <1>1, <2>1, <2>2, <2>3 DEF Line
<1>3. /\ t \in Seq(Lines) /\ Len(t) = r.stop - r.timing - 1 /\ Len(t) \in Nat
      /\ \A i \in 1..Len(t) : r.timing + i \in 1..Len(lines) /\ t[i] = lines[r.timing + i]
      /\ c \in CueSet /\ c.text = t
  BY TextOf
<1>4. /\ b \in Seq(Lines) /\ Len(b) = n
      /\ b[1] = lines[h] /\ b[2] = lines[h + 1]
      /\ \A i \in 1..Len(t) : b[i + 2] = t[i]
  <2>1. /\ b \in Seq(Lines) /\ Len(b) = Len(c.text) + 2
        /\ b[1] = Line("label", k, 0) /\ b[2] = Line("time", c.start, c.end)
        /\ \A i \in 1..Len(c.text) : b[i + 2] = c.text[i]
    <3> HIDE DEF c
    <3> QED
      BY <1>3, BlockIs
  <2> HIDE DEF b, c, t
  <2> QED
    BY <1>2, <1>3, <2>1
<1> HIDE DEF b, c, t
<1> DEFINE L == Len(lines)
           m == r.timing
           e == r.stop
           l == Len(t)
<1>a. /\ L \in Nat /\ h \in 1..L /\ h + 1 \in 1..L /\ m = h + 1 /\ e \in 1..(L + 1)
      /\ l = e - m - 1 /\ l \in Nat
  BY <1>1, <1>3
<1>b. n = l + 2
  OBVIOUS
<1>5. n \in Nat /\ h \in Nat \ {0} /\ h + n = r.stop /\ h + n - 1 = r.stop - 1
  <2> HIDE DEF L, m, e, l, h, n
  <2>1. n \in Nat /\ h \in Nat \ {0} /\ h + n = e /\ h + n - 1 = e - 1
    BY <1>a, <1>b
  <2> QED
    BY <2>1 DEF e
<1>6. \A i \in 1..n : b[i] = lines[h + i - 1] /\ h + i - 1 \in 1..Len(lines)
  <2> SUFFICES ASSUME NEW i \in 1..n PROVE b[i] = lines[h + i - 1] /\ h + i - 1 \in 1..Len(lines)
    OBVIOUS
  <2>1. CASE i = 1
    BY <1>1, <1>4, <2>1
  <2>2. CASE i = 2
    BY <1>1, <1>4, <2>2
  <2>3. CASE i > 2
    <3> DEFINE j == i - 2
    <3>1. j \in 1..Len(t) /\ j + 2 = i /\ r.timing + j = h + i - 1
      <4> HIDE DEF L, m, e, l, h, n
      <4>1. i \in 1..n /\ i > 2
        BY <2>3
      <4>2. j \in 1..l /\ j + 2 = i /\ m + j = h + i - 1
        BY <1>a, <1>b, <4>1
      <4> QED
        BY <4>2 DEF l, m
    <3> HIDE DEF j
    <3>2. b[j + 2] = lines[r.timing + j] /\ r.timing + j \in 1..Len(lines)
      BY <1>3, <1>4, <3>1
    <3> QED
      BY <3>1, <3>2
  <2> QED
    BY <1>5, <2>1, <2>2, <2>3
<1>7. /\ SubSeq(lines, h, h + n - 1) \in Seq(Lines) /\ Len(SubSeq(lines, h, h + n - 1)) = n
      /\ \A i \in 1..n : SubSeq(lines, h, h + n - 1)[i] = lines[h + i - 1]
  <2>1. h + n <= Len(lines) + 1
    BY <1>1, <1>5
  <2> HIDE DEF h, n, L, m, e, l
  <2>2. lines \in Seq(Lines) /\ h \in Nat \ {0} /\ n \in Nat
    BY <1>5
  <2> QED
    BY <2>1, <2>2, LinesAt
<1>8. SubSeq(lines, h, h + n - 1) = b
  <2> DEFINE s == SubSeq(lines, h, h + n - 1)
  <2>1. s \in Seq(Lines) /\ Len(s) = Len(b) /\ \A i \in 1..Len(s) : s[i] = b[i]
    BY <1>4, <1>6, <1>7
  <2> HIDE DEF s
  <2>2. s = b
    BY <1>4, <2>1, SameSeq
  <2> QED
    BY <2>2 DEF s
<1>9. ASSUME NEW i \in 1..Len(lines), h <= i, i < r.stop PROVE ~Empty(lines[i])
  <2>1. CASE i = h
    BY <1>1, <2>1 DEF Numbered, Empty
  <2>2. CASE i = h + 1
    BY <1>1, <2>2 DEF Empty
  <2>3. CASE i > h + 1
    <3> DEFINE j == i - (h + 1)
    <3>1. j \in 1..Len(t) /\ r.timing + j = i
      <4>1. i \in 1..L /\ i < e /\ i > h + 1
        BY <1>9, <2>3
      <4> HIDE DEF L, m, e, l, h, n
      <4>2. j \in 1..l /\ m + j = i
        BY <1>a, <4>1
      <4> QED
        BY <4>2 DEF l, m
    <3> HIDE DEF j
    <3>2. ~Empty(t[j])
      <4>1. Wordy(t)
        BY CleanedAlone DEF t
      <4> QED
        BY <3>1, <4>1 DEF Wordy
    <3> QED
      BY <1>3, <3>1, <3>2
  <2> QED
    BY <1>1, <1>9, <2>1, <2>2, <2>3
<1>10. SubSeq(lines, h, r.stop - 1) = b
  BY <1>5, <1>8
<1> QED
  BY <1>9, <1>10 DEF b, c

(* So a file whose records need no repair is the blocks of its records.      *)
LEMMA FramedBlocks ==
    ASSUME lines \in Seq(Lines), Framing, at = Len(lines) + 1,
           \A k \in 1..Len(records) : Clean(records[k]) /\ records[k].label = <<k, 0>>
    PROVE  Blocks(lines) = [k \in 1..Len(records) |-> Block(k, CueOf(records[k]))]
<1> DEFINE N == Len(records)
           f == [k \in 1..N |-> records[k].header]
           g == [k \in 1..N |-> records[k].stop]
<1>1. /\ N \in Nat /\ Len(lines) \in Nat
      /\ \A k \in 1..N : records[k] \in RecordSet /\ Shaped(records[k]) /\ k \in Nat
      /\ \A j, k \in 1..N : j < k => records[j].stop <= records[k].header
      /\ PassedFramed
  <2>1. records \in Seq(RecordSet) /\ PassedFramed
    BY DEF Framing
  <2>2. /\ \A k \in 1..Len(records) : Shaped(records[k])
        /\ \A j, k \in 1..Len(records) : j < k => records[j].stop <= records[k].header
    BY Zenon DEF Framing
  <2>3. N \in Nat /\ Len(lines) \in Nat /\ \A k \in 1..N : records[k] \in RecordSet /\ k \in Nat
    BY <2>1
  <2> QED
    BY <2>1, <2>2, <2>3, Zenon
<1>2. ASSUME NEW k \in 1..N
      PROVE  /\ SubSeq(lines, records[k].header, records[k].stop - 1) = Block(k, CueOf(records[k]))
             /\ \A i \in 1..Len(lines) : records[k].header <= i /\ i < records[k].stop => ~Empty(lines[i])
  <2> DEFINE r == records[k]
  <2>1. r \in RecordSet /\ Shaped(r) /\ Clean(r) /\ r.label = <<k, 0>> /\ k \in Nat
    BY <1>1
  <2> HIDE DEF r
  <2>2. /\ SubSeq(lines, r.header, r.stop - 1) = Block(k, CueOf(r))
        /\ \A i \in 1..Len(lines) : r.header <= i /\ i < r.stop => ~Empty(lines[i])
    BY <2>1, RecordBlock
  <2> QED
    BY <2>2 DEF r
<1>3. ASSUME NEW k \in 1..N
      PROVE  /\ f[k] = records[k].header /\ g[k] = records[k].stop
             /\ f[k] \in 1..Len(lines) /\ g[k] \in 1..(Len(lines) + 1) /\ f[k] < g[k]
             /\ Separated(f[k])
  <2>1. f[k] = records[k].header /\ g[k] = records[k].stop
    OBVIOUS
  <2>2. /\ records[k].header \in 1..Len(lines) /\ records[k].timing \in 1..Len(lines)
        /\ records[k].stop \in 1..(Len(lines) + 1)
        /\ records[k].header <= records[k].timing /\ records[k].timing < records[k].stop
        /\ records[k].separated = Separated(records[k].header) /\ records[k].separated
    BY <1>1 DEF Shaped, Clean
  <2> QED
    BY <1>1, <2>1, <2>2
<1>4. f \in [1..N -> 1..Len(lines)] /\ g \in [1..N -> 1..(Len(lines) + 1)]
  BY <1>3
<1> HIDE DEF f, g
<1>5. ASSUME NEW k \in 1..N, g[k] <= Len(lines) PROVE Empty(lines[g[k]])
  <2> SUFFICES ASSUME ~Empty(lines[g[k]]) PROVE FALSE
    OBVIOUS
  <2>1. g[k] \in 1..Len(lines) /\ g[k] < at
    BY <1>1, <1>3, <1>5
  <2>2. PICK j \in 1..N : f[j] <= g[k] /\ g[k] < g[j]
    BY <1>1, <1>3, <2>1 DEF PassedFramed
  <2>3. k < j
    <3>1. ~(j < k)
      <4> SUFFICES ASSUME j < k PROVE FALSE
        OBVIOUS
      <4>1. g[j] <= f[k]
        BY <1>1, <1>3
      <4>2. f[k] < g[k] /\ f[k] \in Nat /\ g[k] \in Nat /\ g[j] \in Nat
        BY <1>1, <1>3
      <4> QED
        BY <2>2, <4>1, <4>2
    <3>2. j # k
      <4>1. g[k] \in Nat
        BY <2>1
      <4> QED
        BY <2>2, <4>1
    <3> QED
      BY <1>1, <3>1, <3>2
  <2>4. f[j] = g[k]
    <3>1. g[k] <= f[j]
      BY <1>1, <1>3, <2>3
    <3>2. f[j] \in Nat /\ g[k] \in Nat
      BY <1>3, <2>1
    <3> QED
      BY <2>2, <3>1, <3>2
  <2>5. g[k] # 1 /\ g[k] - 1 \in 1..Len(lines) /\ f[k] <= g[k] - 1 /\ g[k] - 1 < g[k]
    BY <1>1, <1>3, <2>1
  <2>6. Empty(lines[g[k] - 1])
    BY <1>3, <2>4, <2>5 DEF Separated
  <2>7. ~Empty(lines[g[k] - 1])
    BY <1>2, <1>3, <2>5
  <2> QED
    BY <2>6, <2>7
<1>6. Spelt(lines, f, g, N)
  <2>1. \A k \in 1..N : /\ f[k] < g[k]
                        /\ \A i \in 1..Len(lines) : f[k] <= i /\ i < g[k] => ~Empty(lines[i])
                        /\ f[k] = 1 \/ Empty(lines[f[k] - 1])
                        /\ g[k] <= Len(lines) => Empty(lines[g[k]])
    BY <1>2, <1>3, <1>5 DEF Separated
  <2>2. ASSUME NEW j \in 1..N, NEW k \in 1..N, j < k PROVE f[j] < f[k]
    <3>1. g[j] <= f[k] /\ f[j] < g[j] /\ f[j] \in Nat /\ f[k] \in Nat /\ g[j] \in Nat
      BY <1>1, <1>3, <2>2
    <3> QED
      BY <3>1
  <2>3. ASSUME NEW i \in 1..Len(lines), ~Empty(lines[i]) PROVE \E k \in 1..N : f[k] <= i /\ i < g[k]
    <3>1. i < at
      BY <1>1
    <3>2. PICK k \in 1..N : records[k].header <= i /\ i < records[k].stop
      BY <1>1, <2>3, <3>1 DEF PassedFramed
    <3> QED
      BY <1>3, <3>2
  <2> QED
    BY <2>1, <2>2, <2>3 DEF Spelt
<1>7. Blocks(lines) = Slices(lines, f, g, N)
  <2> HIDE DEF N
  <2> QED
    BY <1>1, <1>4, <1>6, BlocksAre
<1>8. Slices(lines, f, g, N) = [k \in 1..N |-> Block(k, CueOf(records[k]))]
  <2>1. \A k \in 1..N : SubSeq(lines, f[k], g[k] - 1) = Block(k, CueOf(records[k]))
    BY <1>2, <1>3
  <2> QED
    BY <2>1 DEF Slices
<1> QED
  BY <1>7, <1>8

-----------------------------------------------------------------------------
(* What holds in each of the phases.                                         *)
Retaining ==
    /\ records \in Seq(RecordSet)
    /\ \A k \in 1..Len(records) :
          /\ 1 <= records[k].header /\ records[k].header <= records[k].timing
          /\ records[k].timing < records[k].stop /\ records[k].stop <= at
          /\ records[k].label = <<>> <=> records[k].header = records[k].timing
Tidy ==
    /\ \A k \in 1..Len(records) : Wordy(records[k].text)
    /\ policies = {} => Blocks(lines) = [k \in 1..Len(records) |-> Block(k, CueOf(records[k]))]
Writable ==
    /\ retained \in Seq(CueSet) /\ retained # <<>> /\ AllSound(retained)
    /\ policies = {} => Blocks(lines) = Blocks(Written(retained))
ReadBack ==
    /\ transcript = Sorted(retained)
    /\ policies = {} => Chronological(retained)
TrInv ==
    /\ FrameInv /\ Retaining
    /\ work \in {"frame", "prepare", "retain", "order", "accepted", "refused"}
    /\ (work = "refused") = (cause # "")
    /\ cause \notin {"Derivative", "RoundTrip"}
    /\ work = "retain" => Tidy
    /\ work \in {"order", "accepted"} => Writable
    /\ work = "accepted" => ReadBack

LEMMA TrStart == TranscriptsInit => TrInv
<1> SUFFICES ASSUME TranscriptsInit PROVE TrInv
  OBVIOUS
<1>1. lines \in Seq(Lines)
  <2>1. PICK a \in Pieces[1], b \in Pieces[2], c \in Pieces[3] : lines = a \o b \o c
    BY Zenon DEF TranscriptsInit
  <2>2. Pieces[1] \subseteq Seq(Lines) /\ Pieces[2] \subseteq Seq(Lines) /\ Pieces[3] \subseteq Seq(Lines)
    BY TranscriptsAssumption
  <2>3. a \in Seq(Lines) /\ b \in Seq(Lines) /\ c \in Seq(Lines)
    BY <2>2
  <2>4. a \o b \o c \in Seq(Lines)
    BY <2>3
  <2> QED
    BY <2>1, <2>4
<1>2. work = "frame" /\ cause = "" /\ at = 1 /\ records = <<>>
  BY DEF TranscriptsInit
<1>3. records \in Seq(RecordSet) /\ Len(records) = 0
  <2>1. \A S : <<>> \in Seq(S) /\ Len(<<>>) = 0
    OBVIOUS
  <2> QED
    BY <1>2, <2>1, Zenon
<1>4. at \in 1..(Len(lines) + 1) /\ \A i \in 1..Len(lines) : ~(i < at)
  <2>1. Len(lines) \in Nat
    BY <1>1
  <2>2. \A i \in 1..Len(lines) : ~(i < 1)
    BY <2>1
  <2>3. 1 \in 1..(Len(lines) + 1)
    BY <2>1
  <2> QED
    BY <1>2, <2>2, <2>3, Zenon
<1>5. \A k : k \notin 1..Len(records)
  BY <1>3
<1>6. FrameInv /\ Retaining
  BY <1>1, <1>2, <1>3, <1>4, <1>5 DEF FrameInv, Framing, PassedFramed, Retaining
<1> QED
  BY <1>2, <1>6 DEF TrInv

LEMMA RefusalKeeps ==
    ASSUME TrInv, NEW why, Refusal(why), why \notin {"", "Derivative", "RoundTrip"}
    PROVE  TrInv'
<1>1. work' = "refused" /\ cause' = why /\ UNCHANGED <<lines, at, records>>
  BY DEF Refusal
<1>2. FrameInv'
  BY <1>1 DEF TrInv, FrameInv
<1>3. Retaining'
  BY <1>1 DEF TrInv, Retaining
<1> QED
  BY <1>1, <1>2, <1>3 DEF TrInv

LEMMA FramingStays ==
    ASSUME Framing, UNCHANGED <<lines, records>>, at \in Nat, at' \in Nat, at <= at', PassedFramed',
           lines \in Seq(Lines)
    PROVE  Framing'
<1>1. \A k \in 1..Len(records) : Shaped(records[k]) /\ records[k].stop <= at /\ records[k].stop \in Nat
  BY ShapedStops DEF Framing
<1>2. \A k \in 1..Len(records') : (Shaped(records[k]))'
  BY <1>1 DEF Shaped, LabelAt, Separated, TimedAt
<1>3. \A k \in 1..Len(records') : records'[k].stop <= at'
  BY <1>1
<1> QED
  BY <1>2, <1>3 DEF Framing

LEMMA SkipBlankKeeps == TrInv /\ SkipBlank => TrInv'
<1> SUFFICES ASSUME TrInv, SkipBlank PROVE TrInv'
  OBVIOUS
<1>1. /\ work = "frame" /\ at <= Len(lines) /\ Empty(lines[at]) /\ at' = at + 1
      /\ UNCHANGED <<lines, work, cause, previous, records, retained, policies, transcript>>
  BY DEF SkipBlank
<1>2. Framing /\ lines \in Seq(Lines) /\ at \in 1..(Len(lines) + 1) /\ Len(lines) \in Nat
  BY <1>1, LineFacts DEF TrInv, FrameInv
<1>3. PassedFramed'
  <2> SUFFICES ASSUME NEW i \in 1..Len(lines), i < at + 1, ~Empty(lines[i])
               PROVE  \E k \in 1..Len(records) : records[k].header <= i /\ i < records[k].stop
    BY <1>1 DEF PassedFramed
  <2>1. i < at
    BY <1>1, <1>2
  <2> QED
    BY <1>2, <2>1 DEF Framing, PassedFramed
<1>4. Framing'
  <2>1. at \in Nat /\ at' \in Nat /\ at <= at'
    BY <1>1, <1>2
  <2> QED
    BY <1>1, <1>2, <1>3, <2>1, FramingStays
<1>5. FrameInv'
  BY <1>1, <1>2, <1>4 DEF FrameInv
<1>6. Retaining'
  <2>1. \A k \in 1..Len(records) : records[k].stop <= at + 1
    <3>1. \A k \in 1..Len(records) : records[k].stop <= at /\ records[k].stop \in Nat
      BY <1>2, ShapedStops DEF Framing
    <3> QED
      BY <1>2, <3>1
  <2> QED
    BY <1>1, <2>1 DEF TrInv, Retaining
<1> QED
  BY <1>1, <1>5, <1>6 DEF TrInv

LEMMA FrameRecordKeeps == TrInv /\ FrameRecord => TrInv'
<1> SUFFICES ASSUME TrInv, FrameRecord PROVE TrInv'
  OBVIOUS
<1>1. CASE work' = "refused"
  <2>1. work = "frame" /\ work' # work
    BY <1>1 DEF FrameRecord
  <2>2. \E why \in {"InvalidIndex", "InvalidTimestamp", "Ambiguous"} : Refusal(why)
    BY <2>1, Zenon DEF FrameRecord
  <2>3. PICK why \in {"InvalidIndex", "InvalidTimestamp", "Ambiguous"} : Refusal(why)
    BY <2>2
  <2> QED
    BY <2>3, RefusalKeeps
<1>2. CASE ~(work' = "refused")
  <2>1. FrameInv'
    BY <1>2, RecordFramed DEF TrInv
  <2>2. work = "frame" /\ work' = "frame" /\ cause' = cause
    BY <1>2, Zenon DEF FrameRecord, Refusal
  <2>3. Framing' /\ (lines \in Seq(Lines))' /\ (at \in 1..(Len(lines) + 1))'
    BY <2>1, <2>2 DEF FrameInv
  <2>4. Retaining'
    BY <2>3, SMTT(30) DEF Framing, Shaped, Retaining
  <2> QED
    BY <2>1, <2>2, <2>4 DEF TrInv
<1> QED
  BY <1>1, <1>2

LEMMA FramedKeeps == TrInv /\ Framed => TrInv'
<1> SUFFICES ASSUME TrInv, Framed PROVE TrInv'
  OBVIOUS
<1>1. /\ work = "frame" /\ at > Len(lines) /\ work' = "prepare"
      /\ UNCHANGED <<lines, cause, at, previous, records, retained, policies, transcript>>
  BY DEF Framed
<1>2. Framing /\ lines \in Seq(Lines) /\ at \in 1..(Len(lines) + 1) /\ Len(lines) \in Nat
  BY <1>1, LineFacts DEF TrInv, FrameInv
<1>3. Framing'
  <2>1. PassedFramed'
    BY <1>1, <1>2 DEF Framing, PassedFramed
  <2> QED
    BY <1>1, <1>2, <2>1, FramingStays
<1>4. at = Len(lines) + 1
  BY <1>1, <1>2
<1>5. FrameInv'
  BY <1>1, <1>2, <1>3, <1>4 DEF FrameInv
<1>6. Retaining'
  BY <1>1 DEF TrInv, Retaining
<1> QED
  BY <1>1, <1>5, <1>6 DEF TrInv

LEMMA PrepareKeeps == TrInv /\ PrepareRecords => TrInv'
<1> SUFFICES ASSUME TrInv, PrepareRecords PROVE TrInv'
  OBVIOUS
<1> DEFINE N == Len(records)
           c == [i \in DOMAIN records |-> Cleaned(records[i])]
           K == {i \in DOMAIN records : Words(records[i]) # <<>>}
<1>1. CASE Refusal("InvalidText")
  BY <1>1, RefusalKeeps
<1>2. CASE ~Refusal("InvalidText")
  <2>1. /\ work = "prepare" /\ work' = "retain" /\ policies' = Repairs /\ records' = Those(c, K)
        /\ UNCHANGED <<lines, cause, at, previous, retained, transcript>>
    BY <1>2, Zenon DEF PrepareRecords
  <2>2. Framing /\ lines \in Seq(Lines) /\ at = Len(lines) + 1 /\ at \in 1..(Len(lines) + 1) /\ Retaining
    BY <2>1 DEF TrInv, FrameInv
  <2>3. /\ N \in Nat /\ DOMAIN records = 1..N /\ records \in Seq(RecordSet)
        /\ \A k \in 1..N : records[k] \in RecordSet /\ Shaped(records[k])
    BY <2>2 DEF Framing
  <2>4. ASSUME NEW k \in 1..N
        PROVE  /\ Plain(records[k].text) /\ Cleaned(records[k]) \in RecordSet
               /\ Cleaned(records[k]) = [records[k] EXCEPT !.text = Tidied(Words(records[k]))]
               /\ Words(records[k]) # <<>> => Wordy(Cleaned(records[k]).text)
               /\ Len(Words(records[k])) <= Len(records[k].text)
               /\ Words(records[k]) \in Seq(Lines) /\ records[k].text \in Seq(Lines)
               /\ Len(Words(records[k])) = Len(records[k].text) => Words(records[k]) = records[k].text
    <3> DEFINE r == records[k]
    <3>1. r \in RecordSet /\ Shaped(r)
      BY <2>3
    <3> HIDE DEF r
    <3>2. Plain(r.text) /\ r.text \in Seq(Lines)
      BY <2>2, <3>1, TextOf
    <3>3. /\ Words(r) \in Seq(Lines) /\ Len(Words(r)) <= Len(r.text)
          /\ Cleaned(r) \in RecordSet /\ Cleaned(r) = [r EXCEPT !.text = Tidied(Words(r))]
          /\ Words(r) # <<>> => Wordy(Cleaned(r).text)
          /\ Len(Words(r)) = Len(r.text) => Words(r) = r.text
      BY <3>1, <3>2, WordsAre
    <3> QED
      BY <3>2, <3>3 DEF r
  <2>5. c \in Seq(RecordSet) /\ Len(c) = N /\ \A k \in 1..N : c[k] = Cleaned(records[k])
    <3> HIDE DEF Cleaned
    <3> QED
      BY <2>3, <2>4
  <2>6. K \subseteq 1..N
    BY <2>3
  <2> DEFINE s == Those(c, K)
  <2>7. s \in Seq(RecordSet) /\ Gathered(c, K, s)
    <3>1. c \in Seq(RecordSet) /\ K \subseteq 1..Len(c) /\ s = Those(c, K)
      BY <2>5, <2>6
    <3> HIDE DEF c, K, s
    <3> QED
      BY <3>1, ThoseAre
  <2>8. ASSUME NEW m \in 1..Len(s)
        PROVE  \E k \in 1..N : s[m] = Cleaned(records[k]) /\ Words(records[k]) # <<>>
    <3> DEFINE k == Ascending(K)[m]
    <3>1. s[m] = c[k] /\ k \in K
      <4> HIDE DEF s, K, c
      <4> QED
        BY <2>7 DEF Gathered
    <3> HIDE DEF k
    <3>2. k \in 1..N /\ Words(records[k]) # <<>>
      BY <2>3, <3>1
    <3> HIDE DEF c, s
    <3> QED
      BY <2>5, <3>1, <3>2
  <2> HIDE DEF s, c
  <2>9. ASSUME NEW m \in 1..Len(s)
        PROVE  /\ 1 <= s[m].header /\ s[m].header <= s[m].timing
               /\ s[m].timing < s[m].stop /\ s[m].stop <= at
               /\ s[m].label = <<>> <=> s[m].header = s[m].timing
               /\ Wordy(s[m].text)
    <3>1. PICK k \in 1..N : s[m] = Cleaned(records[k]) /\ Words(records[k]) # <<>>
      BY <2>8
    <3>2. /\ s[m].header = records[k].header /\ s[m].timing = records[k].timing
          /\ s[m].stop = records[k].stop /\ s[m].label = records[k].label
      <4>1. records[k] \in RecordSet /\ Cleaned(records[k]) = [records[k] EXCEPT !.text = Tidied(Words(records[k]))]
        BY <2>3, <2>4
      <4> DEFINE r == records[k]
                 t == Tidied(Words(r))
      <4>2. r \in RecordSet /\ s[m] = [r EXCEPT !.text = t]
        BY <3>1, <4>1
      <4> HIDE DEF r, t
      <4>3. s[m].header = r.header /\ s[m].timing = r.timing /\ s[m].stop = r.stop /\ s[m].label = r.label
        BY <4>2 DEF RecordSet
      <4> QED
        BY <4>3 DEF r
    <3>3. Wordy(s[m].text)
      BY <2>4, <3>1
    <3> QED
      BY <2>2, <3>2, <3>3 DEF Retaining
  <2>10. records' = s /\ at' = at /\ lines' = lines
    BY <2>1 DEF s, c
  <2>11. Retaining'
    BY <2>7, <2>9, <2>10 DEF Retaining
  <2>12. ASSUME policies' = {}
         PROVE  Blocks(lines') = [k \in 1..Len(records') |-> (Block(k, CueOf(records[k])))']
    <3>1. Repairs = {}
      BY <2>1, <2>12
    <3>2. /\ FramingRepairs = {}
          /\ \A k \in 1..N : /\ ~Marked(records[k]) /\ ~Paragraphed(records[k])
                             /\ records[k].text # <<>>
      BY <2>3, <3>1 DEF Repairs
    <3>3. Conventional /\ \A k \in 1..N : records[k].label[1] = k
      BY <2>3, <3>2 DEF FramingRepairs
    <3>4. ASSUME NEW k \in 1..N PROVE Clean(records[k]) /\ records[k].label = <<k, 0>>
      <4>1. /\ records[k].label # <<>> /\ records[k].label[2] = 0 /\ records[k].label[1] = k
            /\ records[k].separated /\ lines[records[k].timing].kind = "time"
        BY <2>3, <3>3 DEF Conventional, IntegerLabel
      <4>2. records[k].label \in {<<>>} \union (Nat \X Nat)
        BY <2>3 DEF RecordSet
      <4>3. records[k].label = <<k, 0>>
        BY <4>1, <4>2
      <4>4. Words(records[k]) = records[k].text
        <5> DEFINE a == Len(Words(records[k]))
                   b == Len(records[k].text)
        <5>1. a \in Nat /\ b \in Nat /\ a <= b /\ ~(a < b)
          <6>1. \A x \in Seq(Lines) : Len(x) \in Nat
            OBVIOUS
          <6>2. a \in Nat /\ b \in Nat
            BY <2>4, <6>1
          <6> QED
            BY <2>4, <3>2, <6>2 DEF Paragraphed
        <5> HIDE DEF a, b
        <5>2. a = b
          BY <5>1
        <5> QED
          BY <2>4, <5>2 DEF a, b
      <4> QED
        BY <2>4, <3>2, <4>1, <4>3, <4>4 DEF Clean
    <3>5. Blocks(lines) = [k \in 1..N |-> Block(k, CueOf(records[k]))]
      BY <2>2, <3>4, FramedBlocks
    <3>6. ASSUME NEW k \in 1..N PROVE Cleaned(records[k]) = records[k] /\ Words(records[k]) # <<>>
      <4> DEFINE r == records[k]
      <4>1. r \in RecordSet /\ Clean(r)
        BY <2>3, <3>4
      <4> HIDE DEF r
      <4>2. Cleaned(r) = r /\ Words(r) # <<>>
        BY <4>1, CleanedAlone
      <4> QED
        BY <4>2 DEF r
    <3>7. s = records
      <4>1. c = records
        <5>1. \A k \in 1..Len(c) : c[k] = records[k]
          BY <2>5, <3>6
        <5> QED
          BY <2>3, <2>5, <5>1, SameSeq
      <4>2. K = 1..N
        BY <2>3, <3>6
      <4> QED
        BY <2>3, <4>1, <4>2, ThoseAll DEF s
    <3>8. records' = records
      BY <2>10, <3>7
    <3> QED
      BY <2>10, <3>5, <3>8 DEF CueOf, From, To, Block
  <2>13. Tidy'
    <3>1. \A k \in 1..Len(records') : Wordy(records'[k].text)
      BY <2>9, <2>10
    <3> QED
      BY <2>12, <3>1 DEF Tidy
  <2>14. FrameInv'
    BY <2>1, <2>2 DEF FrameInv
  <2> QED
    BY <2>1, <2>11, <2>13, <2>14 DEF TrInv
<1> QED
  BY <1>1, <1>2

LEMMA RetainKeeps == TrInv /\ Retain => TrInv'
<1> SUFFICES ASSUME TrInv, Retain PROVE TrInv'
  OBVIOUS
<1> DEFINE N == Len(records)
           K == {i \in DOMAIN records : Kept(records[i])}
           kept == Those(records, K)
<1>1. CASE Refusal("NothingRemains")
  BY <1>1, RefusalKeeps
<1>2. CASE ~Refusal("NothingRemains")
  <2>1. /\ work = "retain" /\ work' = "order" /\ kept # <<>>
        /\ retained' = [i \in DOMAIN kept |->
               [start |-> From(kept[i]), end |-> To(kept[i]), text |-> kept[i].text]]
        /\ policies' = policies \cup {p \in {"zero duration"} : Len(kept) < Len(records)}
        /\ UNCHANGED <<lines, cause, at, previous, records, transcript>>
    BY <1>2, Zenon DEF Retain
  <2>2. Retaining /\ Tidy /\ FrameInv
    BY <2>1 DEF TrInv
  <2>3. /\ N \in Nat /\ DOMAIN records = 1..N /\ records \in Seq(RecordSet)
        /\ lines \in Seq(Lines) /\ Len(lines) \in Nat /\ at \in 1..(Len(lines) + 1)
        /\ \A i \in 1..Len(lines) : lines[i] \in Lines
    BY <2>2, LineFacts DEF Retaining, FrameInv
  <2>4. ASSUME NEW k \in 1..N
        PROVE  CueOf(records[k]) \in CueSet /\ (Kept(records[k]) => Sound(CueOf(records[k])))
    <3>1. records[k] \in RecordSet /\ records[k].timing \in 1..Len(lines)
      <4>1. records[k] \in RecordSet /\ records[k].header \in Nat /\ records[k].timing \in Nat /\ records[k].stop \in Nat
        <5>1. records[k] \in RecordSet
          BY <2>3
        <5> QED
          BY <5>1 DEF RecordSet
      <4>2. 1 <= records[k].header /\ records[k].header <= records[k].timing
            /\ records[k].timing < records[k].stop /\ records[k].stop <= at
        BY <2>2 DEF Retaining
      <4> QED
        BY <2>3, <4>1, <4>2
    <3>2. lines[records[k].timing].a \in Nat /\ lines[records[k].timing].b \in Nat
      BY <2>3, <3>1 DEF Lines
    <3>3. records[k].text \in Seq(Lines) /\ Wordy(records[k].text)
      BY <2>2, <3>1 DEF Tidy, RecordSet
    <3>4. From(records[k]) \in Nat /\ To(records[k]) \in Nat
      BY <3>2 DEF From, To
    <3>5. CueOf(records[k]) \in CueSet
      BY <3>3, <3>4 DEF CueOf, CueSet
    <3>6. ASSUME Kept(records[k]) PROVE Sound(CueOf(records[k]))
      BY <3>3, <3>4, <3>5, <3>6 DEF Kept, Sound, CueOf
    <3> QED
      BY <3>5, <3>6
  <2>5. K \subseteq 1..N
    BY <2>3
  <2>6. kept \in Seq(RecordSet) /\ Gathered(records, K, kept)
    <3>1. K \subseteq 1..Len(records) /\ kept = Those(records, K)
      BY <2>5
    <3> HIDE DEF K, kept
    <3> QED
      BY <2>3, <3>1, ThoseAre
  <2>7. ASSUME NEW m \in 1..Len(kept)
        PROVE  CueOf(kept[m]) \in CueSet /\ Sound(CueOf(kept[m]))
    <3> DEFINE k == Ascending(K)[m]
    <3>1. kept[m] = records[k] /\ k \in K
      <4> HIDE DEF K, kept
      <4> QED
        BY <2>6 DEF Gathered
    <3> HIDE DEF k
    <3>2. k \in 1..N /\ Kept(records[k])
      BY <2>3, <3>1
    <3> HIDE DEF kept
    <3> QED
      BY <2>4, <3>1, <3>2
  <2>8. /\ retained' \in Seq(CueSet) /\ Len(retained') = Len(kept) /\ Len(kept) \in Nat
        /\ \A m \in 1..Len(kept) : retained'[m] = CueOf(kept[m])
    <3> HIDE DEF kept
    <3>1. DOMAIN kept = 1..Len(kept) /\ Len(kept) \in Nat
      BY <2>6
    <3>2. retained' = [m \in 1..Len(kept) |-> CueOf(kept[m])]
      BY <2>1, <3>1 DEF CueOf
    <3> HIDE DEF CueOf
    <3> QED
      BY <2>7, <3>1, <3>2
  <2>9. retained' # <<>>
    <3> HIDE DEF kept
    <3>0. kept # <<>>
      BY <2>1
    <3>1. Len(kept) # 0
      BY <2>6, <3>0
    <3>2. Len(retained') # 0
      BY <2>8, <3>1
    <3> QED
      BY <3>2
  <2>10. AllSound(retained')
    <3> HIDE DEF kept
    <3> QED
      BY <2>7, <2>8 DEF AllSound
  <2>11. ASSUME policies' = {} PROVE Blocks(lines) = Blocks(Written(retained'))
    <3>1. policies = {} /\ ~(Len(kept) < Len(records))
      BY <2>1, <2>11
    <3>2. Cardinality(K) = N
      <4>1. Len(kept) = Cardinality(K) /\ Cardinality(K) \in Nat
        <5> HIDE DEF K, kept
        <5> QED
          BY <2>6 DEF Gathered
      <4>2. Cardinality(K) <= N
        <5>1. IsFiniteSet(1..N) /\ Cardinality(1..N) = N
          BY <2>3, CountTo
        <5> HIDE DEF K
        <5> QED
          BY <2>5, <5>1, FS_Subset
      <4>3. ~(Cardinality(K) < N)
        BY <3>1, <4>1
      <4> HIDE DEF K, N
      <4> QED
        BY <2>3, <4>1, <4>2, <4>3
    <3>3. kept = records
      <4>1. K \subseteq 1..Len(records) /\ Cardinality(K) = Len(records)
        BY <2>5, <3>2
      <4> HIDE DEF K
      <4> QED
        BY <2>3, <4>1, ThoseEvery
    <3>4. Len(retained') = N /\ \A m \in 1..N : retained'[m] = CueOf(records[m])
      BY <2>8, <3>3
    <3>5. Blocks(Written(retained')) = [n \in 1..N |-> Block(n, retained'[n])]
      <4> DEFINE r == retained'
      <4>1. r \in Seq(CueSet) /\ Len(r) = N /\ \A n \in 1..Len(r) : Wordy(r[n].text)
        BY <2>8, <2>10, <3>4 DEF AllSound, Sound
      <4> HIDE DEF r
      <4>2. Blocks(Written(r)) = [n \in 1..Len(r) |-> Block(n, r[n])]
        BY <4>1, WrittenBlocks
      <4> QED
        BY <4>1, <4>2 DEF r
    <3>6. Blocks(lines) = [k \in 1..N |-> Block(k, CueOf(records[k]))]
      BY <2>2, <3>1 DEF Tidy
    <3> HIDE DEF Block, CueOf, N
    <3> QED
      BY <3>4, <3>5, <3>6
  <2>12. Writable'
    <3>1. lines' = lines
      BY <2>1
    <3>2. policies' = {} => Blocks(lines') = Blocks(Written(retained'))
      BY <2>11, <3>1
    <3> QED
      BY <2>8, <2>9, <2>10, <3>2 DEF Writable, AllSound
  <2>13. FrameInv' /\ Retaining'
    BY <2>1, <2>2 DEF FrameInv, Retaining
  <2> QED
    BY <2>1, <2>12, <2>13 DEF TrInv
<1> QED
  BY <1>1, <1>2

LEMMA OrderKeeps == TrInv /\ Order => TrInv'
<1> SUFFICES ASSUME TrInv, Order PROVE TrInv'
  OBVIOUS
<1>1. work = "order" /\ Writable /\ FrameInv /\ Retaining
  BY DEF TrInv, Order
<1>2. /\ work' = "accepted" /\ transcript' = Sorted(retained)
      /\ policies' = policies \cup {p \in {"ordering"} : ~Chronological(retained)}
      /\ UNCHANGED <<lines, cause, at, previous, records, retained>>
  BY <1>1, OrderReadsBack DEF Writable
<1>3. policies' = {} => policies = {} /\ Chronological(retained)
  BY <1>2
<1>4. Writable'
  <2>1. policies' = {} => Blocks(lines') = Blocks(Written(retained'))
    BY <1>1, <1>2, <1>3 DEF Writable
  <2> QED
    BY <1>1, <1>2, <2>1 DEF Writable, AllSound
<1>5. ReadBack'
  BY <1>2, <1>3 DEF ReadBack, Chronological
<1>6. FrameInv' /\ Retaining'
  BY <1>1, <1>2 DEF FrameInv, Retaining
<1>7. cause = ""
  BY <1>1 DEF TrInv
<1> QED
  BY <1>2, <1>4, <1>5, <1>6, <1>7 DEF TrInv

LEMMA TrInvHolds == TranscriptsSpec => []TrInv
<1>1. TranscriptsInit => TrInv
  BY TrStart
<1>2. TrInv /\ [TranscriptsNext]_transcriptVars => TrInv'
  <2> SUFFICES ASSUME TrInv, [TranscriptsNext]_transcriptVars PROVE TrInv'
    OBVIOUS
  <2>1. CASE FileRefused
    BY <2>1, RefusalKeeps DEF FileRefused
  <2>2. CASE SkipBlank
    BY <2>2, SkipBlankKeeps
  <2>3. CASE FrameRecord
    BY <2>3, FrameRecordKeeps
  <2>4. CASE Framed
    BY <2>4, FramedKeeps
  <2>5. CASE PrepareRecords
    BY <2>5, PrepareKeeps
  <2>6. CASE Retain
    BY <2>6, RetainKeeps
  <2>7. CASE Order
    BY <2>7, OrderKeeps
  <2>8. CASE UNCHANGED transcriptVars
    <3>1. UNCHANGED <<lines, work, cause, at, previous, records, retained, policies, transcript>>
      BY <2>8 DEF transcriptVars
    <3>2. FrameInv'
      <4>1. ASSUME Framing PROVE Framing'
        <5>1. \A k \in 1..Len(records') : (Shaped(records[k]))'
          BY <3>1, <4>1 DEF Framing, Shaped, LabelAt, Separated, TimedAt
        <5>2. PassedFramed'
          BY <3>1, <4>1 DEF Framing, PassedFramed
        <5> QED
          BY <3>1, <4>1, <5>1, <5>2 DEF Framing
      <4> QED
        BY <3>1, <4>1 DEF TrInv, FrameInv
    <3>3. Retaining'
      BY <3>1 DEF TrInv, Retaining
    <3>4. work = "retain" => Tidy'
      BY <3>1 DEF TrInv, Tidy, CueOf, From, To, Block
    <3>5. work \in {"order", "accepted"} => Writable'
      BY <3>1 DEF TrInv, Writable, AllSound
    <3>6. work = "accepted" => ReadBack'
      BY <3>1 DEF TrInv, ReadBack, Chronological
    <3> QED
      BY <3>1, <3>2, <3>3, <3>4, <3>5, <3>6 DEF TrInv
  <2> QED
    BY <2>1, <2>2, <2>3, <2>4, <2>5, <2>6, <2>7, <2>8 DEF TranscriptsNext, TranscriptRead
<1> QED
  BY <1>1, <1>2, PTL DEF TranscriptsSpec

THEOREM TranscriptsTyped == TranscriptsSpec => []TranscriptsTypeOK
<1>1. TrInv => TranscriptsTypeOK
  <2> SUFFICES ASSUME TrInv PROVE TranscriptsTypeOK
    OBVIOUS
  <2>1. at \in 1..(Len(lines) + 1) /\ Retaining
    BY DEF TrInv, FrameInv
  <2> QED
    BY <2>1 DEF TrInv, Retaining, TranscriptsTypeOK
<1> QED
  BY <1>1, TrInvHolds, PTL

LEMMA AllFramed == TrInv => EveryLineFramed
<1> SUFFICES ASSUME TrInv, work = "prepare" PROVE EveryLineFramed
  BY DEF EveryLineFramed
<1> DEFINE N == Len(records)
<1>1. Framing /\ lines \in Seq(Lines) /\ at = Len(lines) + 1
  BY DEF TrInv, FrameInv
<1>2. /\ N \in Nat /\ DOMAIN records = 1..N /\ Len(lines) \in Nat /\ DOMAIN lines = 1..Len(lines)
      /\ \A k \in 1..N : records[k] \in RecordSet /\ Shaped(records[k])
      /\ \A i, j \in 1..N : i < j => records[i].stop <= records[j].header
      /\ PassedFramed
  BY <1>1, LineFacts DEF Framing
<1>3. \A k \in 1..N : /\ records[k].header \in 1..Len(lines) /\ records[k].timing \in 1..Len(lines)
                      /\ records[k].stop \in 1..(Len(lines) + 1)
                      /\ records[k].header <= records[k].timing /\ records[k].timing < records[k].stop
                      /\ Timed(lines[records[k].timing])
                      /\ \/ records[k].timing = records[k].header
                         \/ /\ records[k].timing = records[k].header + 1
                            /\ Numbered(lines[records[k].header])
                      /\ \A i \in 1..Len(lines) : records[k].timing < i /\ i < records[k].stop =>
                            ~Timed(lines[i]) /\ (Numbered(lines[i]) => ~TimedAt(i + 1))
  <2> SUFFICES ASSUME NEW k \in 1..N
               PROVE  /\ records[k].header \in 1..Len(lines) /\ records[k].timing \in 1..Len(lines)
                      /\ records[k].stop \in 1..(Len(lines) + 1)
                      /\ records[k].header <= records[k].timing /\ records[k].timing < records[k].stop
                      /\ Timed(lines[records[k].timing])
                      /\ \/ records[k].timing = records[k].header
                         \/ /\ records[k].timing = records[k].header + 1
                            /\ Numbered(lines[records[k].header])
                      /\ \A i \in 1..Len(lines) : records[k].timing < i /\ i < records[k].stop =>
                            ~Timed(lines[i]) /\ (Numbered(lines[i]) => ~TimedAt(i + 1))
    OBVIOUS
  <2> QED
    BY <1>2 DEF Shaped
<1>4. \A i \in 1..Len(lines) : ~Empty(lines[i]) =>
          \E k \in 1..N : records[k].header <= i /\ i < records[k].stop
  BY <1>1, <1>2 DEF PassedFramed
<1>5. ASSUME NEW i \in 1..Len(lines), NEW j \in 1..N, NEW k \in 1..N,
             records[j].header <= i, i < records[j].stop, records[k].header <= i, i < records[k].stop
      PROVE  j = k
  <2>1. ~(j < k) /\ ~(k < j)
    <3>1. /\ records[j].header \in Nat /\ records[k].header \in Nat
          /\ records[j].stop \in Nat /\ records[k].stop \in Nat /\ i \in Nat
      BY <1>2, <1>3
    <3>2. (j < k => records[j].stop <= records[k].header) /\ (k < j => records[k].stop <= records[j].header)
      BY <1>2
    <3> QED
      BY <1>5, <3>1, <3>2
  <2> QED
    BY <1>2, <2>1
<1>6. ASSUME NEW i \in DOMAIN lines, ~Empty(lines[i])
      PROVE  Cardinality({k \in DOMAIN records : i \in Span(records[k])}) = 1
  <2>1. PICK k \in 1..N : records[k].header <= i /\ i < records[k].stop
    BY <1>2, <1>4, <1>6
  <2>2. \A j \in 1..N : i \in Span(records[j]) <=> records[j].header <= i /\ i < records[j].stop
    <3> SUFFICES ASSUME NEW j \in 1..N
                 PROVE  i \in Span(records[j]) <=> records[j].header <= i /\ i < records[j].stop
      OBVIOUS
    <3>1. records[j].header \in Nat /\ records[j].stop \in Nat /\ i \in Nat
      BY <1>2, <1>3
    <3> QED
      BY <3>1 DEF Span
  <2>3. {j \in DOMAIN records : i \in Span(records[j])} = {k}
    <3>1. \A j \in 1..N : records[j].header <= i /\ i < records[j].stop => j = k
      BY <1>2, <1>5, <2>1
    <3> QED
      BY <1>2, <2>1, <2>2, <3>1
  <2> QED
    BY <2>3, FS_Singleton
<1>7. ASSUME NEW i \in DOMAIN lines, Timed(lines[i])
      PROVE  \E k \in 1..N : records[k].timing = i
  <2>1. PICK k \in 1..N : records[k].header <= i /\ i < records[k].stop
    BY <1>2, <1>4, <1>7 DEF Empty, Timed
  <2>2. ~(records[k].timing < i)
    BY <1>2, <1>3, <1>7, <2>1
  <2>3. records[k].timing = i
    <3>1. records[k].header \in Nat /\ records[k].timing \in Nat /\ i \in Nat
      BY <1>2, <1>3
    <3>2. records[k].timing = records[k].header \/ records[k].timing = records[k].header + 1
      BY <1>3
    <3>3. i = records[k].header => records[k].timing = i
      <4>1. ~(Numbered(lines[i]) /\ Timed(lines[i]))
        BY DEF Numbered, Timed
      <4> QED
        BY <1>3, <1>7, <4>1
    <3> QED
      BY <2>1, <2>2, <3>1, <3>2, <3>3
  <2> QED
    BY <2>3
<1>8. {records[k].timing : k \in DOMAIN records} = {i \in DOMAIN lines : Timed(lines[i])}
  <2>1. \A k \in 1..N : records[k].timing \in DOMAIN lines /\ Timed(lines[records[k].timing])
    BY <1>2, <1>3
  <2> QED
    BY <1>2, <1>7, <2>1
<1>9. ASSUME NEW i \in DOMAIN lines, Numbered(lines[i]), TimedAt(i + 1)
      PROVE  \E k \in DOMAIN records : records[k].header = i /\ records[k].timing = i + 1
  <2>1. PICK k \in 1..N : records[k].header <= i /\ i < records[k].stop
    BY <1>2, <1>4, <1>9 DEF Empty, Numbered
  <2>2. ~(records[k].timing < i) /\ i # records[k].timing
    <3>1. ~Timed(lines[i])
      BY <1>9 DEF Numbered, Timed
    <3> QED
      BY <1>2, <1>3, <1>9, <2>1, <3>1
  <2>3. records[k].header = i /\ records[k].timing = i + 1
    <3>1. records[k].header \in Nat /\ records[k].timing \in Nat /\ i \in Nat
      BY <1>2, <1>3
    <3>2. records[k].timing = records[k].header \/ records[k].timing = records[k].header + 1
      BY <1>3
    <3> QED
      BY <2>1, <2>2, <3>1, <3>2
  <2> QED
    BY <1>2, <2>3
<1> QED
  BY <1>6, <1>8, <1>9 DEF EveryLineFramed

THEOREM TranscriptsWhole == TranscriptsSpec => []TranscriptIsWhole
<1>1. TrInv => TranscriptIsWhole
  <2> SUFFICES ASSUME TrInv PROVE TranscriptIsWhole
    OBVIOUS
  <2>1. EveryLineFramed
    BY AllFramed
  <2>2. DerivativeReadsBack
    <3> SUFFICES ASSUME work = "accepted"
                 PROVE  /\ Len(transcript) = Len(retained)
                        /\ \A i, j \in DOMAIN transcript :
                              i < j => transcript[i].start <= transcript[j].start
                        /\ \A v \in {retained[i].start : i \in DOMAIN retained} :
                              Those(transcript, {i \in DOMAIN transcript : transcript[i].start = v})
                              = Those(retained, {i \in DOMAIN retained : retained[i].start = v})
      BY DEF TrInv, DerivativeReadsBack
    <3>1. transcript = Sorted(retained) /\ retained \in Seq(CueSet)
      BY DEF TrInv, ReadBack, Writable
    <3>2. /\ Sorted(retained) \in Seq(CueSet) /\ Len(Sorted(retained)) = Len(retained)
          /\ Chronological(Sorted(retained))
      BY <3>1, SortedIs
    <3>3. \A i, j \in DOMAIN transcript : i < j => transcript[i].start <= transcript[j].start
      <4>1. DOMAIN transcript = 1..Len(transcript) /\ Chronological(transcript)
        BY <3>1, <3>2
      <4> QED
        BY <4>1 DEF Chronological
    <3>4. ASSUME NEW v
          PROVE  Those(transcript, {i \in DOMAIN transcript : transcript[i].start = v})
                 = Those(retained, {i \in DOMAIN retained : retained[i].start = v})
      <4>1. Together(transcript, v) = Together(retained, v)
        BY <3>1, SortedStable
      <4> QED
        BY <4>1, Zenon DEF Together
    <3> QED
      BY <3>1, <3>2, <3>3, <3>4
  <2>3. NoSilentRepair
    <3> SUFFICES ASSUME work = "accepted", policies = {}
                 PROVE  StrictFault(Blocks(lines)) = "" /\ CuesOf(Blocks(lines)) = transcript
      BY DEF NoSilentRepair
    <3>1. /\ Writable /\ transcript = Sorted(retained) /\ Chronological(retained)
      BY DEF TrInv, ReadBack
    <3>2. /\ retained \in Seq(CueSet) /\ retained # <<>> /\ AllSound(retained)
          /\ Blocks(lines) = Blocks(Written(retained))
      BY <3>1 DEF Writable
    <3>3. StrictFault(Blocks(lines)) = "" /\ CuesOf(Blocks(lines)) = retained
      BY <3>1, <3>2, StrictIs
    <3>4. Sorted(retained) = retained
      BY <3>1, <3>2, SortedIs
    <3> QED
      BY <3>1, <3>3, <3>4
  <2> QED
    BY <2>1, <2>2, <2>3 DEF TranscriptIsWhole
<1> QED
  BY <1>1, TrInvHolds, PTL

-----------------------------------------------------------------------------
(* The parts together, as the runs check them: whichever is at work, every   *)
(* part behaves as its own specification says, so that what is proved of a   *)
(* part holds of the whole.  The file that rests is the empty one.           *)
LEMMA EachPartAtFirst ==
    ASSUME \A n \in 1..3 : <<>> \in Pieces[n], Init
    PROVE  TransportInit /\ CatalogueInit /\ SelectionsInit /\ TranscriptsInit
<1>1. TransportInit /\ CatalogueInit /\ SelectionsInit
  BY DEF Init, TransportRests, CatalogueRests, SelectionsRest, SelectionsStart
<1>2. TranscriptsRest => TranscriptsInit
  <2> SUFFICES ASSUME TranscriptsRest PROVE TranscriptsInit
    OBVIOUS
  <2>1. <<>> \in Pieces[1] /\ <<>> \in Pieces[2] /\ <<>> \in Pieces[3]
    OBVIOUS
  <2>2. <<>> \o <<>> \o <<>> = <<>>
    OBVIOUS
  <2>3. \E a \in Pieces[1], b \in Pieces[2], c \in Pieces[3] : lines = a \o b \o c
    BY <2>1, <2>2 DEF TranscriptsRest
  <2> QED
    BY <2>3 DEF TranscriptsRest, TranscriptsInit
<1>3. TranscriptsInit
  BY <1>2 DEF Init
<1> QED
  BY <1>1, <1>3

LEMMA EachPartGoesOn ==
    ASSUME [Next]_lookupVars
    PROVE  /\ [TransportNext]_transportVars /\ [CatalogueNext]_catalogueVars
           /\ [SelectionsNext]_selectionsVars /\ [TranscriptsNext]_transcriptVars
  BY DEF Next, lookupVars

(* Every variable of every part keeps its type, whichever part is at work.   *)
THEOREM LookupsTyped ==
    ASSUME \A n \in 1..3 : <<>> \in Pieces[n]
    PROVE  Spec => []LookupTyped
<1>1. Init => TransportInit /\ CatalogueInit /\ SelectionsInit /\ TranscriptsInit
  BY EachPartAtFirst
<1>2. [Next]_lookupVars => /\ [TransportNext]_transportVars /\ [CatalogueNext]_catalogueVars
                           /\ [SelectionsNext]_selectionsVars /\ [TranscriptsNext]_transcriptVars
  BY EachPartGoesOn
<1>3. Spec => TransportSpec /\ CatalogueSpec /\ SelectionsSpec /\ TranscriptsSpec
  BY <1>1, <1>2, PTL DEF Spec, TransportSpec, CatalogueSpec, SelectionsSpec, TranscriptsSpec
<1>4. /\ TransportTypeOK /\ CatalogueTypeOK /\ SelectionsTypeOK /\ TranscriptsTypeOK
      => LookupTyped
  BY DEF LookupTyped
<1> QED
  BY <1>3, <1>4, TransportTyped, CatalogueTyped, SelectionsTyped, TranscriptsTyped, PTL
=============================================================================
