------------------------------ MODULE Transport ------------------------------
(* The requests of one invocation (opensubtitles/transport.rs and the calls  *)
(* opensubtitles.rs and fallback.rs make): every call is a series of paced   *)
(* requests, with retries and redirects, that share one budget; the          *)
(* invocation goes on, skips a file or gives up by how its calls end.        *)
EXTENDS Naturals, FiniteSets

CONSTANTS Files,       \* the references the manifest selects
          Bearer,      \* an account's token is configured
          RequestCap,  \* REQUEST_CAP
          MaxHops,     \* redirects a call follows
          MaxGets      \* bound: lookups before and within a fallback

ASSUME TransportAssumption ==
    /\ Files \subseteq Nat \ {0} /\ IsFiniteSet(Files)
    /\ Bearer \in BOOLEAN
    /\ RequestCap \in Nat /\ MaxHops \in Nat /\ MaxGets \in Nat

Alternative == 0       \* the file a fallback asks for
Held == {"missing", "usable", "empty", "malformed"}
Calls == {"none", "get", "post", "content"}
Steps == {"lookup", "quota", "loop", "post", "content", "attempt", "search", "check", "ask",
          "done"}

VARIABLES call, hop, attempt,  \* the call under way
          answer,              \* how the last call ended
          requests, late,      \* Online: what was sent, half an hour has passed
          step, file, todo,    \* the invocation, the file it is at, those to come
          held,                \* what is there of each file
          gets,
          refused, posts       \* history: a refusal was met; POSTs sent by file

onlineVars == <<call, hop, attempt, answer, requests, refused, posts>>
transportVars == <<onlineVars, late, step, file, todo, held, gets>>

TransportTypeOK ==
    /\ call \in Calls /\ hop \in 0..MaxHops /\ attempt \in 0..2
    /\ answer \in {"none", "ok", "error", "stop"}
    /\ requests \in 0..RequestCap /\ late \in BOOLEAN
    /\ step \in Steps /\ file \in Files \union {Alternative} /\ todo \subseteq Files
    /\ held \in [Files -> Held] /\ gets \in 0..MaxGets
    /\ refused \in BOOLEAN /\ posts \in [Files \union {Alternative} -> Nat]

TransportInit ==
    /\ call = "none" /\ hop = 0 /\ attempt = 0 /\ answer = "none"
    /\ requests = 0 /\ late = FALSE
    /\ step = "lookup" /\ file = Alternative
    /\ held \in [Files -> Held]
    /\ todo = {f \in Files : held[f] = "missing"}
    /\ gets = 0 /\ refused = FALSE
    /\ posts = [f \in Files \union {Alternative} |-> 0]
-----------------------------------------------------------------------------
(* One request and what it brings                                            *)

(* What a server may answer: no response; 502..504; 429 with a short         *)
(* retry-after; 401, 403, 406 or another 429; any other status; a redirect   *)
(* that may be followed and one that may not; 200 with an acceptable body    *)
(* and with one that is not.                                                 *)
Responses == {"broken", "transient", "limited", "refused", "status", "redirect", "astray",
              "good", "bad"}
Attempts == IF call = "content" THEN 3 ELSE 2

(* retry_transient_content, and the one repetition after a 429.              *)
MutRetried(r) == \/ r = "transient" /\ call = "content" /\ attempt < 2
                 \/ r = "limited" /\ attempt = 0
Retried(r) == \/ r = "transient" /\ call = "content" /\ attempt < 2
              \/ r = "limited" /\ call # "post" /\ attempt = 0

(* stops_acquisition.                                                        *)
Outcome(r) == IF r = "good" THEN "ok"
              ELSE IF r \in {"refused", "limited"} THEN "stop" ELSE "error"

EndCall(a) ==
    /\ call' = "none" /\ hop' = 0 /\ attempt' = 0 /\ answer' = a
    /\ refused' = (refused \/ a = "stop")

Receive(r) ==
    \/ /\ Retried(r) /\ attempt + 1 < Attempts
       /\ attempt' = attempt + 1
       /\ UNCHANGED <<call, hop, answer, refused>>
    \/ /\ Retried(r) /\ attempt + 1 >= Attempts
       /\ EndCall("error")
    \/ /\ ~Retried(r) /\ r = "redirect" /\ call # "post"
       /\ IF hop < MaxHops
          THEN hop' = hop + 1 /\ attempt' = 0 /\ UNCHANGED <<call, answer, refused>>
          ELSE EndCall("error")
    \/ /\ ~Retried(r) /\ (r # "redirect" \/ call = "post")
       /\ EndCall(Outcome(r))

Exhausted == requests >= RequestCap \/ late
Request ==
    /\ call # "none"
    /\ \/ /\ Exhausted
          /\ EndCall("stop")
          /\ UNCHANGED <<requests, posts>>
       \/ /\ ~Exhausted
          /\ requests' = requests + 1
          /\ posts' = IF call = "post" THEN [posts EXCEPT ![file] = @ + 1] ELSE posts
          /\ \E r \in Responses : Receive(r)
    /\ UNCHANGED <<late, step, file, todo, held, gets>>

TimePasses == late' = TRUE /\ late = FALSE
              /\ UNCHANGED <<onlineVars, step, file, todo, held, gets>>
-----------------------------------------------------------------------------
(* The invocation                                                            *)

At(s) == step = s /\ call = "none"
Ask(kind) ==
    /\ call' = kind /\ answer' = "none"
    /\ UNCHANGED <<hop, attempt, requests, refused, posts, late>>
Proceed(s) == step' = s /\ answer' = "none"
           /\ UNCHANGED <<call, hop, attempt, requests, refused, posts, late>>

(* acquire_with_fallback after acquire failed, with an error it recognises   *)
(* as a refusal or not.                                                      *)
AcquireFails(recognised) ==
    \/ Proceed("done")
    \/ ~recognised /\ Proceed("attempt")

(* The catalogue, unless the manifest is cached, and the series' display.    *)
Lookup ==
    /\ At("lookup")
    /\ \/ /\ answer \in {"none", "ok"} /\ gets < MaxGets
          /\ gets' = gets + 1 /\ Ask("get") /\ UNCHANGED step
       \/ answer \in {"none", "ok"} /\ Proceed("quota") /\ UNCHANGED gets
       \/ answer \in {"error", "stop"} /\ Proceed("done") /\ UNCHANGED gets
    /\ UNCHANGED <<file, todo, held>>

(* quota, for a file still missing; without an account nothing is known.     *)
Quota ==
    /\ At("quota")
    /\ \/ todo # {} /\ Bearer /\ answer = "none" /\ Ask("get") /\ UNCHANGED step
       \/ (todo = {} \/ ~Bearer \/ answer = "ok") /\ Proceed("loop")
       \/ answer = "ok" /\ AcquireFails(FALSE)           \* insufficient
       \/ answer \in {"error", "stop"} /\ AcquireFails(answer = "stop")
    /\ UNCHANGED <<file, todo, held, gets>>

(* The download loop up to the POST, or its end.                             *)
Loop ==
    /\ At("loop")
    /\ \/ \E f \in todo :
             /\ \A g \in todo : f <= g
             /\ todo' = todo \ {f}
             /\ \/ Proceed("loop") /\ UNCHANGED file         \* the reservation is refused
                \/ file' = f /\ step' = "post" /\ Ask("post")
       \/ /\ \/ todo = {} /\ (\A f \in Files : held[f] = "usable") /\ Proceed("done")
             \/ todo = {} /\ (\E f \in Files : held[f] # "usable") /\ AcquireFails(FALSE)
             \/ todo # {} /\ AcquireFails(FALSE)          \* the quota is used up
          /\ UNCHANGED <<file, todo>>
    /\ UNCHANGED <<held, gets>>

(* The answer to the POST: a link, or what ends the acquisition.             *)
Posted ==
    /\ At("post")
    /\ \/ answer = "ok" /\ step' = "content" /\ Ask("content")
       \/ answer = "ok" /\ file # Alternative /\ Proceed("loop")            \* no link
       \/ /\ file # Alternative
          /\ \/ answer = "ok" /\ AcquireFails(FALSE)                     \* no count
             \/ answer # "ok" /\ AcquireFails(answer = "stop")
       \/ file = Alternative /\ Proceed("done")
    /\ UNCHANGED <<file, todo, held, gets>>

(* The content: a refusal ends the loop, any other failure only this file.   *)
(* The error is worded for the file, so the caller recognises no refusal.    *)
MutHalts == FALSE
Halts == answer = "stop"
Fetched ==
    /\ At("content")
    /\ \/ /\ answer = "ok" /\ file # Alternative
          /\ \E h \in Held : held' = [held EXCEPT ![file] = h]
          /\ Proceed("loop") \/ AcquireFails(FALSE)
       \/ /\ answer # "ok" /\ file # Alternative
          /\ IF Halts THEN AcquireFails(FALSE) ELSE Proceed("loop") \/ AcquireFails(FALSE)
          /\ UNCHANGED held
       \/ file = Alternative /\ Proceed("done") /\ UNCHANGED held
    /\ UNCHANGED <<file, todo, gets>>

(* fallback::attempt up to its first request: what is not usable must be     *)
(* proven empty.                                                             *)
Attempt ==
    /\ At("attempt")
    /\ \/ /\ \A f \in Files : held[f] \in {"usable", "empty"}
          /\ \E f \in Files : held[f] = "empty"
          /\ gets' = 0
          /\ Proceed("search") \/ Proceed("check")             \* a pending one is proposed again
       \/ Proceed("done") /\ UNCHANGED gets
    /\ UNCHANGED <<file, todo, held>>

SearchPage ==
    /\ At("search")
    /\ \/ /\ answer \in {"none", "ok"} /\ gets < MaxGets
          /\ gets' = gets + 1 /\ Ask("get") /\ UNCHANGED step
       \/ answer = "ok" /\ (Proceed("check") \/ Proceed("done")) /\ UNCHANGED gets
       \/ answer \in {"error", "stop"} /\ Proceed("done") /\ UNCHANGED gets
    /\ UNCHANGED <<file, todo, held>>

Check ==
    /\ At("check")
    /\ \/ Bearer /\ answer = "none" /\ Ask("get") /\ UNCHANGED step
       \/ (~Bearer \/ answer = "ok") /\ Proceed("ask")
       \/ Proceed("done")                                   \* dry run, no quota, an error
    /\ UNCHANGED <<file, todo, held, gets>>

Confirm ==
    /\ At("ask")
    /\ \/ file' = Alternative /\ step' = "post" /\ Ask("post")
       \/ Proceed("done") /\ UNCHANGED file
    /\ UNCHANGED <<todo, held, gets>>

Invocation == \/ Lookup \/ Quota \/ Loop \/ Posted \/ Fetched \/ Attempt \/ SearchPage \/ Check
              \/ Confirm
TransportNext == Request \/ TimePasses \/ Invocation

TransportSpec == TransportInit /\ [][TransportNext]_transportVars
-----------------------------------------------------------------------------
(* "a POST is never retried": no retry, redirect, refusal or later stage of  *)
(* an invocation sends the POST of a file twice, and the alternative's is    *)
(* the only one of a fallback.                                               *)
OnePost == \A f \in Files \union {Alternative} : posts[f] <= 1

(* Whoever is refused, or has used up the budget, sends nothing more in this *)
(* invocation, although the wording of a content error hides the refusal     *)
(* from acquire_with_fallback.                                               *)
RefusalEndsIt == [][refused => requests' = requests]_transportVars
=============================================================================
