------------------------- MODULE SharedCache_proofs -------------------------
(* Proofs about SharedCache.  The lock discipline carries everything: who    *)
(* probes holds the coordination lock, so a survey is still true when the    *)
(* trimming that follows relies on it, and a season is claimed only when     *)
(* nobody owns it.  Nobody else can write between the survey and the write   *)
(* either, so the room the trimming made is still there, and the promises    *)
(* the survey counted still stand.                                           *)
EXTENDS SharedCache, Sums

-----------------------------------------------------------------------------
(* The inductive invariant                                                   *)
Homeless == {"off", "open", "claim"}
Away == {"off", "post", "drop"}
AtFile == {"reserve", "post", "stage", "finish"}
Fetching == AtFile \union {"prepare"}
InTransaction == {"survey", "write"}

(* Where an invocation may be in its course.                                 *)
Course(r) ==
    /\ r \in Invocation
    /\ r.op = "off" => r = Off
    /\ r.op # "off" => r.scope \in Scope
    /\ r.left \subseteq r.scope /\ r.todo \subseteq r.scope
    /\ r.op = "recover" <=> r.left # {}
    /\ r.op \in Fetching => r.todo # {}
    /\ r.op \in {"stage", "finish"} => r.body > 0
    /\ r.step = "idle" <=> r.op \in Away
    /\ r.op = "finish" => r.step # "wait"
Courses == \A p \in Process : Course(run[p])

(* A transaction runs under the coordination lock.                           *)
Holding == \A p \in Process : run[p].step \in InTransaction => holder = p

(* Past its claim an invocation owns its season, and nothing else.           *)
Housed == \A p \in Process :
    own[p] = IF run[p].op \in Homeless THEN {} ELSE {Home(p)}

(* An owner has its season's file locked; whoever else has, probes it.       *)
OwnersLock == \A p \in Process : \A s \in own[p] : lock[s] = p
ProbersHold == \A p \in Process : \A s \in Season :
    Probing(p, s) => run[p].step = "survey" /\ s \notin run[p].seen

(* A survey missed no owner.                                                 *)
Surveys == \A p \in Process :
    /\ run[p].step \notin InTransaction => run[p].seen = {}
    /\ run[p].step = "survey" =>
         \A s \in run[p].seen : Owned(s) => s \in run[p].active

(* Who is about to draw on a budget can read it.                             *)
Budgets == \A p \in Process :
    \/ run[p].op \in {"freeze", "recover", "prepare"}
    \/ run[p].op \in {"reserve", "stage", "finish"} /\ run[p].step = "write"
    => budget[Home(p)] \in Nat

(* What is neither to be looked at nor to be fetched nor failed is there.    *)
WorkingSets == \A p \in Process :
    run[p].op \notin Homeless \union {"freeze", "drop"} =>
        \A f \in run[p].scope \ (run[p].left \union run[p].todo \union run[p].failed) :
            kept[f] > 0

(* A staging directory that recovers has more than its receipt.              *)
Recoverable == \A f \in File : staged[f] > 0 /\ f \notin spoilt => staged[f] > 1

IInv == /\ TypeOK /\ Courses /\ Holding /\ Housed /\ OwnersLock /\ ProbersHold
        /\ Surveys /\ Budgets /\ WorkingSets /\ Recoverable

-----------------------------------------------------------------------------
(* Records of invocations                                                    *)

(* What Goto, Decide and Proceed start from.                                 *)
Loose(r) ==
    /\ r \in Invocation
    /\ r.scope \in Scope
    /\ r.left \subseteq r.scope /\ r.todo \subseteq r.scope

(* r comes to op o with the selection and the files of q.                    *)
Keeps(r, q) == r.scope = q.scope /\ r.todo = q.todo /\ r.failed = q.failed

LEMMA GotoCourse ==
    ASSUME NEW r, Loose(r), NEW o \in Ops \ {"off", "finish"},
           o = "recover" => r.left # {}, o \in Fetching => r.todo # {},
           o = "stage" => r.body > 0
    PROVE  /\ Course(Goto(r, o))
           /\ Goto(r, o).op = o /\ Goto(r, o).step \in {"wait", "idle"}
           /\ Keeps(Goto(r, o), r)
           /\ Goto(r, o).left = IF o = "recover" THEN r.left ELSE {}
<1> DEFINE g == Goto(r, o)
<1>1. /\ g = [r EXCEPT !.op = o, !.step = g.step, !.left = g.left]
      /\ g.op = o
      /\ g.step = IF o \in {"post", "drop"} THEN "idle" ELSE "wait"
      /\ g.left = IF o = "recover" THEN r.left ELSE {}
      /\ g.scope = r.scope /\ g.todo = r.todo /\ g.failed = r.failed
      /\ g.body = r.body
  BY DEF Goto, Loose, Invocation
<1>2. g \in Invocation
  BY <1>1 DEF Loose, Invocation, Steps
<1> QED
  BY <1>1, <1>2 DEF Course, Keeps, Loose, Away

LEMMA DecideCourse ==
    ASSUME NEW r, Loose(r)
    PROVE  /\ Course(Decide(r))
           /\ Decide(r).op \in {"recover", "prepare", "references", "drop"}
           /\ Decide(r).step \in {"wait", "idle"}
           /\ Keeps(Decide(r), r) /\ Decide(r).left = r.left
<1>1. {"recover", "prepare", "references", "drop"} \subseteq Ops \ {"off", "finish"}
  BY DEF Ops
<1>2. {"recover", "references", "drop"} \cap Fetching = {}
  BY DEF AtFile, Fetching
<1>3. CASE r.left # {}
  BY <1>1, <1>2, <1>3, GotoCourse DEF Decide
<1>4. CASE r.left = {} /\ r.todo # {}
  BY <1>1, <1>2, <1>4, GotoCourse DEF Decide
<1>5. CASE r.left = {} /\ r.todo = {}
  BY <1>1, <1>2, <1>5, GotoCourse DEF Decide
<1> QED
  BY <1>3, <1>4, <1>5

LEMMA ProceedCourse ==
    ASSUME NEW r, Loose(r)
    PROVE  /\ Course(Proceed(r))
           /\ Proceed(r).op \in {"reserve", "references", "drop"}
           /\ Proceed(r).step \in {"wait", "idle"}
           /\ Keeps(Proceed(r), r) /\ Proceed(r).left = {}
<1>1. {"reserve", "references", "drop"} \subseteq Ops \ {"off", "finish"}
  BY DEF Ops
<1>2. {"references", "drop"} \cap Fetching = {}
  BY DEF AtFile, Fetching
<1>3. CASE r.todo # {}
  BY <1>1, <1>2, <1>3, GotoCourse DEF Proceed
<1>4. CASE r.todo = {}
  BY <1>1, <1>2, <1>4, GotoCourse DEF Proceed
<1> QED
  BY <1>3, <1>4

LEMMA OffCourse == Course(Off)
<1>1. Off \in Invocation
  BY CacheAssumption DEF Off, Invocation, Ops, Steps
<1> QED
  BY <1>1 DEF Course, Off, AtFile, Fetching, Away
(* Where a failing operation leaves the invocation.                          *)
LEMMA GiveUpCourse ==
    ASSUME IInv, NEW p \in Process, run[p].op # "off",
           run[p].step # "idle" \/ run[p].op = "post"
    PROVE  /\ Course(GiveUp(p))
           /\ GiveUp(p).step \in {"wait", "idle"}
           /\ run[p].op \in Homeless => GiveUp(p) = Off
           /\ run[p].op \notin Homeless =>
                /\ GiveUp(p).op \notin Homeless \union {"freeze"}
                /\ GiveUp(p).scope = run[p].scope
           /\ GiveUp(p).op \in {"recover", "prepare"} => run[p].op = "recover"
           /\ run[p].op \in {"freeze", "prepare", "references"} => GiveUp(p).op = "drop"
           /\ run[p].op \notin Homeless \union {"freeze"} =>
                run[p].left \union run[p].todo \union run[p].failed
                  \subseteq GiveUp(p).left \union GiveUp(p).todo \union GiveUp(p).failed
<1> DEFINE r == run[p]
           f == At(p)
<1>1. r \in Invocation /\ Course(r) /\ r.scope \in Scope /\ r.scope \subseteq File
  BY CacheAssumption DEF IInv, Courses, Course
<1>2. Loose(r)
  BY <1>1 DEF Course, Loose
<1>3. CASE r.op \in {"open", "claim"}
  <2>1. GiveUp(p) = Off
    BY <1>3 DEF GiveUp
  <2>2. Off.op = "off" /\ Off.step = "idle"
    BY DEF Off
  <2> QED
    BY <1>3, <2>1, <2>2, OffCourse DEF Homeless
<1>4. CASE r.op = "recover"
  <2> DEFINE n == [r EXCEPT !.failed = @ \union {f}, !.left = @ \ {f}]
  <2>1. GiveUp(p) = Decide(n)
    BY <1>4 DEF GiveUp
  <2>2. f \in r.left
    BY <1>1, <1>4 DEF Course, At
  <2>3. /\ n \in Invocation /\ n.scope = r.scope /\ n.todo = r.todo
        /\ n.left = r.left \ {f} /\ n.failed = r.failed \union {f}
    BY <1>1, <2>2 DEF Invocation, Course
  <2>4. Loose(n)
    BY <1>2, <2>3 DEF Loose
  <2> HIDE DEF n
  <2> QED
    BY <1>4, <2>1, <2>3, <2>4, DecideCourse DEF Homeless, Keeps
<1>5. CASE r.op \in AtFile
  <2> DEFINE n == [r EXCEPT !.failed = @ \union {f}, !.todo = @ \ {f},
                            !.body = 0, !.sound = TRUE]
  <2>1. GiveUp(p) = Proceed(n)
    BY <1>5 DEF GiveUp, AtFile
  <2>2. f \in r.todo
    BY <1>1, <1>5 DEF Course, At, AtFile, Fetching
  <2> HIDE DEF f
  <2>7. f \in File /\ 0 \in 0..LargestBody
    BY <1>1, <2>2, CacheAssumption DEF Course
  <2>3. /\ n \in Invocation /\ n.scope = r.scope /\ n.left = r.left
        /\ n.todo = r.todo \ {f} /\ n.failed = r.failed \union {f}
    BY <1>1, <2>7 DEF Invocation
  <2>4. Loose(n)
    BY <1>2, <2>3 DEF Loose
  <2>5. r.left = {}
    BY <1>1, <1>5 DEF Course, AtFile
  <2>6. r.op \notin Homeless \union {"freeze", "recover", "prepare", "references"}
    BY <1>5 DEF Homeless, AtFile
  <2> HIDE DEF n
  <2> QED
    BY <2>1, <2>3, <2>4, <2>5, <2>6, ProceedCourse DEF Homeless, Keeps
<1>6. CASE r.op \in {"freeze", "prepare", "references"}
  <2>1. GiveUp(p) = Goto(r, "drop")
    BY <1>6 DEF GiveUp
  <2>2. "drop" \in Ops \ {"off", "finish"} /\ "drop" \notin Fetching
    BY DEF Ops, AtFile, Fetching
  <2>3. r.left = {}
    BY <1>1, <1>6 DEF Course
  <2>4. r.op \notin Homeless /\ r.op # "recover" /\ "drop" \notin Homeless
    BY <1>6 DEF Homeless
  <2>5. GiveUp(p).left = {} /\ GiveUp(p).op = "drop" /\ Keeps(GiveUp(p), r)
    BY <1>2, <2>1, <2>2, GotoCourse
  <2> QED
    BY <1>2, <1>6, <2>1, <2>2, <2>3, <2>4, <2>5, GotoCourse DEF Homeless, Keeps
<1>7. r.op \in {"open", "claim", "recover", "freeze", "prepare", "references"} \union AtFile
  BY <1>1 DEF Invocation, Ops, AtFile, Course, Away
<1> QED
  BY <1>3, <1>4, <1>5, <1>6, <1>7

-----------------------------------------------------------------------------
(* A step that ends what process p is doing keeps the invariant if it        *)
(* touches only p's own locks and budget, removes no entry, and leaves p in  *)
(* a course that suits what p owns.                                          *)
LEMMA Settled ==
    ASSUME IInv, NEW p \in Process, NEW r, Course(r), Set(p, r),
           r.step \in {"wait", "idle"} \/ (r.step = "survey" /\ holder' = p),
           \A q \in Process \ {p} : own'[q] = own[q],
           \A q \in Process \ {p} : \A s \in Season : lock'[s] = q <=> lock[s] = q,
           holder' = holder \/ holder = p,
           own'[p] \subseteq Season,
           \A s \in Season : lock'[s] = p <=> s \in own'[p],
           own'[p] \subseteq own[p] \/ holder = p,
           own'[p] = IF r.op \in Homeless THEN {} ELSE {SeasonOfScope(r.scope)},
           \A s \in Season : budget'[s] = budget[s] \/ s \in own'[p],
           r.op \in {"freeze", "recover", "prepare"} => budget'[SeasonOfScope(r.scope)] \in Nat,
           \A f \in File : kept[f] > 0 => kept'[f] > 0,
           r.op \notin Homeless \union {"freeze", "drop"} =>
               \A f \in r.scope \ (r.left \union r.todo \union r.failed) : kept'[f] > 0
    PROVE  /\ run' \in [Process -> Invocation]
           /\ Courses' /\ Holding' /\ Housed' /\ OwnersLock' /\ ProbersHold'
           /\ Surveys' /\ Budgets' /\ WorkingSets'
<1> DEFINE c == [r EXCEPT !.seen = {}, !.active = {}]
<1>1. /\ c.op = r.op /\ c.step = r.step /\ c.scope = r.scope /\ c.left = r.left
      /\ c.todo = r.todo /\ c.failed = r.failed /\ c.seen = {} /\ c.active = {}
  BY DEF Course, Invocation
<1>2. Course(c)
  <2>1. c \in Invocation
    BY DEF Course, Invocation
  <2>2. r.op = "off" => c = Off
    <3>1. SUFFICES ASSUME r = Off PROVE c = Off
      BY DEF Course
    <3>2. /\ c.op = Off.op /\ c.step = Off.step /\ c.scope = Off.scope
          /\ c.left = Off.left /\ c.todo = Off.todo /\ c.failed = Off.failed
          /\ c.body = Off.body /\ c.sound = Off.sound
          /\ c.seen = Off.seen /\ c.active = Off.active
      BY <3>1, OffCourse DEF Course, Invocation, Off
    <3>3. Off \in Invocation
      BY OffCourse DEF Course
    <3> HIDE DEF c
    <3> QED
      BY <2>1, <3>2, <3>3 DEF Invocation
  <2> QED
    BY <1>1, <2>1, <2>2 DEF Course
<1>3. run \in [Process -> Invocation] /\ run' = [run EXCEPT ![p] = c]
  BY DEF IInv, TypeOK, Set
<1>4. run'[p] = c /\ \A q \in Process \ {p} : run'[q] = run[q]
  BY <1>3
<1> HIDE DEF c
<1>13. run' \in [Process -> Invocation]
  BY <1>2, <1>3 DEF Course
<1>5. Courses'
  BY <1>2, <1>4 DEF Courses, IInv
<1>6. Holding'
  BY <1>1, <1>4 DEF Holding, InTransaction, IInv
<1>7. Housed'
  <2> SUFFICES ASSUME NEW q \in Process
               PROVE  own'[q] = IF run'[q].op \in Homeless THEN {}
                                ELSE {SeasonOfScope(run'[q].scope)}
    BY DEF Housed, Home
  <2>1. CASE q = p
    BY <1>1, <1>4, <2>1
  <2>2. CASE q # p
    BY <1>4, <2>2 DEF IInv, Housed, Home
  <2> QED
    BY <2>1, <2>2
<1>8. OwnersLock'
  <2>1. \A q \in Process : own[q] \in SUBSET Season
    BY DEF IInv, TypeOK, LocksTypeOK
  <2> QED
    BY <2>1 DEF OwnersLock, IInv
<1>9. ProbersHold'
  BY <1>4 DEF ProbersHold, Probing, IInv
<1>10. Surveys'
  <2>4. \A q \in Process : run'[q].step \notin InTransaction => run'[q].seen = {}
    BY <1>1, <1>4 DEF IInv, Surveys
  <2> SUFFICES ASSUME NEW q \in Process, run'[q].step = "survey",
                      NEW s \in run'[q].seen, Owned(s)'
               PROVE  s \in run'[q].active
    BY <2>4 DEF Surveys
  <2>1. q # p
    BY <1>1, <1>4
  <2>2. holder = q
    BY <1>4, <2>1 DEF IInv, Holding, InTransaction
  <2>3. Owned(s)
    BY <2>1, <2>2 DEF Owned
  <2> QED
    BY <1>4, <2>1, <2>3 DEF IInv, Surveys
<1>11. Budgets'
  <2>1. \A q \in Process : own[q] \in SUBSET Season
    BY DEF IInv, TypeOK, LocksTypeOK
  <2> SUFFICES ASSUME NEW q \in Process,
                      \/ run'[q].op \in {"freeze", "recover", "prepare"}
                      \/ /\ run'[q].op \in {"reserve", "stage", "finish"}
                         /\ run'[q].step = "write"
               PROVE  budget'[SeasonOfScope(run'[q].scope)] \in Nat
    BY DEF Budgets, Home
  <2>2. CASE q = p
    BY <1>1, <1>4, <2>2
  <2>3. CASE q # p
    <3> DEFINE h == SeasonOfScope(run[q].scope)
    <3>1. run'[q] = run[q]
      BY <1>4, <2>3
    <3>2. own[q] = {h}
      BY <3>1 DEF IInv, Housed, Home, Homeless
    <3>3. lock[h] = q /\ h \in Season
      BY <2>1, <3>2 DEF IInv, OwnersLock
    <3>4. h \notin own'[p]
      BY <2>3, <3>3
    <3> QED
      BY <3>1, <3>3, <3>4 DEF IInv, Budgets, Home
  <2> QED
    BY <2>2, <2>3
<1>12. WorkingSets'
  <2> SUFFICES ASSUME NEW q \in Process,
                      run'[q].op \notin Homeless \union {"freeze", "drop"},
                      NEW f \in run'[q].scope \ (run'[q].left \union run'[q].todo
                                                   \union run'[q].failed)
               PROVE  kept'[f] > 0
    BY DEF WorkingSets
  <2>1. CASE q = p
    BY <1>1, <1>4, <2>1
  <2>2. CASE q # p
    <3>1. run'[q] = run[q] /\ Course(run[q])
      BY <1>4, <2>2 DEF IInv, Courses
    <3>2. f \in File
      BY <3>1, CacheAssumption DEF Course, Homeless
    <3> QED
      BY <3>1, <3>2 DEF IInv, WorkingSets
  <2> QED
    BY <2>1, <2>2
<1> QED
  BY <1>5, <1>6, <1>7, <1>8, <1>9, <1>10, <1>11, <1>12, <1>13
(* Between its surveys a process holds the locks of its seasons only.        *)
LEMMA Steady ==
    ASSUME IInv, NEW p \in Process, run[p].step # "survey" \/ run[p].seen = Season
    PROVE  /\ own[p] \subseteq Season
           /\ \A s \in Season : lock[s] = p <=> s \in own[p]
<1>1. own[p] \subseteq Season
  BY DEF IInv, TypeOK, LocksTypeOK
<1> QED
  BY <1>1 DEF IInv, OwnersLock, ProbersHold, Probing

LEMMA HomeTyped ==
    ASSUME NEW c \in Scope
    PROVE  /\ SeasonOfScope(c) \in Season
           /\ \A f \in c : f \in File /\ SeasonOf[f] = SeasonOfScope(c)
<1>1. c \subseteq File /\ \E f \in c : TRUE
  BY CacheAssumption
<1> QED
  BY <1>1, CacheAssumption DEF SeasonOfScope

(* A settling step that claims and drops nothing.                            *)
LEMMA Resting ==
    ASSUME IInv, NEW p \in Process, NEW r, Course(r), Set(p, r),
           run[p].step # "survey" \/ run[p].seen = Season,
           r.step \in {"wait", "idle"} \/ (r.step = "survey" /\ holder' = p),
           UNCHANGED <<lock, own>>,
           holder' = holder \/ holder = p,
           run[p].op \in Homeless <=> r.op \in Homeless,
           r.scope = run[p].scope \/ r.op \in Homeless,
           \A s \in Season : budget'[s] = budget[s] \/ s \in own[p],
           r.op \in {"freeze", "recover", "prepare"} => budget'[SeasonOfScope(r.scope)] \in Nat,
           \A f \in File : kept[f] > 0 => kept'[f] > 0,
           r.op \notin Homeless \union {"freeze", "drop"} =>
               \A f \in r.scope \ (r.left \union r.todo \union r.failed) : kept'[f] > 0
    PROVE  /\ run' \in [Process -> Invocation]
           /\ Courses' /\ Holding' /\ Housed' /\ OwnersLock' /\ ProbersHold'
           /\ Surveys' /\ Budgets' /\ WorkingSets'
<1>1. own[p] \subseteq Season /\ \A s \in Season : lock[s] = p <=> s \in own[p]
  BY Steady
<1>2. own'[p] = IF r.op \in Homeless THEN {} ELSE {SeasonOfScope(r.scope)}
  BY DEF IInv, Housed, Home
<1> HIDE DEF IInv
<1> QED
  BY <1>1, <1>2, Settled

(* A step that gives up what process p is doing.                             *)
LEMMA GivenUp ==
    ASSUME IInv, NEW p \in Process, Set(p, GiveUp(p)), run[p].op # "off",
           run[p].step # "idle" \/ run[p].op = "post",
           run[p].step # "survey" \/ run[p].seen = Season,
           UNCHANGED <<lock, own, kept>>,
           holder' = holder \/ holder = p,
           \A s \in Season : budget'[s] = budget[s] \/ s \in own[p],
           run[p].op = "recover" => budget' = budget
    PROVE  /\ run' \in [Process -> Invocation]
           /\ Courses' /\ Holding' /\ Housed' /\ OwnersLock' /\ ProbersHold'
           /\ Surveys' /\ Budgets' /\ WorkingSets'
<1> DEFINE r == GiveUp(p)
<1>1. /\ Course(r)
      /\ r.step \in {"wait", "idle"}
      /\ run[p].op \in Homeless => r = Off
      /\ run[p].op \notin Homeless =>
           /\ r.op \notin Homeless \union {"freeze"}
           /\ r.scope = run[p].scope
      /\ r.op \in {"recover", "prepare"} => run[p].op = "recover"
      /\ run[p].op \in {"freeze", "prepare", "references"} => r.op = "drop"
      /\ run[p].op \notin Homeless \union {"freeze"} =>
           run[p].left \union run[p].todo \union run[p].failed
             \subseteq r.left \union r.todo \union r.failed
  BY GiveUpCourse
<1>2. Off.op \in Homeless
  BY DEF Off, Homeless
<1> HIDE DEF r
<1>3. run[p].op \in Homeless <=> r.op \in Homeless
  BY <1>1, <1>2
<1>4. r.scope = run[p].scope \/ r.op \in Homeless
  BY <1>1, <1>2
<1>5. r.op \in {"freeze", "recover", "prepare"} => budget'[SeasonOfScope(r.scope)] \in Nat
  <2> SUFFICES ASSUME r.op \in {"freeze", "recover", "prepare"}
               PROVE  budget'[SeasonOfScope(r.scope)] \in Nat
    OBVIOUS
  <2>1. run[p].op \notin Homeless
    BY <1>3 DEF Homeless
  <2>2. run[p].op = "recover" /\ r.scope = run[p].scope
    BY <1>1, <2>1
  <2> QED
    BY <2>2 DEF IInv, Budgets, Home
<1>6. r.op \notin Homeless \union {"freeze", "drop"} =>
         \A f \in r.scope \ (r.left \union r.todo \union r.failed) : kept'[f] > 0
  <2> SUFFICES ASSUME r.op \notin Homeless \union {"freeze", "drop"},
                      NEW f \in r.scope \ (r.left \union r.todo \union r.failed)
               PROVE  kept[f] > 0
    OBVIOUS
  <2>1. run[p].op \notin Homeless \union {"freeze"} /\ r.scope = run[p].scope
    BY <1>1, <1>3
  <2>2. run[p].op # "drop"
    BY DEF IInv, Courses, Course, Away
  <2> QED
    BY <1>1, <2>1, <2>2 DEF IInv, WorkingSets
<1>7. Set(p, r) /\ \A f \in File : kept[f] > 0 => kept'[f] > 0
  BY DEF r
<1> QED
  BY <1>1, <1>3, <1>4, <1>5, <1>6, <1>7, Resting
-----------------------------------------------------------------------------
(* Every step keeps the invariant                                            *)

(* What the invariant says of process p.                                     *)
LEMMA Standing ==
    ASSUME IInv, NEW p \in Process
    PROVE  /\ run \in [Process -> Invocation]
           /\ run[p] \in Invocation /\ Course(run[p])
           /\ run[p].op # "off" => run[p].scope \in Scope /\ Loose(run[p])
           /\ own[p] = IF run[p].op \in Homeless THEN {} ELSE {Home(p)}
<1>1. run \in [Process -> Invocation] /\ Course(run[p])
  BY DEF IInv, TypeOK, Courses
<1> QED
  BY <1>1 DEF IInv, Housed, Course, Loose

LEMMA InitIInv == Init => IInv
<1> SUFFICES ASSUME Init PROVE IInv
  OBVIOUS
<1>1. /\ Off \in Invocation /\ Off.op = "off" /\ Off.step = "idle" /\ Off.seen = {}
      /\ Course(Off)
  BY OffCourse DEF Course, Off
<1>2. \A p \in Process : run[p] = Off
  BY DEF Init
<1>3. TypeOK
  <2>1. LocksTypeOK
    BY DEF Init, LocksInit, LocksTypeOK
  <2>2. run \in [Process -> Invocation]
    BY <1>1 DEF Init
  <2>3. 0 \in 0..LargestBody /\ 0 \in 0..LargestBody + 1
    BY CacheAssumption
  <2> QED
    BY <2>1, <2>2, <2>3 DEF Init, TypeOK
<1>4. Courses /\ Holding /\ Surveys
  BY <1>1, <1>2 DEF Courses, Holding, Surveys, InTransaction
<1>5. Housed /\ OwnersLock /\ ProbersHold
  BY <1>1, <1>2, LocksAssumption DEF Housed, OwnersLock, ProbersHold, Probing, Init, LocksInit, Homeless
<1>6. Budgets /\ WorkingSets /\ Recoverable
  BY <1>1, <1>2 DEF Budgets, WorkingSets, Recoverable, Homeless, Init
<1> QED
  BY <1>3, <1>4, <1>5, <1>6 DEF IInv

LEMMA BeginIInv ==
    ASSUME IInv, NEW p \in Process, NEW c \in Scope, Begin(p, c)
    PROVE  IInv'
<1> DEFINE r == [Goto(Off, "open") EXCEPT !.scope = c]
<1>1. Off \in Invocation /\ Off.op = "off" /\ Off.left = {} /\ Off.todo = {} /\ Off.step = "idle"
  BY OffCourse DEF Course, Off
<1>2. /\ Goto(Off, "open") \in Invocation
      /\ Goto(Off, "open").op = "open" /\ Goto(Off, "open").step = "wait"
      /\ Goto(Off, "open").left = {} /\ Goto(Off, "open").todo = {}
  BY <1>1 DEF Goto, Invocation, Ops, Steps
<1>3. /\ r \in Invocation /\ r.op = "open" /\ r.step = "wait"
      /\ r.left = {} /\ r.todo = {} /\ r.scope = c
  BY <1>2 DEF Invocation
<1>4. Course(r)
  BY <1>3 DEF Course, AtFile, Fetching, Away
<1>5. Set(p, r) /\ run[p] = Off /\ UNCHANGED <<lockVars, diskVars, deaths, failures>>
  BY DEF Begin
<1> HIDE DEF r
<1>6. run[p].op \in Homeless /\ r.op \in Homeless /\ run[p].step # "survey"
  BY <1>1, <1>3, <1>5 DEF Homeless
<1>7. UNCHANGED <<holder, lock, own, budget, kept>>
  BY <1>5 DEF lockVars, diskVars
<1>8. /\ run' \in [Process -> Invocation]
      /\ Courses' /\ Holding' /\ Housed' /\ OwnersLock' /\ ProbersHold'
      /\ Surveys' /\ Budgets' /\ WorkingSets'
  BY <1>3, <1>4, <1>5, <1>6, <1>7, Resting
<1> QED
  BY <1>5, <1>8 DEF IInv, TypeOK, LocksTypeOK, Recoverable, lockVars, diskVars

LEMMA TimeOutIInv ==
    ASSUME IInv, NEW p \in Process, TimeOut(p)
    PROVE  IInv'
<1>1. run[p].step = "wait" /\ Set(p, GiveUp(p))
      /\ UNCHANGED <<lockVars, diskVars, deaths, failures>>
  BY DEF TimeOut
<1>2. run[p].op # "off"
  BY <1>1, Standing DEF Course, Away
<1>3. UNCHANGED <<holder, lock, own, budget, kept>>
  BY <1>1 DEF lockVars, diskVars
<1>4. /\ run' \in [Process -> Invocation]
      /\ Courses' /\ Holding' /\ Housed' /\ OwnersLock' /\ ProbersHold'
      /\ Surveys' /\ Budgets' /\ WorkingSets'
  BY <1>1, <1>2, <1>3, GivenUp
<1> QED
  BY <1>1, <1>4 DEF IInv, TypeOK, LocksTypeOK, Recoverable, lockVars, diskVars

LEMMA RefuseIInv ==
    ASSUME IInv, NEW p \in Process, Refuse(p)
    PROVE  IInv'
<1>1. /\ run[p].step = "survey" /\ run[p].seen = Season /\ Set(p, GiveUp(p))
      /\ Release(p)
      /\ UNCHANGED <<lock, own, budget, diskVars, deaths, failures>>
  BY DEF Refuse, Surveyed
<1>2. run[p].op # "off"
  BY <1>1, Standing DEF Course, Away
<1>3. UNCHANGED <<lock, own, budget, kept>> /\ holder = p /\ holder' = NoOne
  BY <1>1 DEF diskVars, Release
<1>4. /\ run' \in [Process -> Invocation]
      /\ Courses' /\ Holding' /\ Housed' /\ OwnersLock' /\ ProbersHold'
      /\ Surveys' /\ Budgets' /\ WorkingSets'
  BY <1>1, <1>2, <1>3, GivenUp
<1> QED
  BY <1>1, <1>3, <1>4 DEF IInv, TypeOK, LocksTypeOK, Recoverable, diskVars

LEMMA LockIInv ==
    ASSUME IInv, NEW p \in Process, Lock(p)
    PROVE  IInv'
<1> DEFINE step == IF Asks(p) THEN "survey" ELSE "write"
           c == [run[p] EXCEPT !.step = step]
<1>1. /\ run[p].step = "wait" /\ holder = NoOne /\ holder' = p
      /\ UNCHANGED <<lock, own, budget, diskVars, deaths, failures>>
      /\ run \in [Process -> Invocation]
      /\ run' = [run EXCEPT ![p] = c]
  BY Standing DEF Lock, Coordinate
<1>2. step \in InTransaction
  BY DEF InTransaction
<1>3. /\ c \in Invocation /\ c.op = run[p].op /\ c.scope = run[p].scope
      /\ c.left = run[p].left /\ c.todo = run[p].todo /\ c.failed = run[p].failed
      /\ c.body = run[p].body
      /\ c.step = step /\ c.seen = run[p].seen /\ c.active = run[p].active
  BY <1>2, Standing DEF Invocation, Steps, InTransaction
<1>9. step = "write" => run[p].op \notin {"reserve", "stage"}
  BY DEF Asks
<1> HIDE DEF step, c
<1>4. run'[p] = c /\ \A q \in Process \ {p} : run'[q] = run[q]
  BY <1>1
<1>5. \A q \in Process : run[q].step \notin InTransaction
  BY <1>1, LocksAssumption DEF IInv, Holding
<1>6. TypeOK'
  BY <1>1, <1>3 DEF IInv, TypeOK, LocksTypeOK, diskVars
<1>7. Courses'
  <2>1. Course(c)
    BY <1>1, <1>2, <1>3, Standing DEF Course, Away, InTransaction
  <2> QED
    BY <1>4, <2>1 DEF IInv, Courses
<1>8. Holding' /\ Housed' /\ OwnersLock'
  BY <1>1, <1>3, <1>4, <1>5 DEF IInv, Holding, Housed, Home, OwnersLock
<1>10. ProbersHold'
  BY <1>1, <1>3, <1>4, <1>5 DEF IInv, ProbersHold, Probing, InTransaction
<1>11. Surveys'
  <2>1. run[p].seen = {}
    BY <1>5 DEF IInv, Surveys
  <2> QED
    BY <1>2, <1>3, <1>4, <1>5, <2>1 DEF IInv, Surveys, InTransaction
<1>12. Budgets'
  <2>1. run[p].op # "finish"
    BY <1>1, Standing DEF Course
  <2> QED
    BY <1>1, <1>3, <1>4, <1>9, <2>1 DEF IInv, Budgets, Home
<1>13. WorkingSets'
  BY <1>1, <1>3, <1>4 DEF IInv, WorkingSets, diskVars
<1>14. Recoverable'
  BY <1>1 DEF IInv, Recoverable, diskVars
<1> QED
  BY <1>6, <1>7, <1>8, <1>10, <1>11, <1>12, <1>13, <1>14 DEF IInv
LEMMA SurveyIInv ==
    ASSUME IInv, NEW p \in Process, NEW s \in Season, Survey(p, s)
    PROVE  IInv'
<1>1. /\ run[p].step = "survey" /\ \A t \in Season : ~Probing(p, t)
      /\ UNCHANGED <<holder, own, budget, diskVars, deaths, failures>>
  BY DEF Survey
<1>2. own \in [Process -> SUBSET Season] /\ lock \in [Season -> Process \union {NoOne}]
  BY DEF IInv, TypeOK, LocksTypeOK
<1>3. CASE Claimable(s)
  <2>1. lock[s] = NoOne /\ lock' = [lock EXCEPT ![s] = p] /\ run' = run
    BY <1>3 DEF Survey, Probe, Claimable
  <2>2. s \notin run[p].seen
    BY DEF Survey
  <2>3. OwnersLock' /\ ProbersHold'
    BY <1>1, <1>2, <2>1, <2>2, LocksAssumption DEF IInv, OwnersLock, ProbersHold, Probing
  <2>4. TypeOK'
    BY <1>1, <1>2, <2>1 DEF IInv, TypeOK, LocksTypeOK, diskVars
  <2>5. Surveys'
    BY <1>1, <2>1 DEF IInv, Surveys, Owned
  <2>6. Courses' /\ Holding' /\ Housed' /\ Budgets' /\ WorkingSets' /\ Recoverable'
    BY <1>1, <2>1 DEF Recoverable, IInv, Courses, Holding, Housed, Home, Budgets, WorkingSets, diskVars
  <2> QED
    BY <2>3, <2>4, <2>5, <2>6 DEF IInv
<1>4. CASE ~Claimable(s)
  <2> DEFINE c == [run[p] EXCEPT !.seen = @ \union {s}, !.active = @ \union {s}]
  <2>1. /\ lock' = lock /\ run' = [run EXCEPT ![p] = c]
    BY <1>4, Standing DEF Survey
  <2>2. /\ c \in Invocation /\ c.op = run[p].op /\ c.scope = run[p].scope
        /\ c.left = run[p].left /\ c.todo = run[p].todo /\ c.failed = run[p].failed
        /\ c.body = run[p].body
        /\ c.step = "survey" /\ c.seen = run[p].seen \union {s}
        /\ c.active = run[p].active \union {s}
    BY <1>1, Standing DEF Invocation
  <2> HIDE DEF c
  <2>3. run'[p] = c /\ \A q \in Process \ {p} : run'[q] = run[q]
    BY <2>1, Standing
  <2>4. OwnersLock' /\ ProbersHold'
    BY <1>1, <2>1, <2>2, <2>3 DEF IInv, OwnersLock, ProbersHold, Probing
  <2>5. TypeOK'
    BY <1>1, <2>1, <2>2 DEF IInv, TypeOK, LocksTypeOK, diskVars
  <2>6. Surveys'
    BY <1>1, <2>2, <2>3 DEF IInv, Surveys, Owned, InTransaction
  <2>7. Courses'
    <3>1. Course(c)
      BY <1>1, <2>2, Standing DEF Course, Away
    <3> QED
      BY <2>3, <3>1 DEF IInv, Courses
  <2>8. Holding' /\ Housed' /\ Budgets' /\ WorkingSets' /\ Recoverable'
    BY <1>1, <2>2, <2>3 DEF Recoverable, IInv, Holding, Housed, Home, Budgets, WorkingSets, diskVars
  <2> QED
    BY <2>4, <2>5, <2>6, <2>7, <2>8 DEF IInv
<1> QED
  BY <1>3, <1>4

LEMMA LetGoIInv ==
    ASSUME IInv, NEW p \in Process, NEW s \in Season, LetGo(p, s)
    PROVE  IInv'
<1> DEFINE c == [run[p] EXCEPT !.seen = @ \union {s}]
<1>1. /\ run[p].step = "survey" /\ lock[s] = p /\ s \notin own[p]
      /\ lock' = [lock EXCEPT ![s] = NoOne] /\ run' = [run EXCEPT ![p] = c]
      /\ UNCHANGED <<holder, own, budget, diskVars, deaths, failures>>
  BY Standing DEF LetGo, Unprobe, Probing
<1>2. own \in [Process -> SUBSET Season] /\ lock \in [Season -> Process \union {NoOne}]
  BY DEF IInv, TypeOK, LocksTypeOK
<1>3. /\ c \in Invocation /\ c.op = run[p].op /\ c.scope = run[p].scope
      /\ c.left = run[p].left /\ c.todo = run[p].todo /\ c.failed = run[p].failed
      /\ c.body = run[p].body
      /\ c.step = "survey" /\ c.seen = run[p].seen \union {s}
      /\ c.active = run[p].active
  <2>1. run[p] \in Invocation /\ run[p].seen \union {s} \in SUBSET Season
    BY Standing DEF Invocation
  <2> QED
    BY <1>1, <2>1 DEF Invocation
<1> HIDE DEF c
<1>4. run'[p] = c /\ \A q \in Process \ {p} : run'[q] = run[q]
  BY <1>1, Standing
<1>5. OwnersLock' /\ ProbersHold'
  BY <1>1, <1>2, <1>3, <1>4, LocksAssumption DEF IInv, OwnersLock, ProbersHold, Probing
<1>6. TypeOK'
  BY <1>1, <1>2, <1>3 DEF IInv, TypeOK, LocksTypeOK, diskVars
<1>7. Surveys'
  <2>1. ~Owned(s)
    BY <1>1 DEF IInv, OwnersLock, Owned
  <2>2. \A t \in Season : Owned(t)' <=> Owned(t)
    BY <1>1 DEF Owned
  <2>3. \A q \in Process : run'[q].seen \in SUBSET Season
    BY <1>3, <1>4, Standing DEF Invocation
  <2>4. \A q \in Process : run'[q].step \notin InTransaction => run'[q].seen = {}
    BY <1>1, <1>3, <1>4 DEF IInv, Surveys, InTransaction
  <2> SUFFICES ASSUME NEW q \in Process, run'[q].step = "survey",
                      NEW t \in run'[q].seen, Owned(t)
               PROVE  t \in run'[q].active
    BY <2>2, <2>3, <2>4 DEF Surveys
  <2>5. CASE q = p
    BY <1>1, <1>3, <1>4, <2>1, <2>5 DEF IInv, Surveys
  <2>6. CASE q # p
    BY <1>4, <2>6 DEF IInv, Surveys
  <2> QED
    BY <2>5, <2>6
<1>8. Courses'
  <2>1. Course(c)
    BY <1>1, <1>3, Standing DEF Course, Away
  <2> QED
    BY <1>4, <2>1 DEF IInv, Courses
<1>9. Holding' /\ Housed'
  BY <1>1, <1>3, <1>4 DEF IInv, Holding, Housed, Home, InTransaction
<1>10. Budgets'
  BY <1>1, <1>3, <1>4 DEF IInv, Budgets, Home
<1>11. WorkingSets'
  <2>1. kept' = kept
    BY <1>1 DEF diskVars
  <2> QED
    BY <1>3, <1>4, <2>1 DEF IInv, WorkingSets
<1>12. Recoverable'
  BY <1>1 DEF IInv, Recoverable, diskVars
<1> QED
  BY <1>5, <1>6, <1>7, <1>8, <1>9, <1>10, <1>11, <1>12 DEF IInv

(* The survey holds when the trimming relies on it.                          *)
LEMMA SurveyHolds ==
    ASSUME IInv, NEW p \in Process, Surveyed(p), NEW q \in Process, NEW s \in own[q]
    PROVE  s \in run[p].active /\ (q # p => s \in Foreign(p))
<1>1. own \in [Process -> SUBSET Season]
  BY DEF IInv, TypeOK, LocksTypeOK
<1>2. s \in Season /\ Owned(s)
  BY <1>1 DEF Owned
<1>3. s \in run[p].active
  BY <1>2 DEF IInv, Surveys, Surveyed
<1>4. q # p => s \notin own[p]
  BY <1>2 DEF IInv, OwnersLock
<1> QED
  BY <1>3, <1>4 DEF Foreign

(* What the trimming leaves alone.                                           *)
LEMMA TrimSpares ==
    ASSUME IInv, NEW p \in Process, Trim(p)
    PROVE  /\ \A q \in Process \ {p} : \A f \in File :
                SeasonOf[f] \in own[q] => kept'[f] = kept[f]
           /\ \A q \in Process \ {p} : \A c \in frozen :
                SeasonOfScope(c) \in own[q] => c \in frozen'
           /\ \A f \in File : f \in Pinned(p) => kept'[f] = kept[f]
<1>1. \A q \in Process \ {p} : \A s \in own[q] : s \in Foreign(p)
  BY SurveyHolds DEF Trim
<1>2. \A f \in File : f \notin Victims(p) => kept'[f] = kept[f]
  BY DEF Trim
<1>3. \A f \in Victims(p) : f \notin Pinned(p) /\ SeasonOf[f] \notin Foreign(p)
  BY DEF Victims, Evictable
<1>4. \A c \in Pruned(p) : SeasonOfScope(c) \notin Foreign(p)
  BY DEF Pruned, Prunable
<1>5. frozen' = frozen \ Pruned(p)
  BY DEF Trim
<1> QED
  BY <1>1, <1>2, <1>3, <1>4, <1>5

LEMMA TrimIInv ==
    ASSUME IInv, NEW p \in Process, Trim(p)
    PROVE  IInv'
<1> DEFINE c == [run[p] EXCEPT !.step = "write"]
<1>1. /\ run[p].step = "survey" /\ run[p].seen = Season /\ Readable(p)
      /\ run' = [run EXCEPT ![p] = c]
      /\ kept' = [f \in File |-> IF f \in Victims(p) THEN 0 ELSE kept[f]]
      /\ marked' \subseteq marked /\ older' \subseteq older
      /\ frozen' \subseteq frozen /\ elder' \subseteq elder
      /\ UNCHANGED <<lockVars, staged, spoilt, deaths, failures>>
  BY Standing DEF Trim, Surveyed
<1>2. own \in [Process -> SUBSET Season] /\ budget \in [Season -> Nat \union {Torn}]
      /\ kept \in [File -> 0..LargestBody]
  BY DEF IInv, TypeOK, LocksTypeOK
<1>3. /\ c \in Invocation /\ c.op = run[p].op /\ c.scope = run[p].scope
      /\ c.left = run[p].left /\ c.todo = run[p].todo /\ c.failed = run[p].failed
      /\ c.body = run[p].body
      /\ c.step = "write" /\ c.seen = run[p].seen
      /\ c.active = run[p].active
  BY <1>1, Standing DEF Invocation, Steps
<1> HIDE DEF c
<1>4. run'[p] = c /\ \A q \in Process \ {p} : run'[q] = run[q]
  BY <1>1, Standing
<1>5. TypeOK'
  <2>1. 0 \in 0..LargestBody
    BY CacheAssumption
  <2>2. kept' \in [File -> 0..LargestBody]
    BY <1>1, <1>2, <2>1
  <2>3. run' \in [Process -> Invocation]
    BY <1>1, <1>3, Standing
  <2>4. LocksTypeOK' /\ staged' = staged /\ spoilt' = spoilt /\ deaths' = deaths
        /\ failures' = failures
    BY <1>1 DEF IInv, TypeOK, LocksTypeOK, lockVars
  <2>5. /\ marked' \in SUBSET File /\ older' \in SUBSET (File \X File)
        /\ frozen' \in SUBSET Scope /\ elder' \in SUBSET (Scope \X Scope)
    BY <1>1 DEF IInv, TypeOK
  <2>6. staged \in [File -> 0..LargestBody + 1] /\ spoilt \in SUBSET File
        /\ deaths \in Nat /\ failures \in Nat
    BY DEF IInv, TypeOK
  <2> QED
    BY <2>2, <2>3, <2>4, <2>5, <2>6 DEF TypeOK
<1>6. Courses'
  <2>1. Course(c)
    BY <1>1, <1>3, Standing DEF Course, Away
  <2> QED
    BY <1>4, <2>1 DEF IInv, Courses
<1>7. Holding' /\ Housed' /\ OwnersLock'
  <2>1. UNCHANGED <<holder, lock, own>>
    BY <1>1 DEF lockVars
  <2>2. Holding' /\ OwnersLock'
    BY <1>1, <1>3, <1>4, <2>1 DEF IInv, Holding, OwnersLock, InTransaction
  <2>3. Housed'
    BY <1>3, <1>4, <2>1 DEF IInv, Housed, Home
  <2> QED
    BY <2>2, <2>3
<1>8. ProbersHold'
  BY <1>1, <1>3, <1>4 DEF IInv, ProbersHold, Probing, lockVars
<1>9. Surveys'
  BY <1>1, <1>3, <1>4 DEF IInv, Surveys, Owned, lockVars, InTransaction
<1>10. Budgets'
  <2> SUFFICES ASSUME NEW q \in Process,
                      \/ run'[q].op \in {"freeze", "recover", "prepare"}
                      \/ /\ run'[q].op \in {"reserve", "stage", "finish"}
                         /\ run'[q].step = "write"
               PROVE  budget[SeasonOfScope(run'[q].scope)] \in Nat
    BY <1>1 DEF Budgets, Home, lockVars
  <2>1. CASE q # p
    BY <1>4, <2>1 DEF IInv, Budgets, Home
  <2>2. CASE q = p
    <3>1. run[p].op \notin Homeless /\ run'[p].scope = run[p].scope
      BY <1>3, <1>4, <2>2 DEF Homeless
    <3>2. Home(p) \in own[p]
      BY <3>1, Standing
    <3>3. Home(p) \in run[p].active /\ Home(p) \in Season
      BY <1>1, <1>2, <3>2, SurveyHolds DEF Surveyed
    <3> QED
      BY <1>1, <1>2, <2>2, <3>1, <3>3 DEF Readable, Home
  <2> QED
    BY <2>1, <2>2
<1>11. WorkingSets'
  <2> SUFFICES ASSUME NEW q \in Process,
                      run'[q].op \notin Homeless \union {"freeze", "drop"},
                      NEW f \in run'[q].scope \ (run'[q].left \union run'[q].todo
                                                   \union run'[q].failed)
               PROVE  kept'[f] > 0
    BY DEF WorkingSets
  <2>1. /\ run'[q].op = run[q].op /\ run'[q].scope = run[q].scope
        /\ run'[q].left = run[q].left /\ run'[q].todo = run[q].todo
        /\ run'[q].failed = run[q].failed
    BY <1>3, <1>4
  <2>2. kept[f] > 0
    BY <2>1 DEF IInv, WorkingSets
  <2>3. run[q].scope \in Scope /\ own[q] = {Home(q)}
    BY <2>1, Standing DEF Homeless
  <2>4. f \in File /\ SeasonOf[f] \in own[q]
    BY <2>1, <2>3, HomeTyped DEF Home
  <2>5. CASE q = p
    <3>1. f \in Pinned(p)
      BY <2>1, <2>5 DEF Pinned, Homeless
    <3> QED
      BY <2>2, <2>4, <3>1, TrimSpares
  <2>6. CASE q # p
    BY <2>2, <2>4, <2>6, TrimSpares
  <2> QED
    BY <2>5, <2>6
<1>12. Recoverable'
  BY <1>1 DEF IInv, Recoverable
<1> QED
  BY <1>5, <1>6, <1>7, <1>8, <1>9, <1>10, <1>11, <1>12 DEF IInv
(* A transaction writes for a process that works.                            *)
LEMMA AtWork ==
    ASSUME IInv, NEW p \in Process, NEW o, Writing(p, o), o # "off"
    PROVE  /\ run[p].op = o /\ run[p].step = "write" /\ holder = p
           /\ Loose(run[p]) /\ Course(run[p]) /\ run[p] \in Invocation
           /\ run[p].scope \in Scope /\ own[p] \subseteq Season
           /\ o \notin Homeless => own[p] = {Home(p)} /\ Home(p) \in Season
<1>1. run[p].op = o /\ run[p].step = "write" /\ holder = p
  BY DEF Writing
<1>2. own[p] = IF run[p].op \in Homeless THEN {} ELSE {Home(p)}
  BY Standing
<1>3. Loose(run[p]) /\ run[p].scope \in Scope
  BY <1>1, Standing
<1>4. Course(run[p]) /\ run[p] \in Invocation
  BY Standing
<1>5. Home(p) \in Season
  BY <1>3, HomeTyped DEF Home
<1> QED
  BY <1>1, <1>2, <1>3, <1>4, <1>5

(* What a writer draws on its season's budget leaves a budget.               *)
LEMMA Drawn ==
    ASSUME IInv, NEW p \in Process, NEW o,
           o \in {"freeze", "recover", "reserve", "stage", "finish"},
           Writing(p, o), Consume(Home(p), Additional(p))
    PROVE  /\ budget' \in [Season -> Nat \union {Torn}]
           /\ budget'[Home(p)] \in Nat
           /\ \A s \in Season : budget'[s] = budget[s] \/ s \in own[p]
<1>1. /\ run[p].op = o /\ own[p] = {Home(p)} /\ Home(p) \in Season
      /\ run[p] \in Invocation /\ run[p].step = "write"
  BY AtWork DEF Homeless
<1>2. budget \in [Season -> Nat \union {Torn}]
  BY DEF IInv, TypeOK, LocksTypeOK
<1>3. budget[Home(p)] \in Nat
  BY <1>1 DEF IInv, Budgets
<1>4. Additional(p) \in Nat
  <2>1. run[p].body \in Nat
    BY <1>1, CacheAssumption DEF Invocation
  <2> QED
    BY <1>1, <2>1 DEF Additional, MarkerOf
<1>5. Less(budget[Home(p)], Additional(p)) \in Nat
  BY <1>3, <1>4 DEF Less
<1>6. budget' = [budget EXCEPT ![Home(p)] = Less(budget[Home(p)], Additional(p))]
  BY DEF Consume
<1> QED
  BY <1>1, <1>2, <1>5, <1>6

LEMMA OpenedIInv ==
    ASSUME IInv, NEW p \in Process, Opened(p)
    PROVE  IInv'
<1> DEFINE r == Goto(run[p], "claim")
<1>1. /\ Writing(p, "open") /\ holder' = NoOne /\ Set(p, r)
      /\ UNCHANGED <<lock, own, budget, diskVars, deaths, failures>>
  BY DEF Opened, Release
<1>2. /\ run[p].op = "open" /\ run[p].step = "write" /\ holder = p /\ Loose(run[p])
  BY <1>1, AtWork
<1>3. "claim" \in Ops \ {"off", "finish"} /\ "claim" \notin Fetching
  BY DEF Ops, Fetching, AtFile
<1>4. Course(r) /\ r.op = "claim" /\ r.step \in {"wait", "idle"}
  BY <1>2, <1>3, GotoCourse
<1> HIDE DEF r
<1>5. /\ run' \in [Process -> Invocation]
      /\ Courses' /\ Holding' /\ Housed' /\ OwnersLock' /\ ProbersHold'
      /\ Surveys' /\ Budgets' /\ WorkingSets'
  BY <1>1, <1>2, <1>4, Resting DEF Homeless, diskVars
<1> QED
  BY <1>1, <1>5 DEF IInv, TypeOK, LocksTypeOK, Recoverable, diskVars

LEMMA ClaimIInv ==
    ASSUME IInv, NEW p \in Process, Claim(p)
    PROVE  IInv'
<1>1. /\ Writing(p, "claim") /\ holder' = NoOne
      /\ UNCHANGED <<diskVars, deaths, failures>>
  BY DEF Claim, Release
<1>2. /\ run[p].op = "claim" /\ run[p].step = "write" /\ holder = p
      /\ Loose(run[p]) /\ run[p] \in Invocation
      /\ own[p] = {} /\ Home(p) \in Season /\ run[p].scope \in Scope
  BY <1>1, AtWork, Standing, HomeTyped DEF Homeless, Home
<1>3. /\ own \in [Process -> SUBSET Season] /\ lock \in [Season -> Process \union {NoOne}]
      /\ budget \in [Season -> Nat \union {Torn}]
  BY DEF IInv, TypeOK, LocksTypeOK
<1>4. CASE Claimable(Home(p))
  <2> DEFINE n == [run[p] EXCEPT !.left = run[p].scope]
             r == IF run[p].scope \in frozen THEN Goto(n, "recover")
                  ELSE Goto(run[p], "freeze")
  <2>1. /\ lock' = [lock EXCEPT ![Home(p)] = p] /\ own' = [own EXCEPT ![p] = {Home(p)}]
        /\ budget' = [budget EXCEPT ![Home(p)] = 0] /\ Set(p, r)
        /\ lock[Home(p)] = NoOne
    BY <1>2, <1>4 DEF Claim, TakeSeason, Claimable
  <2>2. /\ Loose(n) /\ n.scope = run[p].scope /\ n.left = run[p].scope /\ n.left # {}
        /\ n.todo = run[p].todo /\ n.failed = run[p].failed
    <3>1. run[p].scope \in SUBSET File /\ run[p].scope # {}
      BY <1>2, CacheAssumption
    <3> QED
      BY <1>2, <3>1 DEF Loose, Invocation
  <2> HIDE DEF n
  <2>3. {"recover", "freeze"} \subseteq Ops \ {"off", "finish"} /\ {"recover", "freeze"} \cap Fetching = {}
    BY DEF Ops, Fetching, AtFile
  <2>4. /\ Course(r) /\ r.op \in {"recover", "freeze"} /\ r.step \in {"wait", "idle"}
        /\ r.scope = run[p].scope
        /\ r.op = "recover" => r.left = r.scope
    BY <1>2, <2>2, <2>3, GotoCourse DEF Keeps
  <2> HIDE DEF r
  <2>5. /\ own'[p] = {Home(p)} /\ Home(p) = SeasonOfScope(r.scope)
        /\ \A q \in Process \ {p} : own'[q] = own[q]
        /\ \A s \in Season : budget'[s] = budget[s] \/ s \in own'[p]
        /\ budget'[Home(p)] \in Nat
    BY <1>2, <1>3, <2>1, <2>4 DEF Home
  <2>6. \A s \in Season : lock'[s] = p <=> s \in own'[p]
    <3>1. \A s \in Season : lock[s] # p
      BY <1>2, Steady
    <3> QED
      BY <1>2, <1>3, <2>1, <2>5, <3>1
  <2>7. \A q \in Process \ {p} : \A s \in Season : lock'[s] = q <=> lock[s] = q
    BY <1>2, <1>3, <2>1, LocksAssumption
  <2>8. kept' = kept
    BY <1>1 DEF diskVars
  <2>9. r.op \notin Homeless
    BY <2>4 DEF Homeless
  <2>13. /\ r.op \notin Homeless \union {"freeze", "drop"} =>
              \A f \in r.scope \ (r.left \union r.todo \union r.failed) : kept'[f] > 0
         /\ own'[p] \subseteq Season
         /\ own'[p] = IF r.op \in Homeless THEN {} ELSE {SeasonOfScope(r.scope)}
    BY <1>2, <2>4, <2>5, <2>9
  <2>10. /\ run' \in [Process -> Invocation]
        /\ Courses' /\ Holding' /\ Housed' /\ OwnersLock' /\ ProbersHold'
        /\ Surveys' /\ Budgets' /\ WorkingSets'
    BY <1>2, <2>1, <2>4, <2>5, <2>6, <2>7, <2>8, <2>13, Settled
  <2>11. LocksTypeOK'
    BY <1>1, <1>2, <1>3, <2>1 DEF LocksTypeOK
  <2> QED
    BY <1>1, <2>10, <2>11 DEF IInv, TypeOK, Recoverable, diskVars
<1>5. CASE ~Claimable(Home(p))
  <2>1. Set(p, Off) /\ UNCHANGED <<lock, own, budget>>
    BY <1>5 DEF Claim
  <2>2. Course(Off) /\ Off.op = "off" /\ Off.step = "idle"
    BY OffCourse DEF Off
  <2>3. /\ run' \in [Process -> Invocation]
        /\ Courses' /\ Holding' /\ Housed' /\ OwnersLock' /\ ProbersHold'
        /\ Surveys' /\ Budgets' /\ WorkingSets'
    BY <1>1, <1>2, <2>1, <2>2, Resting DEF Homeless, diskVars
  <2> QED
    BY <1>1, <2>1, <2>3 DEF IInv, TypeOK, LocksTypeOK, Recoverable, diskVars
<1> QED
  BY <1>4, <1>5

LEMMA FreezeIInv ==
    ASSUME IInv, NEW p \in Process, Freeze(p)
    PROVE  IInv'
<1> DEFINE n == [run[p] EXCEPT !.left = run[p].scope]
           r == Goto(n, "recover")
<1>1. /\ Writing(p, "freeze") /\ holder' = NoOne /\ Set(p, r)
      /\ Consume(Home(p), Additional(p))
      /\ frozen' = frozen \union {run[p].scope}
      /\ elder' = elder \union (frozen \X {run[p].scope})
      /\ UNCHANGED <<lock, own, marked, staged, spoilt, kept, older, deaths, failures>>
  BY DEF Freeze, Release
<1>2. /\ run[p].op = "freeze" /\ run[p].step = "write" /\ holder = p
      /\ Loose(run[p]) /\ run[p] \in Invocation
      /\ own[p] = {Home(p)} /\ Home(p) \in Season /\ run[p].scope \in Scope
  BY <1>1, AtWork DEF Homeless
<1>3. /\ budget' \in [Season -> Nat \union {Torn}] /\ budget'[Home(p)] \in Nat
      /\ \A s \in Season : budget'[s] = budget[s] \/ s \in own[p]
  BY <1>1, Drawn
<1>4. /\ Loose(n) /\ n.scope = run[p].scope /\ n.left = run[p].scope /\ n.left # {}
  <2>1. run[p].scope \in SUBSET File /\ run[p].scope # {}
    BY <1>2, CacheAssumption
  <2> QED
    BY <1>2, <2>1 DEF Loose, Invocation
<1> HIDE DEF n
<1>5. "recover" \in Ops \ {"off", "finish"} /\ "recover" \notin Fetching
  BY DEF Ops, Fetching, AtFile
<1>6. /\ Course(r) /\ r.op = "recover" /\ r.step \in {"wait", "idle"}
      /\ r.scope = run[p].scope /\ r.left = r.scope
  BY <1>4, <1>5, GotoCourse DEF Keeps
<1> HIDE DEF r
<1>7. /\ run' \in [Process -> Invocation]
      /\ Courses' /\ Holding' /\ Housed' /\ OwnersLock' /\ ProbersHold'
      /\ Surveys' /\ Budgets' /\ WorkingSets'
  BY <1>1, <1>2, <1>3, <1>6, Resting DEF Homeless, Home
<1>8. LocksTypeOK' /\ frozen' \in SUBSET Scope /\ elder' \in SUBSET (Scope \X Scope)
  BY <1>1, <1>2, <1>3 DEF IInv, TypeOK, LocksTypeOK
<1> QED
  BY <1>1, <1>7, <1>8 DEF IInv, TypeOK, Recoverable

LEMMA PrepareIInv ==
    ASSUME IInv, NEW p \in Process, Prepare(p)
    PROVE  IInv'
<1> DEFINE r == Goto(run[p], "reserve")
<1>1. /\ Writing(p, "prepare") /\ holder' = NoOne /\ Set(p, r)
      /\ budget' = [budget EXCEPT ![Home(p)] = Additional(p)]
      /\ UNCHANGED <<lock, own, diskVars, deaths, failures>>
  BY DEF Prepare, Release
<1>2. /\ run[p].op = "prepare" /\ run[p].step = "write" /\ holder = p
      /\ Loose(run[p]) /\ Course(run[p])
      /\ own[p] = {Home(p)} /\ Home(p) \in Season /\ run[p].scope \in Scope
  BY <1>1, AtWork DEF Homeless
<1>3. Additional(p) \in Nat
  <2>1. Missing(p) \subseteq File
    BY <1>2, CacheAssumption DEF Missing
  <2>2. IsFiniteSet(Missing(p))
    BY <2>1, CacheAssumption, FS_Subset
  <2>3. Cardinality(Missing(p)) \in Nat
    BY <2>2, FS_CardinalityType
  <2>4. Worst \in Nat
    BY CacheAssumption DEF Worst
  <2> QED
    BY <1>2, <2>3, <2>4 DEF Additional
<1>4. /\ budget' \in [Season -> Nat \union {Torn}] /\ budget'[Home(p)] \in Nat
      /\ \A s \in Season : budget'[s] = budget[s] \/ s \in own[p]
  BY <1>1, <1>2, <1>3 DEF IInv, TypeOK, LocksTypeOK
<1>5. "reserve" \in Ops \ {"off", "finish"} /\ run[p].todo # {} /\ run[p].left = {}
  BY <1>2 DEF Ops, Course, Fetching
<1>6. /\ Course(r) /\ r.op = "reserve" /\ r.step \in {"wait", "idle"}
      /\ Keeps(r, run[p]) /\ r.left = {}
  BY <1>2, <1>5, GotoCourse
<1> HIDE DEF r
<1>7. \A f \in r.scope \ (r.left \union r.todo \union r.failed) : kept'[f] > 0
  BY <1>1, <1>2, <1>5, <1>6 DEF IInv, WorkingSets, Homeless, Keeps, diskVars
<1>8. /\ run' \in [Process -> Invocation]
      /\ Courses' /\ Holding' /\ Housed' /\ OwnersLock' /\ ProbersHold'
      /\ Surveys' /\ Budgets' /\ WorkingSets'
  BY <1>1, <1>2, <1>4, <1>6, <1>7, Resting DEF Homeless, Keeps, diskVars
<1>9. LocksTypeOK'
  BY <1>1, <1>4 DEF IInv, TypeOK, LocksTypeOK
<1> QED
  BY <1>1, <1>8, <1>9 DEF IInv, TypeOK, Recoverable, diskVars

LEMMA ReserveIInv ==
    ASSUME IInv, NEW p \in Process, Reserve(p)
    PROVE  IInv'
<1> DEFINE r == Goto(run[p], "post")
<1>1. /\ Writing(p, "reserve") /\ holder' = NoOne /\ Set(p, r)
      /\ Consume(Home(p), Additional(p)) /\ marked' = marked \union {At(p)}
      /\ UNCHANGED <<lock, own, staged, spoilt, kept, older, frozen, elder, deaths, failures>>
  BY DEF Reserve, Release
<1>2. /\ run[p].op = "reserve" /\ run[p].step = "write" /\ holder = p
      /\ Loose(run[p]) /\ Course(run[p])
      /\ own[p] = {Home(p)} /\ Home(p) \in Season /\ run[p].scope \in Scope
  BY <1>1, AtWork DEF Homeless
<1>3. /\ budget' \in [Season -> Nat \union {Torn}]
      /\ \A s \in Season : budget'[s] = budget[s] \/ s \in own[p]
  BY <1>1, Drawn
<1>4. "post" \in Ops \ {"off", "finish"} /\ run[p].todo # {} /\ run[p].left = {}
  BY <1>2 DEF Ops, Course, Fetching, AtFile
<1>5. At(p) \in File
  <2>1. At(p) \in run[p].todo
    BY <1>2, <1>4 DEF At
  <2> QED
    BY <1>2, <2>1, CacheAssumption DEF Loose
<1>6. /\ Course(r) /\ r.op = "post" /\ r.step \in {"wait", "idle"}
      /\ Keeps(r, run[p]) /\ r.left = {}
  BY <1>2, <1>4, GotoCourse
<1> HIDE DEF r
<1>7. \A f \in r.scope \ (r.left \union r.todo \union r.failed) : kept'[f] > 0
  BY <1>1, <1>2, <1>4, <1>6 DEF IInv, WorkingSets, Homeless, Keeps
<1>8. /\ run' \in [Process -> Invocation]
      /\ Courses' /\ Holding' /\ Housed' /\ OwnersLock' /\ ProbersHold'
      /\ Surveys' /\ Budgets' /\ WorkingSets'
  BY <1>1, <1>2, <1>3, <1>6, <1>7, Resting DEF Homeless, Keeps
<1>9. LocksTypeOK' /\ marked' \in SUBSET File
  BY <1>1, <1>3, <1>5 DEF IInv, TypeOK, LocksTypeOK
<1> QED
  BY <1>1, <1>8, <1>9 DEF IInv, TypeOK, Recoverable

LEMMA ReferencesIInv ==
    ASSUME IInv, NEW p \in Process, References(p)
    PROVE  IInv'
<1> DEFINE r == Goto(run[p], "drop")
<1>1. /\ Writing(p, "references") /\ holder' = NoOne /\ Set(p, r)
      /\ UNCHANGED <<lock, own, budget, diskVars, deaths, failures>>
  BY DEF References, Release
<1>2. /\ run[p].op = "references" /\ run[p].step = "write" /\ holder = p
      /\ Loose(run[p])
  BY <1>1, AtWork
<1>3. "drop" \in Ops \ {"off", "finish"} /\ "drop" \notin Fetching
  BY DEF Ops, Fetching, AtFile
<1>4. /\ Course(r) /\ r.op = "drop" /\ r.step \in {"wait", "idle"} /\ r.scope = run[p].scope
  BY <1>2, <1>3, GotoCourse DEF Keeps
<1> HIDE DEF r
<1>5. /\ run' \in [Process -> Invocation]
      /\ Courses' /\ Holding' /\ Housed' /\ OwnersLock' /\ ProbersHold'
      /\ Surveys' /\ Budgets' /\ WorkingSets'
  BY <1>1, <1>2, <1>4, Resting DEF Homeless, diskVars
<1> QED
  BY <1>1, <1>5 DEF IInv, TypeOK, LocksTypeOK, Recoverable, diskVars
LEMMA RecoverIInv ==
    ASSUME IInv, NEW p \in Process, Recover(p)
    PROVE  IInv'
<1> DEFINE f == At(p)
           n == [run[p] EXCEPT !.left = @ \ {f}]
           m == [n EXCEPT !.todo = @ \union {f}]
<1>1. /\ Writing(p, "recover") /\ holder' = NoOne
      /\ UNCHANGED <<lock, own, marked, spoilt, frozen, elder, deaths, failures>>
  BY DEF Recover, Release
<1>2. /\ run[p].op = "recover" /\ run[p].step = "write" /\ holder = p
      /\ Loose(run[p]) /\ Course(run[p]) /\ run[p] \in Invocation
      /\ own[p] = {Home(p)} /\ Home(p) \in Season /\ run[p].scope \in Scope
  BY <1>1, AtWork DEF Homeless
<1>3. f \in run[p].left /\ f \in run[p].scope /\ f \in File
  <2>1. f \in run[p].left
    BY <1>2 DEF Course, At
  <2> QED
    BY <1>2, <2>1, CacheAssumption DEF Loose
<1> HIDE DEF f
<1>4. /\ n \in Invocation /\ n.scope = run[p].scope /\ n.todo = run[p].todo
      /\ n.left = run[p].left \ {f} /\ n.failed = run[p].failed
  BY <1>2 DEF Invocation
<1>5. Loose(n)
  BY <1>2, <1>4 DEF Loose
<1> HIDE DEF n
<1>6. /\ m \in Invocation /\ m.scope = n.scope /\ m.todo = n.todo \union {f}
      /\ m.left = n.left /\ m.failed = n.failed
  BY <1>3, <1>4 DEF Invocation
<1>7. Loose(m)
  BY <1>3, <1>4, <1>5, <1>6 DEF Loose
<1> HIDE DEF m
<1>8. budget[Home(p)] \in Nat /\ budget \in [Season -> Nat \union {Torn}]
      /\ kept \in [File -> 0..LargestBody] /\ staged \in [File -> 0..LargestBody + 1]
  BY <1>2 DEF IInv, Budgets, TypeOK, LocksTypeOK
<1>9. \A g \in run[p].scope \ (run[p].left \union run[p].todo \union run[p].failed) : kept[g] > 0
  BY <1>2 DEF IInv, WorkingSets, Homeless
<1>10. CASE kept[f] > 0 /\ Set(p, Decide(n)) /\ UNCHANGED <<budget, staged, kept, older>>
  <2> DEFINE r == Decide(n)
  <2>1. /\ Course(r) /\ r.op \in {"recover", "prepare", "references", "drop"}
        /\ r.step \in {"wait", "idle"} /\ Keeps(r, n) /\ r.left = n.left
    BY <1>5, DecideCourse
  <2> HIDE DEF r
  <2>2. \A g \in r.scope \ (r.left \union r.todo \union r.failed) : kept[g] > 0
    BY <1>4, <1>9, <1>10, <2>1 DEF Keeps
  <2>3. r.scope = run[p].scope /\ r.op \notin Homeless /\ run[p].op \notin Homeless
    BY <1>2, <1>4, <2>1 DEF Keeps, Homeless
  <2>4. Set(p, r)
    BY <1>10 DEF r
  <2>5. /\ run' \in [Process -> Invocation]
        /\ Courses' /\ Holding' /\ Housed' /\ OwnersLock' /\ ProbersHold'
        /\ Surveys' /\ Budgets' /\ WorkingSets'
    BY <1>1, <1>2, <1>8, <1>10, <2>1, <2>2, <2>3, <2>4, Resting DEF Home
  <2> QED
    BY <1>1, <1>10, <2>5 DEF IInv, TypeOK, LocksTypeOK, Recoverable
<1>11. CASE Set(p, Decide(m)) /\ UNCHANGED <<budget, staged, kept, older>>
  <2> DEFINE r == Decide(m)
  <2>1. /\ Course(r) /\ r.op \in {"recover", "prepare", "references", "drop"}
        /\ r.step \in {"wait", "idle"} /\ Keeps(r, m) /\ r.left = m.left
    BY <1>7, DecideCourse
  <2> HIDE DEF r
  <2>2. \A g \in r.scope \ (r.left \union r.todo \union r.failed) : kept[g] > 0
    BY <1>4, <1>6, <1>9, <2>1 DEF Keeps
  <2>3. r.scope = run[p].scope /\ r.op \notin Homeless /\ run[p].op \notin Homeless
    BY <1>2, <1>4, <1>6, <2>1 DEF Keeps, Homeless
  <2>4. Set(p, r)
    BY <1>11 DEF r
  <2>5. /\ run' \in [Process -> Invocation]
        /\ Courses' /\ Holding' /\ Housed' /\ OwnersLock' /\ ProbersHold'
        /\ Surveys' /\ Budgets' /\ WorkingSets'
    BY <1>1, <1>2, <1>8, <1>11, <2>1, <2>2, <2>3, <2>4, Resting DEF Home
  <2> QED
    BY <1>1, <1>11, <2>5 DEF IInv, TypeOK, LocksTypeOK, Recoverable
<1>12. CASE Set(p, GiveUp(p)) /\ UNCHANGED <<budget, staged, kept, older>>
  <2>1. /\ run' \in [Process -> Invocation]
        /\ Courses' /\ Holding' /\ Housed' /\ OwnersLock' /\ ProbersHold'
        /\ Surveys' /\ Budgets' /\ WorkingSets'
    BY <1>1, <1>2, <1>12, GivenUp
  <2> QED
    BY <1>1, <1>12, <2>1 DEF IInv, TypeOK, LocksTypeOK, Recoverable
<1>13. CASE staged[f] > 0 /\ f \notin spoilt /\ Publish(p, f, staged[f] - 1) /\ Set(p, Decide(n))
  <2> DEFINE r == Decide(n)
  <2>1. /\ Course(r) /\ r.op \in {"recover", "prepare", "references", "drop"}
        /\ r.step \in {"wait", "idle"} /\ Keeps(r, n) /\ r.left = n.left
    BY <1>5, DecideCourse
  <2> HIDE DEF r
  <2>2. /\ kept' = [kept EXCEPT ![f] = staged[f] - 1]
        /\ staged' = [staged EXCEPT ![f] = 0]
        /\ older' = older \union ({g \in File : kept[g] > 0} \X {f})
        /\ Consume(Home(p), Additional(p)) /\ Set(p, r)
    BY <1>13 DEF Publish, r
  <2>3. staged[f] - 1 > 0 /\ staged[f] - 1 \in 0..LargestBody
    <3>1. staged[f] > 1 /\ staged[f] \in 0..LargestBody + 1
      BY <1>3, <1>8, <1>13 DEF IInv, Recoverable
    <3> QED
      BY <3>1, CacheAssumption
  <2>4. /\ kept' \in [File -> 0..LargestBody] /\ kept'[f] > 0
        /\ \A g \in File : kept[g] > 0 => kept'[g] > 0
        /\ \A g \in File \ {f} : kept'[g] = kept[g]
        /\ staged' \in [File -> 0..LargestBody + 1]
        /\ \A g \in File : staged'[g] = staged[g] \/ staged'[g] = 0
    <3>1. 0 \in 0..LargestBody + 1
      BY CacheAssumption
    <3> QED
      BY <1>3, <1>8, <2>2, <2>3, <3>1
  <2>5. \A g \in r.scope \ (r.left \union r.todo \union r.failed) : kept'[g] > 0
    <3>1. run[p].scope \subseteq File
      BY <1>2, CacheAssumption
    <3> QED
      BY <1>4, <1>9, <2>1, <2>4, <3>1 DEF Keeps
  <2>6. r.scope = run[p].scope /\ r.op \notin Homeless /\ run[p].op \notin Homeless
    BY <1>2, <1>4, <2>1 DEF Keeps, Homeless
  <2>7. /\ budget' \in [Season -> Nat \union {Torn}] /\ budget'[Home(p)] \in Nat
        /\ \A s \in Season : budget'[s] = budget[s] \/ s \in own[p]
    BY <1>1, <2>2, Drawn
  <2>8. /\ run' \in [Process -> Invocation]
        /\ Courses' /\ Holding' /\ Housed' /\ OwnersLock' /\ ProbersHold'
        /\ Surveys' /\ Budgets' /\ WorkingSets'
    BY <1>1, <1>2, <2>1, <2>2, <2>4, <2>5, <2>6, <2>7, Resting DEF Home
  <2>9. LocksTypeOK' /\ older' \in SUBSET (File \X File)
    BY <1>1, <1>3, <2>2, <2>7 DEF IInv, TypeOK, LocksTypeOK
  <2>10. Recoverable'
    BY <1>1, <1>8, <2>4 DEF IInv, Recoverable
  <2> QED
    BY <1>1, <2>4, <2>8, <2>9, <2>10 DEF IInv, TypeOK
<1> QED
  BY <1>10, <1>11, <1>12, <1>13 DEF Recover, f, n, m

LEMMA DownloadIInv ==
    ASSUME IInv, NEW p \in Process, Download(p)
    PROVE  IInv'
<1>1. /\ run[p].op = "post" /\ UNCHANGED <<lockVars, diskVars, deaths, failures>>
  BY DEF Download
<1>2. UNCHANGED <<holder, lock, own, budget, kept, staged, spoilt>>
  BY <1>1 DEF lockVars, diskVars
<1>3. /\ Course(run[p]) /\ Loose(run[p]) /\ run[p] \in Invocation /\ run[p].step = "idle"
      /\ run[p].op \notin Homeless /\ run[p].todo # {} /\ run[p].left = {}
  BY <1>1, Standing DEF Course, Away, Homeless, Fetching, AtFile
<1>4. SUFFICES /\ run' \in [Process -> Invocation]
               /\ Courses' /\ Holding' /\ Housed' /\ OwnersLock' /\ ProbersHold'
               /\ Surveys' /\ Budgets' /\ WorkingSets'
  BY <1>1, <1>2 DEF IInv, TypeOK, LocksTypeOK, Recoverable, lockVars, diskVars
<1>5. ASSUME NEW b \in 1..LargestBody, NEW sound \in BOOLEAN,
             Set(p, Goto([run[p] EXCEPT !.body = b, !.sound = sound], "stage"))
      PROVE  /\ run' \in [Process -> Invocation]
             /\ Courses' /\ Holding' /\ Housed' /\ OwnersLock' /\ ProbersHold'
             /\ Surveys' /\ Budgets' /\ WorkingSets'
  <2> DEFINE n == [run[p] EXCEPT !.body = b, !.sound = sound]
             r == Goto(n, "stage")
  <2>1. b \in 0..LargestBody /\ b > 0
    BY CacheAssumption
  <2>2. /\ n \in Invocation /\ n.scope = run[p].scope /\ n.todo = run[p].todo
        /\ n.left = run[p].left /\ n.failed = run[p].failed /\ n.body = b
    BY <1>3, <2>1 DEF Invocation
  <2>3. Loose(n)
    BY <1>3, <2>2 DEF Loose
  <2> HIDE DEF n
  <2>4. "stage" \in Ops \ {"off", "finish"}
    BY DEF Ops
  <2>5. /\ Course(r) /\ r.op = "stage" /\ r.step \in {"wait", "idle"}
        /\ Keeps(r, n) /\ r.left = {}
    BY <1>3, <2>1, <2>2, <2>3, <2>4, GotoCourse
  <2>6. Set(p, r)
    BY <1>5 DEF n
  <2> HIDE DEF r
  <2>7. \A g \in r.scope \ (r.left \union r.todo \union r.failed) : kept[g] > 0
    BY <1>1, <1>3, <2>2, <2>5 DEF IInv, WorkingSets, Homeless, Keeps
  <2>8. r.scope = run[p].scope /\ r.op \notin Homeless
    BY <2>2, <2>5 DEF Keeps, Homeless
  <2> QED
    BY <1>2, <1>3, <2>5, <2>6, <2>7, <2>8, Resting
<1>6. CASE Set(p, GiveUp(p))
  BY <1>1, <1>2, <1>3, <1>6, GivenUp
<1>7. CASE Set(p, Goto(run[p], "drop"))
  <2> DEFINE r == Goto(run[p], "drop")
  <2>1. "drop" \in Ops \ {"off", "finish"} /\ "drop" \notin Fetching
    BY DEF Ops, Fetching, AtFile
  <2>2. /\ Course(r) /\ r.op = "drop" /\ r.step \in {"wait", "idle"} /\ r.scope = run[p].scope
    BY <1>3, <2>1, GotoCourse DEF Keeps
  <2> HIDE DEF r
  <2>3. Set(p, r)
    BY <1>7 DEF r
  <2>4. r.op \notin Homeless
    BY <2>2 DEF Homeless
  <2> QED
    BY <1>2, <1>3, <2>2, <2>3, <2>4, Resting
<1> QED
  BY <1>5, <1>6, <1>7 DEF Download

LEMMA StageIInv ==
    ASSUME IInv, NEW p \in Process, Stage(p)
    PROVE  IInv'
<1>1. /\ Writing(p, "stage") /\ Consume(Home(p), Additional(p))
      /\ staged' = [staged EXCEPT ![At(p)] = 1 + run[p].body]
      /\ UNCHANGED <<lock, own, marked, kept, older, frozen, elder, deaths, failures>>
  BY DEF Stage
<1>2. /\ run[p].op = "stage" /\ run[p].step = "write" /\ holder = p
      /\ Loose(run[p]) /\ Course(run[p]) /\ run[p] \in Invocation
      /\ own[p] = {Home(p)} /\ Home(p) \in Season /\ run[p].scope \in Scope
  BY <1>1, AtWork DEF Homeless
<1>3. /\ budget' \in [Season -> Nat \union {Torn}]
      /\ \A s \in Season : budget'[s] = budget[s] \/ s \in own[p]
  BY <1>1, Drawn
<1>4. At(p) \in File /\ run[p].todo # {} /\ run[p].left = {}
  <2>1. run[p].todo # {} /\ run[p].left = {}
    BY <1>2 DEF Course, Fetching, AtFile
  <2>2. At(p) \in run[p].todo
    BY <1>2, <2>1 DEF At
  <2> QED
    BY <1>2, <2>1, <2>2, CacheAssumption DEF Loose
<1>5. 1 + run[p].body > 1 /\ 1 + run[p].body \in 0..LargestBody + 1
  BY <1>2, CacheAssumption DEF Course, Invocation
<1>6. staged \in [File -> 0..LargestBody + 1] /\ spoilt \in SUBSET File
  BY DEF IInv, TypeOK
<1>7. staged' \in [File -> 0..LargestBody + 1]
  BY <1>1, <1>5, <1>6
<1>8. spoilt \subseteq spoilt' => Recoverable'
  BY <1>1, <1>4, <1>5, <1>6 DEF IInv, Recoverable
<1>9. LocksTypeOK' \/ holder' \notin Process \union {NoOne}
  BY <1>1, <1>3 DEF IInv, TypeOK, LocksTypeOK
<1>10. CASE run[p].sound
  <2> DEFINE r == [run[p] EXCEPT !.op = "finish", !.step = "survey"]
  <2>1. Set(p, r) /\ holder' = holder /\ spoilt' = spoilt
    BY <1>10 DEF Stage
  <2>2. /\ r \in Invocation /\ r.op = "finish" /\ r.step = "survey"
        /\ r.scope = run[p].scope /\ r.left = run[p].left /\ r.todo = run[p].todo
        /\ r.failed = run[p].failed /\ r.body = run[p].body
    BY <1>2 DEF Invocation, Ops, Steps
  <2> HIDE DEF r
  <2>3. Course(r)
    BY <1>2, <1>4, <2>2 DEF Course, Away
  <2>4. \A g \in r.scope \ (r.left \union r.todo \union r.failed) : kept[g] > 0
    BY <1>2, <2>2 DEF IInv, WorkingSets, Homeless
  <2>5. /\ run' \in [Process -> Invocation]
        /\ Courses' /\ Holding' /\ Housed' /\ OwnersLock' /\ ProbersHold'
        /\ Surveys' /\ Budgets' /\ WorkingSets'
    BY <1>1, <1>2, <1>3, <2>1, <2>2, <2>3, <2>4, Resting DEF Homeless
  <2> QED
    BY <1>1, <1>2, <1>7, <1>8, <1>9, <2>1, <2>5 DEF IInv, TypeOK
<1>11. CASE ~run[p].sound
  <2>1. Set(p, GiveUp(p)) /\ holder' = NoOne /\ spoilt' = spoilt \union {At(p)}
    BY <1>11 DEF Stage, Release
  <2>2. /\ run' \in [Process -> Invocation]
        /\ Courses' /\ Holding' /\ Housed' /\ OwnersLock' /\ ProbersHold'
        /\ Surveys' /\ Budgets' /\ WorkingSets'
    BY <1>1, <1>2, <1>3, <2>1, GivenUp
  <2> QED
    BY <1>1, <1>4, <1>6, <1>7, <1>8, <1>9, <2>1, <2>2 DEF IInv, TypeOK
<1> QED
  BY <1>10, <1>11

LEMMA FinishIInv ==
    ASSUME IInv, NEW p \in Process, Finish(p)
    PROVE  IInv'
<1> DEFINE f == At(p)
           n == [run[p] EXCEPT !.todo = @ \ {f}, !.body = 0]
           r == Proceed(n)
<1>1. /\ Writing(p, "finish") /\ holder' = NoOne /\ Set(p, r)
      /\ Publish(p, f, run[p].body)
      /\ UNCHANGED <<lock, own, marked, spoilt, frozen, elder, deaths, failures>>
  BY DEF Finish, Release
<1>2. /\ run[p].op = "finish" /\ run[p].step = "write" /\ holder = p
      /\ Loose(run[p]) /\ Course(run[p]) /\ run[p] \in Invocation
      /\ own[p] = {Home(p)} /\ Home(p) \in Season /\ run[p].scope \in Scope
  BY <1>1, AtWork DEF Homeless
<1>3. f \in File /\ run[p].left = {}
  <2>1. run[p].todo # {} /\ run[p].left = {}
    BY <1>2 DEF Course, Fetching, AtFile
  <2>2. f \in run[p].todo
    BY <1>2, <2>1 DEF At
  <2> QED
    BY <1>2, <2>1, <2>2, CacheAssumption DEF Loose
<1>4. /\ kept' = [kept EXCEPT ![f] = run[p].body]
      /\ staged' = [staged EXCEPT ![f] = 0]
      /\ older' = older \union ({g \in File : kept[g] > 0} \X {f})
      /\ Consume(Home(p), Additional(p))
  BY <1>1 DEF Publish
<1> HIDE DEF f
<1>5. /\ n \in Invocation /\ n.scope = run[p].scope /\ n.todo = run[p].todo \ {f}
      /\ n.left = run[p].left /\ n.failed = run[p].failed
  <2>1. 0 \in 0..LargestBody
    BY CacheAssumption
  <2> QED
    BY <1>2, <2>1 DEF Invocation
<1>6. Loose(n)
  BY <1>2, <1>5 DEF Loose
<1> HIDE DEF n
<1>7. /\ Course(r) /\ r.op \in {"reserve", "references", "drop"}
      /\ r.step \in {"wait", "idle"} /\ Keeps(r, n) /\ r.left = {}
  BY <1>6, ProceedCourse
<1> HIDE DEF r
<1>8. /\ kept \in [File -> 0..LargestBody] /\ staged \in [File -> 0..LargestBody + 1]
      /\ run[p].body > 0 /\ run[p].body \in 0..LargestBody /\ 0 \in 0..LargestBody + 1
  BY <1>2, CacheAssumption DEF IInv, TypeOK, Course, Invocation
<1>9. /\ kept' \in [File -> 0..LargestBody] /\ kept'[f] > 0
      /\ \A g \in File : kept[g] > 0 => kept'[g] > 0
      /\ staged' \in [File -> 0..LargestBody + 1]
      /\ \A g \in File : staged'[g] = staged[g] \/ staged'[g] = 0
  BY <1>3, <1>4, <1>8
<1>10. \A g \in r.scope \ (r.left \union r.todo \union r.failed) : kept'[g] > 0
  <2>1. run[p].scope \subseteq File
    BY <1>2, CacheAssumption
  <2>2. \A g \in run[p].scope \ (run[p].left \union run[p].todo \union run[p].failed) : kept[g] > 0
    BY <1>2 DEF IInv, WorkingSets, Homeless
  <2> QED
    BY <1>3, <1>5, <1>7, <1>9, <2>1, <2>2 DEF Keeps
<1>11. r.scope = run[p].scope /\ r.op \notin Homeless /\ run[p].op \notin Homeless
  BY <1>2, <1>5, <1>7 DEF Keeps, Homeless
<1>12. /\ budget' \in [Season -> Nat \union {Torn}]
       /\ \A s \in Season : budget'[s] = budget[s] \/ s \in own[p]
  BY <1>1, <1>4, Drawn
<1>13. /\ run' \in [Process -> Invocation]
       /\ Courses' /\ Holding' /\ Housed' /\ OwnersLock' /\ ProbersHold'
       /\ Surveys' /\ Budgets' /\ WorkingSets'
  BY <1>1, <1>2, <1>7, <1>9, <1>10, <1>11, <1>12, Resting
<1>14. LocksTypeOK' /\ older' \in SUBSET (File \X File)
  BY <1>1, <1>3, <1>4, <1>12 DEF IInv, TypeOK, LocksTypeOK
<1>15. Recoverable'
  BY <1>1, <1>8, <1>9 DEF IInv, Recoverable
<1> QED
  BY <1>1, <1>9, <1>13, <1>14, <1>15 DEF IInv, TypeOK

(* A process that drops its cache, or dies, leaves no lock behind.           *)
LEMMA Left ==
    ASSUME IInv, NEW p \in Process, ReleaseSeasons(p), Set(p, Off),
           holder' = holder \/ holder = p,
           UNCHANGED <<budget, kept>>
    PROVE  /\ run' \in [Process -> Invocation]
           /\ Courses' /\ Holding' /\ Housed' /\ OwnersLock' /\ ProbersHold'
           /\ Surveys' /\ Budgets' /\ WorkingSets'
           /\ lock' \in [Season -> Process \union {NoOne}]
           /\ own' \in [Process -> SUBSET Season]
<1>1. /\ own \in [Process -> SUBSET Season] /\ lock \in [Season -> Process \union {NoOne}]
  BY DEF IInv, TypeOK, LocksTypeOK
<1>2. /\ lock' = [s \in Season |-> IF lock[s] = p THEN NoOne ELSE lock[s]]
      /\ own' = [own EXCEPT ![p] = {}]
  BY DEF ReleaseSeasons
<1>3. Course(Off) /\ Off.op = "off" /\ Off.step = "idle" /\ Off.op \in Homeless
  BY OffCourse DEF Off, Homeless
<1>4. /\ own'[p] = {} /\ \A q \in Process \ {p} : own'[q] = own[q]
      /\ \A s \in Season : lock'[s] # p
      /\ \A q \in Process \ {p} : \A s \in Season : lock'[s] = q <=> lock[s] = q
  BY <1>1, <1>2, LocksAssumption
<1>5. /\ run' \in [Process -> Invocation]
      /\ Courses' /\ Holding' /\ Housed' /\ OwnersLock' /\ ProbersHold'
      /\ Surveys' /\ Budgets' /\ WorkingSets'
  BY <1>3, <1>4, Settled
<1> QED
  BY <1>1, <1>2, <1>5

LEMMA DropIInv ==
    ASSUME IInv, NEW p \in Process, Drop(p) \/ Die(p)
    PROVE  IInv'
<1>1. /\ ReleaseSeasons(p) /\ Set(p, Off) /\ holder' \in {holder, NoOne}
      /\ holder' = holder \/ holder = p
      /\ UNCHANGED <<budget, diskVars, failures>>
      /\ deaths' = deaths \/ deaths' = deaths + 1
  BY DEF Drop, Die
<1>2. UNCHANGED <<budget, kept, staged, spoilt>>
  BY <1>1 DEF diskVars
<1>3. /\ run' \in [Process -> Invocation]
      /\ Courses' /\ Holding' /\ Housed' /\ OwnersLock' /\ ProbersHold'
      /\ Surveys' /\ Budgets' /\ WorkingSets'
      /\ lock' \in [Season -> Process \union {NoOne}]
      /\ own' \in [Process -> SUBSET Season]
  BY <1>1, <1>2, Left
<1>4. LocksTypeOK' /\ deaths' \in Nat
  BY <1>1, <1>3 DEF IInv, TypeOK, LocksTypeOK
<1> QED
  BY <1>1, <1>3, <1>4 DEF IInv, TypeOK, Recoverable, diskVars

LEMMA FailingIInv ==
    ASSUME IInv, NEW p \in Process, StageFails(p) \/ ConsumeFails(p)
    PROVE  IInv'
<1>1. PICK o \in {"reserve", "stage"} :
        /\ Writing(p, o) /\ holder' = NoOne /\ Set(p, GiveUp(p))
        /\ \/ o = "stage" /\ budget' = budget /\ marked' = marked
              /\ staged' = [staged EXCEPT ![At(p)] = 1]
              /\ spoilt' = spoilt \union {At(p)}
           \/ o = "reserve" /\ budget' = [budget EXCEPT ![Home(p)] = Torn]
              /\ marked' = marked \union {At(p)}
              /\ staged' = staged /\ spoilt' = spoilt
        /\ failures' = failures + 1
        /\ UNCHANGED <<lock, own, kept, older, frozen, elder, deaths>>
  BY DEF StageFails, ConsumeFails, Failure, Release
<1>2. /\ run[p].op = o /\ run[p].step = "write" /\ holder = p
      /\ Loose(run[p]) /\ Course(run[p]) /\ run[p] \in Invocation
      /\ own[p] = {Home(p)} /\ Home(p) \in Season /\ run[p].scope \in Scope
  BY <1>1, AtWork DEF Homeless
<1>3. At(p) \in File
  <2>1. run[p].todo # {} /\ run[p].op # "recover"
    BY <1>2 DEF Course, Fetching, AtFile
  <2>2. At(p) \in run[p].todo
    BY <2>1 DEF At
  <2> QED
    BY <1>2, <2>2, CacheAssumption DEF Loose
<1>4. /\ staged \in [File -> 0..LargestBody + 1] /\ 1 \in 0..LargestBody + 1
      /\ spoilt \in SUBSET File /\ marked \in SUBSET File
      /\ budget \in [Season -> Nat \union {Torn}]
  BY CacheAssumption DEF IInv, TypeOK, LocksTypeOK
<1>5. /\ budget' \in [Season -> Nat \union {Torn}]
      /\ \A s \in Season : budget'[s] = budget[s] \/ s \in own[p]
  BY <1>1, <1>2, <1>4
<1>6. /\ run' \in [Process -> Invocation]
      /\ Courses' /\ Holding' /\ Housed' /\ OwnersLock' /\ ProbersHold'
      /\ Surveys' /\ Budgets' /\ WorkingSets'
  BY <1>1, <1>2, <1>5, GivenUp
<1>7. /\ staged' \in [File -> 0..LargestBody + 1]
      /\ spoilt' \in SUBSET File /\ marked' \in SUBSET File
  BY <1>1, <1>3, <1>4
<1>8. LocksTypeOK' /\ failures' \in Nat
  BY <1>1, <1>5 DEF IInv, TypeOK, LocksTypeOK
<1>9. Recoverable'
  BY <1>1, <1>3, <1>4 DEF IInv, Recoverable
<1> QED
  BY <1>1, <1>6, <1>7, <1>8, <1>9 DEF IInv, TypeOK
LEMMA StepIInv == IInv /\ [Next]_vars => IInv'
<1> SUFFICES ASSUME IInv, [Next]_vars PROVE IInv'
  OBVIOUS
<1>1. CASE UNCHANGED vars
  <2>1. UNCHANGED <<holder, lock, own, budget, marked, staged, spoilt, kept, older,
                    frozen, elder, run, deaths, failures>>
    BY <1>1 DEF vars, lockVars, diskVars
  <2>2. TypeOK' /\ Courses' /\ Holding' /\ Housed' /\ OwnersLock' /\ ProbersHold'
    BY <2>1 DEF IInv, TypeOK, LocksTypeOK, Courses, Holding, Housed, Home, OwnersLock,
                ProbersHold, Probing
  <2>3. Surveys' /\ Budgets' /\ WorkingSets' /\ Recoverable'
    BY <2>1 DEF IInv, Surveys, Owned, Budgets, Home, WorkingSets, Recoverable
  <2> QED
    BY <2>2, <2>3 DEF IInv
<1>2. ASSUME NEW p \in Process, NEW c \in Scope, Begin(p, c) PROVE IInv'
  BY <1>2, BeginIInv
<1>3. ASSUME NEW p \in Process, Working(p) PROVE IInv'
  <2>1. ASSUME NEW s \in Season, Survey(p, s) \/ LetGo(p, s) PROVE IInv'
    BY <2>1, SurveyIInv, LetGoIInv
  <2>2. CASE Lock(p) \/ TimeOut(p) \/ Trim(p) \/ Refuse(p)
    BY <2>2, LockIInv, TimeOutIInv, TrimIInv, RefuseIInv
  <2>3. CASE Opened(p) \/ Claim(p) \/ Freeze(p) \/ Recover(p) \/ Prepare(p)
    BY <2>3, OpenedIInv, ClaimIInv, FreezeIInv, RecoverIInv, PrepareIInv
  <2>4. CASE Reserve(p) \/ Download(p) \/ Stage(p) \/ Finish(p) \/ References(p) \/ Drop(p)
    BY <2>4, ReserveIInv, DownloadIInv, StageIInv, FinishIInv, ReferencesIInv, DropIInv
  <2> QED
    BY <1>3, <2>1, <2>2, <2>3, <2>4 DEF Working
<1>4. ASSUME NEW p \in Process, Die(p) \/ StageFails(p) \/ ConsumeFails(p) PROVE IInv'
  BY <1>4, DropIInv, FailingIInv
<1> QED
  BY <1>1, <1>2, <1>3, <1>4 DEF Next

LEMMA AlwaysIInv == Spec => []IInv
<1> QED
  BY InitIInv, StepIInv, PTL DEF Spec

-----------------------------------------------------------------------------
(* The processes that open one cache, the locks, the budgets and the entries *)
(* of the disk stay well formed, however many processes and seasons there    *)
(* are (locking.rs, cache.rs).                                               *)
THEOREM SharedTyped == Spec => []TypeOK
<1>1. IInv => TypeOK
  BY DEF IInv
<1> QED
  BY <1>1, AlwaysIInv, PTL

(* What an invocation found or fetched stays until it has used it, whoever   *)
(* else evicts in the meantime and whatever this invocation itself has to    *)
(* make room for (cache.rs pin and space_for).                               *)
THEOREM WorkingSetSafe == Spec => []WorkingSetKept
<1>1. IInv => WorkingSetKept
  <2> SUFFICES ASSUME IInv, NEW p \in Process,
                      run[p].op \in {"prepare", "reserve", "post", "stage", "finish", "references"},
                      NEW f \in run[p].scope \ (run[p].todo \union run[p].failed)
               PROVE  kept[f] > 0
    BY DEF WorkingSetKept
  <2>1. run[p].left = {}
    BY DEF IInv, Courses, Course
  <2> QED
    BY <2>1 DEF IInv, WorkingSets, Homeless
<1> QED
  BY <1>1, AlwaysIInv, PTL

(* A claim is refused only for a season that has an owner: the survey of     *)
(* another process, which locks the files of foreign seasons for a moment,   *)
(* never makes one look owned (locking.rs claim and active).                 *)
THEOREM BusyTruly == Spec => []BusyMeansOwned
<1>1. IInv => BusyMeansOwned
  <2> SUFFICES ASSUME IInv, NEW p \in Process, Writing(p, "claim"),
                      ~Claimable(Home(p))
               PROVE  Owned(Home(p))
    BY DEF BusyMeansOwned
  <2> DEFINE s == Home(p)
  <2>1. holder = p /\ run[p].step = "write" /\ s \in Season
    BY AtWork, HomeTyped DEF Home
  <2>2. lock[s] \in Process
    BY <2>1 DEF IInv, TypeOK, LocksTypeOK, Claimable
  <2> HIDE DEF s
  <2> DEFINE q == lock[s]
  <2>3. ~Probing(q, s)
    BY <2>1, <2>2 DEF IInv, ProbersHold, Holding, InTransaction
  <2> QED
    BY <2>2, <2>3 DEF Probing, Owned, s
<1> QED
  BY <1>1, AlwaysIInv, PTL

-----------------------------------------------------------------------------
(* The processes keep the leases                                             *)
(* Who owns a season is its owner, and there is no other.                    *)
SoleOwners == \A s \in Season :
    /\ Owner(s) \in Process \union {NoOne}
    /\ \A q \in Process : Owner(s) = q <=> s \in own[q]

LEMMA OwnerIs == IInv => SoleOwners
<1> SUFFICES ASSUME IInv, NEW s \in Season
             PROVE  /\ Owner(s) \in Process \union {NoOne}
                    /\ \A q \in Process : Owner(s) = q <=> s \in own[q]
  BY DEF SoleOwners
<1>1. CASE Owned(s)
  <2>1. Owner(s) \in Process /\ s \in own[Owner(s)]
    BY <1>1 DEF Owner, Owned
  <2> QED
    BY <2>1 DEF IInv, OwnersLock
<1>2. CASE ~Owned(s)
  <2>1. Owner(s) = NoOne
    BY <1>2 DEF Owner
  <2> QED
    BY <1>2, <2>1, LocksAssumption DEF Owned
<1> QED
  BY <1>1, <1>2

LEMMA OwnerIsThen == IInv' => SoleOwners'
<1> QED
  BY OwnerIs, PTL

LEMMA LeaseStutter ==
    ASSUME UNCHANGED <<holder, own, kept, frozen>>
    PROVE  UNCHANGED Lease!leaseVars
<1>1. \A s \in Season : Owner(s)' = Owner(s)
  BY DEF Owner, Owned
<1> QED
  BY <1>1 DEF Lease!leaseVars

LEMMA LeaseWithdraw ==
    ASSUME NEW p \in Process, Release(p), UNCHANGED <<own, kept, frozen>>
    PROVE  Lease!LeaseNext
<1>1. \A s \in Season : Owner(s)' = Owner(s)
  BY DEF Owner, Owned
<1>2. Lease!Withdraw(p)
  BY <1>1 DEF Lease!Withdraw, Lease!Withdraws, Release
<1> QED
  BY <1>2 DEF Lease!LeaseNext

LEMMA LeaseReach ==
    ASSUME NEW p \in Process, Lock(p)
    PROVE  Lease!LeaseNext
<1>1. UNCHANGED <<own, kept, frozen>> /\ Coordinate(p)
  BY DEF Lock, diskVars
<1>2. \A s \in Season : Owner(s)' = Owner(s)
  BY <1>1 DEF Owner, Owned
<1>3. Lease!Reach(p)
  BY <1>1, <1>2 DEF Lease!Reach, Coordinate
<1> QED
  BY <1>3 DEF Lease!LeaseNext

LEMMA StoreLease ==
    ASSUME IInv, NEW p \in Process, NEW o, o \notin Homeless \union {"off"}, Writing(p, o),
           NEW f \in File, f \in run[p].scope, NEW body \in 1..LargestBody,
           Publish(p, f, body), Release(p), UNCHANGED <<own, frozen>>
    PROVE  Lease!Store(p, f)
<1>1. SeasonOf[f] \in own[p] /\ SeasonOf[f] \in Season
  BY AtWork, HomeTyped DEF Home
<1>2. Owner(SeasonOf[f]) = p
  BY <1>1, OwnerIs DEF SoleOwners
<1>3. kept \in [File -> 0..LargestBody] /\ kept' = [kept EXCEPT ![f] = body]
  BY DEF IInv, TypeOK, Publish
<1>4. {g \in File : kept'[g] > 0} = {g \in File : kept[g] > 0} \union {f}
  BY <1>3, CacheAssumption
<1>5. \A s \in Season : Owner(s)' = Owner(s)
  BY DEF Owner, Owned
<1> QED
  BY <1>1, <1>2, <1>4, <1>5 DEF Lease!Store, Lease!Withdraws, Release

LEMMA TrimLease ==
    ASSUME IInv, NEW p \in Process, Trim(p)
    PROVE  Lease!Clear(p)
<1>1. /\ kept' = [f \in File |-> IF f \in Victims(p) THEN 0 ELSE kept[f]]
      /\ frozen' = frozen \ Pruned(p) /\ own' = own
  BY DEF Trim, lockVars
<1>2. \A s \in Season : Owner(s)' = Owner(s)
  BY <1>1 DEF Owner, Owned
<1>3. {f \in File : kept'[f] > 0} \subseteq {f \in File : kept[f] > 0}
  BY <1>1
<1>4. ASSUME NEW f \in File, kept[f] > 0, ~(kept'[f] > 0)
      PROVE  Owner(SeasonOf[f]) \in {p, NoOne}
  <2>1. SeasonOf[f] \in Season
    BY CacheAssumption
  <2>2. \A q \in Process \ {p} : SeasonOf[f] \notin own[q]
    BY <1>4, TrimSpares
  <2> QED
    BY <2>1, <2>2, OwnerIs DEF SoleOwners
<1>5. ASSUME NEW c \in frozen, c \notin frozen'
      PROVE  c \in Scope /\ Owner(SeasonOfScope(c)) \in {p, NoOne}
  <2>1. c \in Scope /\ SeasonOfScope(c) \in Season
    BY HomeTyped DEF IInv, TypeOK
  <2>2. \A q \in Process \ {p} : SeasonOfScope(c) \notin own[q]
    BY <1>5, TrimSpares
  <2> QED
    BY <2>1, <2>2, OwnerIs DEF SoleOwners
<1>6. \A c \in Scope : SeasonOfScope(c) \in Season
  BY HomeTyped
<1>7. holder = p /\ UNCHANGED holder
  BY DEF Trim, Surveyed, IInv, Holding, InTransaction, lockVars
<1> QED
  BY <1>1, <1>2, <1>3, <1>4, <1>5, <1>6, <1>7, CacheAssumption DEF Lease!Clear

LEMMA ClaimLease ==
    ASSUME IInv, IInv', NEW p \in Process, Claim(p)
    PROVE  Lease!LeaseNext
<1>1. Writing(p, "claim") /\ Release(p) /\ UNCHANGED <<kept, frozen>>
  BY DEF Claim, diskVars
<1>2. Home(p) \in Season /\ own[p] = {}
  BY <1>1, AtWork, Standing, HomeTyped DEF Homeless, Home
<1>3. CASE ~Claimable(Home(p))
  BY <1>1, <1>3, LeaseWithdraw DEF Claim
<1>4. CASE Claimable(Home(p))
  <2> PICK h \in Season : h = Home(p)
    BY <1>2
  <2>1. lock[h] = NoOne /\ own' = [own EXCEPT ![p] = {h}]
    BY <1>2, <1>4 DEF Claim, Claimable, TakeSeason
  <2>2. own \in [Process -> SUBSET Season]
    BY DEF IInv, TypeOK, LocksTypeOK
  <2>4. \A q \in Process : h \notin own[q]
    BY <2>1, <2>2, LocksAssumption DEF IInv, OwnersLock
  <2>5. Owner(h) = NoOne
    BY <2>4, OwnerIs DEF SoleOwners
  <2>6. Owner(h)' = p
    BY <2>1, <2>2, OwnerIsThen DEF SoleOwners
  <2>7. \A s \in Season \ {h} : Owner(s)' = Owner(s)
    <3>1. \A s \in Season \ {h} : \A q \in Process : s \in own'[q] <=> s \in own[q]
      BY <1>2, <2>1, <2>2
    <3> QED
      BY <3>1, OwnerIs, OwnerIsThen DEF SoleOwners
  <2>8. Lease!Take(p, h)
    BY <1>1, <2>5, <2>6, <2>7 DEF Lease!Take, Lease!Withdraws, Release
  <2> QED
    BY <2>8 DEF Lease!LeaseNext
<1> QED
  BY <1>3, <1>4

LEMMA FreezeLease ==
    ASSUME IInv, NEW p \in Process, Freeze(p)
    PROVE  Lease!List(p, run[p].scope) /\ run[p].scope \in Scope
<1>1. /\ Writing(p, "freeze") /\ Release(p) /\ UNCHANGED <<own, kept>>
      /\ frozen' = frozen \union {run[p].scope}
  BY DEF Freeze
<1>2. run[p].scope \in Scope /\ Home(p) \in own[p] /\ Home(p) \in Season
  BY <1>1, AtWork DEF Homeless
<1>3. Owner(Home(p)) = p
  BY <1>2, OwnerIs DEF SoleOwners
<1>4. \A s \in Season : Owner(s)' = Owner(s)
  BY <1>1 DEF Owner, Owned
<1> QED
  BY <1>1, <1>2, <1>3, <1>4 DEF Lease!List, Lease!Withdraws, Release, Home

LEMMA LeaveLease ==
    ASSUME IInv, IInv', NEW p \in Process, Drop(p) \/ Die(p)
    PROVE  Lease!Leave(p)
<1>1. own' = [own EXCEPT ![p] = {}] /\ UNCHANGED <<kept, frozen>>
  BY DEF Drop, Die, ReleaseSeasons, diskVars
<1>2. own \in [Process -> SUBSET Season]
  BY DEF IInv, TypeOK, LocksTypeOK
<1>3. \A s \in Season : \A q \in Process : s \in own'[q] <=> s \in own[q] /\ q # p
  BY <1>1, <1>2
<1>4. \A s \in Season : Owner(s)' = IF Owner(s) = p THEN NoOne ELSE Owner(s)
  BY <1>3, OwnerIs, OwnerIsThen DEF SoleOwners
<1>5. (holder = p /\ holder' = NoOne) \/ UNCHANGED holder
  BY DEF Drop, Die
<1> QED
  BY <1>1, <1>4, <1>5 DEF Lease!Leave, Lease!Withdraws

LEMMA StepLease ==
    ASSUME IInv, IInv', [Next]_vars
    PROVE  [Lease!LeaseNext]_(Lease!leaseVars)
<1>1. CASE UNCHANGED vars
  BY <1>1, LeaseStutter DEF vars, lockVars, diskVars
<1>2. ASSUME NEW p \in Process, NEW c \in Scope, Begin(p, c)
      PROVE  UNCHANGED Lease!leaseVars
  BY <1>2, LeaseStutter DEF Begin, lockVars, diskVars
<1>3. ASSUME NEW p \in Process, NEW s \in Season, Survey(p, s) \/ LetGo(p, s)
      PROVE  UNCHANGED Lease!leaseVars
  BY <1>3, LeaseStutter DEF Survey, LetGo, diskVars
<1>4. ASSUME NEW p \in Process, TimeOut(p) \/ Download(p)
      PROVE  UNCHANGED Lease!leaseVars
  BY <1>4, LeaseStutter DEF TimeOut, Download, lockVars, diskVars
<1>5. ASSUME NEW p \in Process,
             \/ Lock(p) \/ Refuse(p) \/ Opened(p) \/ Prepare(p) \/ Reserve(p) \/ References(p)
             \/ StageFails(p) \/ ConsumeFails(p)
      PROVE  Lease!LeaseNext
  BY <1>5, LeaseReach, LeaseWithdraw DEF Refuse, Opened, Prepare, Reserve, References, StageFails,
     ConsumeFails, diskVars
<1>10. ASSUME NEW p \in Process, Stage(p)
       PROVE  Lease!LeaseNext \/ UNCHANGED Lease!leaseVars
  <2>1. UNCHANGED <<own, kept, frozen>> /\ (UNCHANGED holder \/ Release(p))
    BY <1>10 DEF Stage
  <2> QED
    BY <2>1, LeaseStutter, LeaseWithdraw
<1>6. ASSUME NEW p \in Process, Recover(p)
      PROVE  Lease!LeaseNext
  <2>1. Writing(p, "recover") /\ Release(p) /\ UNCHANGED <<own, frozen, spoilt>>
    BY <1>6 DEF Recover
  <2>2. At(p) \in run[p].left /\ run[p].left \subseteq run[p].scope /\ run[p].scope \subseteq File
    BY <2>1, AtWork, CacheAssumption DEF Course, At
  <2> PICK f \in File : f = At(p) /\ f \in run[p].scope
    BY <2>2
  <2>3. CASE kept' = kept
    BY <2>1, <2>3, LeaseWithdraw
  <2>4. CASE staged[f] > 0 /\ f \notin spoilt /\ Publish(p, f, staged[f] - 1)
    <3>1. staged \in [File -> 0..LargestBody + 1]
      BY DEF IInv, TypeOK
    <3>2. staged[f] > 1
      BY <2>4, <3>1 DEF IInv, Recoverable
    <3>3. staged[f] - 1 \in 1..LargestBody
      BY <3>1, <3>2, CacheAssumption
    <3>4. "recover" \notin Homeless \union {"off"}
      BY DEF Homeless
    <3>5. Lease!Store(p, f)
      BY <2>1, <2>4, <3>3, <3>4, StoreLease
    <3> QED
      BY <3>5 DEF Lease!LeaseNext
  <2> QED
    BY <1>6, <2>3, <2>4 DEF Recover
<1>7. ASSUME NEW p \in Process, Finish(p) PROVE Lease!LeaseNext
  <2>1. /\ Writing(p, "finish") /\ Release(p) /\ Publish(p, At(p), run[p].body)
        /\ UNCHANGED <<own, frozen>>
    BY <1>7 DEF Finish
  <2>2. /\ run[p].op = "finish" /\ Course(run[p]) /\ run[p].scope \subseteq File
        /\ run[p] \in Invocation
    BY <2>1, AtWork, CacheAssumption
  <2>3. At(p) \in run[p].todo /\ run[p].todo \subseteq run[p].scope
    BY <2>2 DEF Course, Fetching, AtFile, At
  <2> PICK f \in File : f = At(p) /\ f \in run[p].scope
    BY <2>2, <2>3
  <2>4. run[p].body \in 1..LargestBody
    BY <2>2, CacheAssumption DEF Course, Invocation
  <2>5. "finish" \notin Homeless \union {"off"}
    BY DEF Homeless
  <2>6. Lease!Store(p, f)
    BY <2>1, <2>4, <2>5, StoreLease
  <2> QED
    BY <2>6 DEF Lease!LeaseNext
<1>8. ASSUME NEW p \in Process, Trim(p) \/ Freeze(p) \/ Drop(p) \/ Die(p)
      PROVE  Lease!LeaseNext
  BY <1>8, TrimLease, FreezeLease, LeaveLease DEF Lease!LeaseNext
<1>9. ASSUME NEW p \in Process, Claim(p)
      PROVE  Lease!LeaseNext
  BY <1>9, ClaimLease
<1> QED
  BY <1>1, <1>2, <1>3, <1>4, <1>5, <1>6, <1>7, <1>8, <1>9, <1>10 DEF Next, Working

LEMMA InitLease == Init => Lease!LeaseInit
<1> SUFFICES ASSUME Init PROVE Lease!LeaseInit
  OBVIOUS
<1>1. \A s \in Season : Owner(s) = NoOne
  BY DEF Init, LocksInit, Owner, Owned
<1> QED
  BY <1>1 DEF Init, LocksInit, Lease!LeaseInit

(* The processes keep the promise of SeasonLease, for any number of          *)
(* processes, seasons and deaths: a season has one owner, and nobody evicts  *)
(* from, or prunes in, a season another process owns (locking.rs claim and   *)
(* active, cache.rs space_for).                                              *)
THEOREM LeasesKept == Spec => LeasesHold
<1>1. IInv /\ IInv' /\ [Next]_vars => [Lease!LeaseNext]_(Lease!leaseVars)
  BY StepLease
<1> QED
  BY <1>1, AlwaysIInv, InitLease, PTL DEF Spec, LeasesHold, Lease!LeaseSpec

-----------------------------------------------------------------------------
(* What the cache weighs                                                     *)

(* Weights are naturals, and the total is what they and the manifests make.  *)
Weights == [f \in File |-> Weight(f)]
Weighable ==
    /\ \A f \in File : /\ Weight(f) \in Nat /\ EntryOf(f) \in Nat
                       /\ MarkerOf(f) \in 0..1 /\ EntryOf(f) <= Weight(f)
                       /\ staged[f] \in Nat /\ kept[f] \in Nat
    /\ IsFiniteSet(frozen) /\ Cardinality(frozen) \in Nat
    /\ SumFunctionOnSet(Weights, File) \in Nat
    /\ Total = Cardinality(frozen) + SumFunctionOnSet(Weights, File)

LEMMA TypedWeighable == TypeOK => Weighable
<1> SUFFICES ASSUME TypeOK PROVE Weighable
  OBVIOUS
<1>1. ASSUME NEW f \in File
      PROVE  /\ Weight(f) \in Nat /\ EntryOf(f) \in Nat /\ MarkerOf(f) \in 0..1
             /\ EntryOf(f) <= Weight(f) /\ staged[f] \in Nat /\ kept[f] \in Nat
  <2>1. staged[f] \in Nat /\ kept[f] \in Nat
    BY CacheAssumption DEF TypeOK
  <2>2. MarkerOf(f) \in 0..1
    BY DEF MarkerOf
  <2> QED
    BY <2>1, <2>2 DEF Weight, EntryOf
<1>2. IsFiniteSet(frozen)
  <2>1. Scope \subseteq SUBSET File /\ IsFiniteSet(SUBSET File)
    BY CacheAssumption, FS_SUBSET
  <2> QED
    BY <2>1, FS_Subset DEF TypeOK
<1>3. Cardinality(frozen) \in Nat
  BY <1>2, FS_CardinalityType
<1>4. Total = Cardinality(frozen) + SumFunctionOnSet(Weights, File)
  BY DEF Total, SumFunction, Weights
<1>5. \A f \in File : Weights[f] \in Nat
  BY <1>1 DEF Weights
<1>6. SumFunctionOnSet(Weights, File) \in Nat
  BY <1>5, CacheAssumption, SumNatural
<1> QED
  BY <1>1, <1>2, <1>3, <1>4, <1>6 DEF Weighable

LEMMA WeighableThen == IInv' => Weighable'
<1>1. IInv => Weighable
  BY TypedWeighable DEF IInv
<1> QED
  BY <1>1, PTL

(* A step that touches one file, and the manifests.                          *)
LEMMA TotalChange ==
    ASSUME IInv, IInv', NEW g \in File,
           \A f \in File \ {g} : Weight(f)' = Weight(f)
    PROVE  /\ Total' = Total + (Cardinality(frozen') - Cardinality(frozen))
                             + (Weight(g)' - Weight(g))
           /\ Total \in Nat /\ Total' \in Nat
           /\ Weight(g) \in Nat /\ Weight(g)' \in Nat
           /\ Cardinality(frozen) \in Nat /\ Cardinality(frozen') \in Nat
<1>1. Weighable /\ Weighable'
  BY TypedWeighable, WeighableThen DEF IInv
<1>2. /\ \A f \in File : Weights[f] = Weight(f) /\ Weights'[f] = Weight(f)'
      /\ \A f \in File : Weight(f) \in Nat /\ Weight(f)' \in Nat
  BY <1>1 DEF Weights, Weighable
<1>3. SumFunctionOnSet(Weights', File) =
          SumFunctionOnSet(Weights, File) - Weights[g] + Weights'[g]
  <2>1. \A f \in File : Weights[f] \in Int /\ Weights'[f] \in Int
    BY <1>2
  <2>2. \A f \in File \ {g} : Weights[f] = Weights'[f]
    BY <1>2
  <2> QED
    BY <2>1, <2>2, CacheAssumption, SumBut
<1>4. /\ Total = Cardinality(frozen) + SumFunctionOnSet(Weights, File)
      /\ Total' = Cardinality(frozen') + SumFunctionOnSet(Weights', File)
      /\ Cardinality(frozen) \in Nat /\ Cardinality(frozen') \in Nat
      /\ SumFunctionOnSet(Weights, File) \in Nat /\ SumFunctionOnSet(Weights', File) \in Nat
  BY <1>1 DEF Weighable
<1>5. /\ Weights[g] = Weight(g) /\ Weights'[g] = Weight(g)'
      /\ Weight(g) \in Nat /\ Weight(g)' \in Nat
  BY <1>2
<1> QED
  BY <1>3, <1>4, <1>5

(* A step that leaves the disk alone.                                        *)
LEMMA TotalSame == ASSUME UNCHANGED diskVars PROVE Total' = Total
<1>1. UNCHANGED <<marked, staged, kept, frozen>>
  BY DEF diskVars
<1>2. \A f \in File : Weight(f)' = Weight(f)
  BY <1>1 DEF Weight, EntryOf, MarkerOf
<1>3. [f \in File |-> Weight(f)]' = [f \in File |-> Weight(f)]
  BY <1>2
<1> QED
  BY <1>1, <1>3 DEF Total

(* The trimming takes from the total what its victims weigh.                 *)
LEMMA TotalTrimmed ==
    ASSUME IInv, IInv', NEW p \in Process, Trim(p)
    PROVE  /\ Total' = Total - Weighing(Victims(p)) - Cardinality(Pruned(p))
           /\ Weighing(Victims(p)) \in Nat /\ Cardinality(Pruned(p)) \in Nat
<1> DEFINE V == Victims(p)
           R == File \ V
           E == [f \in V |-> EntryOf(f)]
           Sum(g, S) == SumFunctionOnSet(g, S)
<1>1. Weighable /\ Weighable'
  BY TypedWeighable, WeighableThen DEF IInv
<1>2. /\ kept' = [f \in File |-> IF f \in V THEN 0 ELSE kept[f]]
      /\ marked' = marked \ V /\ staged' = staged /\ frozen' = frozen \ Pruned(p)
  BY DEF Trim
<1>3. V \subseteq File /\ (\A f \in V : kept[f] > 0) /\ Pruned(p) \subseteq frozen
  BY DEF Victims, Evictable, Pruned, Prunable
<1> HIDE DEF V
<1>4. ASSUME NEW f \in V
      PROVE  Weight(f) = staged[f] + EntryOf(f) /\ Weight(f)' = staged[f]
  <2>1. f \in File /\ kept[f] > 0 /\ kept'[f] = 0 /\ f \notin marked' /\ staged'[f] = staged[f]
    BY <1>2, <1>3
  <2>2. Weight(f)' = staged[f] + 0
    BY <2>1 DEF Weight, MarkerOf
  <2>3. staged[f] \in Nat
    BY <1>1, <2>1 DEF Weighable
  <2> QED
    BY <2>1, <2>2, <2>3 DEF Weight
<1>5. ASSUME NEW f \in R
      PROVE  Weight(f)' = Weight(f)
  BY <1>2 DEF Weight, EntryOf, MarkerOf
<1>6. /\ \A f \in File : Weights[f] = Weight(f) /\ Weights'[f] = Weight(f)'
      /\ \A f \in File : /\ Weight(f) \in Nat /\ Weight(f)' \in Nat
                         /\ EntryOf(f) \in Nat /\ staged[f] \in Nat
  BY <1>1 DEF Weights, Weighable
<1>7. IsFiniteSet(V) /\ IsFiniteSet(R) /\ V \union R = File /\ V \cap R = {}
  BY <1>3, CacheAssumption, FS_Subset
<1>8. Sum(Weights, File) = Sum(Weights, V) + Sum(Weights, R)
  <2>1. \A f \in V \union R : Weights[f] \in Int
    BY <1>3, <1>6
  <2>2. Sum(Weights, V \union R) = Sum(Weights, V) + Sum(Weights, R)
    BY <1>7, <2>1, SumParts
  <2> QED
    BY <1>7, <2>2
<1>9. Sum(Weights', File) = Sum(Weights', V) + Sum(Weights', R)
  <2>1. \A f \in V \union R : Weights'[f] \in Int
    BY <1>3, <1>6
  <2>2. Sum(Weights', V \union R) = Sum(Weights', V) + Sum(Weights', R)
    BY <1>7, <2>1, SumParts
  <2> QED
    BY <1>7, <2>2
<1>10. Sum(Weights, R) = Sum(Weights', R) /\ Sum(Weights, R) \in Int
  <2>1. \A f \in R : Weights[f] = Weights'[f] /\ Weights[f] \in Int
    BY <1>5, <1>6
  <2> QED
    BY <1>7, <2>1, SumSame
<1>11. Sum(Weights, V) = Sum(Weights', V) + Sum(E, V)
  <2>1. \A f \in V : /\ Weights[f] = Weights'[f] + E[f]
                     /\ Weights'[f] \in Int /\ E[f] \in Int
    BY <1>3, <1>4, <1>6
  <2> HIDE DEF E
  <2> QED
    BY <1>7, <2>1, SumOfTwo
<1>12. Weighing(V) = Sum(E, V) /\ Sum(E, V) \in Nat
  <2>1. \A f \in V : E[f] \in Nat
    BY <1>3, <1>6
  <2>2. Weighing(V) = Sum(E, V)
    BY DEF Weighing, SumFunction
  <2> HIDE DEF E
  <2> QED
    BY <1>7, <2>1, <2>2, SumNatural
<1>13. /\ Cardinality(frozen') = Cardinality(frozen) - Cardinality(Pruned(p))
       /\ Cardinality(Pruned(p)) \in Nat
  <2>1. IsFiniteSet(frozen) /\ frozen \cap Pruned(p) = Pruned(p)
    BY <1>1, <1>3 DEF Weighable
  <2>2. IsFiniteSet(Pruned(p))
    BY <1>3, <2>1, FS_Subset
  <2>3. Cardinality(frozen \ Pruned(p)) = Cardinality(frozen) - Cardinality(frozen \cap Pruned(p))
    BY <2>1, FS_Difference
  <2>4. Cardinality(Pruned(p)) \in Nat
    BY <2>2, FS_CardinalityType
  <2> QED
    BY <1>2, <2>1, <2>3, <2>4
<1>14. Sum(Weights', V) \in Int
  <2>1. \A f \in V : Weights'[f] \in Int
    BY <1>3, <1>6
  <2> QED
    BY <1>7, <2>1, SumSame
<1>15. /\ Total = Cardinality(frozen) + Sum(Weights, File)
       /\ Total' = Cardinality(frozen') + Sum(Weights', File)
       /\ Cardinality(frozen) \in Nat
  BY <1>1 DEF Weighable
<1> HIDE DEF Sum, E, R
<1>16. Total' = Total - Weighing(V) - Cardinality(Pruned(p)) /\ Weighing(V) \in Nat
  BY <1>8, <1>9, <1>10, <1>11, <1>12, <1>13, <1>14, <1>15
<1> QED
  BY <1>13, <1>16 DEF V

-----------------------------------------------------------------------------
(* Who may change what                                                       *)
OwnedSeasons == {s \in Season : Owned(s)}

Moves(p) ==
    \/ \E c \in Scope : Begin(p, c)
    \/ Working(p)
    \/ Die(p) \/ StageFails(p) \/ ConsumeFails(p)

(* Without the coordination lock nothing is written, and no season claimed.  *)
Unwritten == UNCHANGED <<diskVars, budget>> /\ OwnedSeasons' \subseteq OwnedSeasons

(* A step of p is no step of the others.                                     *)
Alone(p) == \A q \in Process \ {p} : run'[q] = run[q] /\ own'[q] = own[q]

LEMMA SetAlone ==
    ASSUME IInv, NEW p \in Process, NEW r, Set(p, r), own' = own
    PROVE  Alone(p) /\ OwnedSeasons' = OwnedSeasons
<1>1. run \in [Process -> Invocation]
  BY Standing DEF IInv, TypeOK
<1>2. \A q \in Process \ {p} : run'[q] = run[q]
  BY <1>1 DEF Set
<1> QED
  BY <1>2 DEF Alone, OwnedSeasons, Owned

LEMMA LeavesAlone ==
    ASSUME IInv, NEW p \in Process, NEW r, Set(p, r), ReleaseSeasons(p)
    PROVE  Alone(p) /\ OwnedSeasons' \subseteq OwnedSeasons
<1>1. run \in [Process -> Invocation] /\ own \in [Process -> SUBSET Season]
  BY DEF IInv, TypeOK, LocksTypeOK
<1>2. \A q \in Process \ {p} : run'[q] = run[q]
  BY <1>1 DEF Set
<1>3. (\A q \in Process \ {p} : own'[q] = own[q]) /\ own'[p] = {}
  BY <1>1 DEF ReleaseSeasons
<1> QED
  BY <1>2, <1>3 DEF Alone, OwnedSeasons, Owned

LEMMA WritersHold ==
    ASSUME IInv, NEW p \in Process, Moves(p)
    PROVE  /\ Alone(p)
           /\ holder = p \/ Unwritten
           /\ failures' = 0 => failures = 0
           /\ holder = p \/ holder' \in {holder, p}
<1>1. run \in [Process -> Invocation] /\ failures \in Nat
  BY DEF IInv, TypeOK
<1>2. ASSUME NEW c \in Scope, Begin(p, c)
      PROVE  Alone(p) /\ Unwritten /\ failures' = failures /\ holder' = holder
  <2>1. own' = own /\ UNCHANGED <<diskVars, budget, failures, holder>>
    BY <1>2 DEF Begin, lockVars
  <2> QED
    BY <1>2, <2>1, SetAlone DEF Begin, Unwritten
<1>3. CASE Lock(p)
  <2>1. own' = own /\ UNCHANGED <<diskVars, budget, failures>> /\ holder' = p
    BY <1>3 DEF Lock, Coordinate
  <2>2. \A q \in Process \ {p} : run'[q] = run[q]
    BY <1>1, <1>3 DEF Lock
  <2> QED
    BY <2>1, <2>2 DEF Alone, Unwritten, OwnedSeasons, Owned
<1>4. CASE TimeOut(p)
  <2>1. own' = own /\ UNCHANGED <<diskVars, budget, failures, holder>>
    BY <1>4 DEF TimeOut, lockVars
  <2> QED
    BY <1>4, <2>1, SetAlone DEF TimeOut, Unwritten
<1>5. ASSUME NEW s \in Season, Survey(p, s) \/ LetGo(p, s)
      PROVE  Alone(p) /\ Unwritten /\ failures' = failures /\ holder' = holder
  <2>1. own' = own /\ UNCHANGED <<diskVars, budget, failures, holder>>
    BY <1>5 DEF Survey, LetGo
  <2>2. \A q \in Process \ {p} : run'[q] = run[q]
    BY <1>1, <1>5 DEF Survey, LetGo
  <2> QED
    BY <2>1, <2>2 DEF Alone, Unwritten, OwnedSeasons, Owned
<1>6. CASE Trim(p)
  <2>1. holder = p
    BY <1>6 DEF Trim, Surveyed, IInv, Holding, InTransaction
  <2>2. \A q \in Process \ {p} : run'[q] = run[q]
    BY <1>1, <1>6 DEF Trim
  <2> QED
    BY <1>6, <2>1, <2>2 DEF Trim, lockVars, Alone
<1>7. CASE Refuse(p)
  <2>1. own' = own /\ UNCHANGED <<diskVars, budget, failures>> /\ holder = p
    BY <1>7 DEF Refuse, Release
  <2> QED
    BY <1>7, <2>1, SetAlone DEF Refuse
<1>8. CASE Claim(p)
  <2>1. holder = p /\ failures' = failures
    BY <1>8 DEF Claim, Writing
  <2>2. \A q \in Process \ {p} : run'[q] = run[q]
    BY <1>1, <1>8 DEF Claim, Set
  <2>3. \A q \in Process \ {p} : own'[q] = own[q]
    <3>1. own \in [Process -> SUBSET Season]
      BY DEF IInv, TypeOK, LocksTypeOK
    <3> QED
      BY <1>8, <3>1 DEF Claim, TakeSeason
  <2> QED
    BY <2>1, <2>2, <2>3 DEF Alone
<1>9. CASE \/ Opened(p) \/ Freeze(p) \/ Recover(p) \/ Prepare(p) \/ Reserve(p)
           \/ Stage(p) \/ Finish(p) \/ References(p) \/ StageFails(p) \/ ConsumeFails(p)
  <2>1. holder = p /\ own' = own
    BY <1>9 DEF Opened, Freeze, Recover, Prepare, Reserve, Stage, Finish, References,
                StageFails, ConsumeFails, Writing
  <2>2. failures' = failures \/ failures' = failures + 1
    BY <1>9 DEF Opened, Freeze, Recover, Prepare, Reserve, Stage, Finish, References,
                StageFails, ConsumeFails, Failure
  <2>3. \E r : Set(p, r)
    BY <1>9 DEF Opened, Freeze, Recover, Prepare, Reserve, Stage, Finish, References,
                StageFails, ConsumeFails
  <2> QED
    BY <1>1, <2>1, <2>2, <2>3, SetAlone
<1>10. CASE Download(p)
  <2>1. own' = own /\ UNCHANGED <<diskVars, budget, failures, holder>>
    BY <1>10 DEF Download, lockVars
  <2>2. \E r : Set(p, r)
    BY <1>10 DEF Download
  <2> QED
    BY <2>1, <2>2, SetAlone DEF Unwritten
<1>11. CASE Drop(p)
  BY <1>11, LeavesAlone DEF Drop, Unwritten
<1>12. CASE Die(p)
  <2>1. holder = p \/ holder' = holder
    BY <1>12 DEF Die
  <2> QED
    BY <1>12, <2>1, LeavesAlone DEF Die, Unwritten
<1> QED
  BY <1>2, <1>3, <1>4, <1>5, <1>6, <1>7, <1>8, <1>9, <1>10, <1>11, <1>12
  DEF Moves, Working

(* Where an operation ends, its process waits or is idle.                    *)
Settles(p) == run'[p].step \in {"wait", "idle"} /\ run'[p].op # "finish"

LEMMA GotoRecord ==
    ASSUME NEW r \in Invocation, NEW o \in Ops
    PROVE  /\ Goto(r, o) \in Invocation
           /\ Goto(r, o).op = o /\ Goto(r, o).step \in {"wait", "idle"}
           /\ Goto(r, o).scope = r.scope /\ Goto(r, o).todo = r.todo
           /\ Goto(r, o).body = r.body
           /\ Goto(r, o).left = IF o = "recover" THEN r.left ELSE {}
<1> DEFINE g == Goto(r, o)
<1>1. /\ g = [r EXCEPT !.op = o, !.step = g.step, !.left = g.left]
      /\ g.op = o
      /\ g.step = IF o \in {"post", "drop"} THEN "idle" ELSE "wait"
      /\ g.left = IF o = "recover" THEN r.left ELSE {}
      /\ g.scope = r.scope /\ g.todo = r.todo /\ g.body = r.body
  BY DEF Goto, Invocation
<1>2. g.step \in Steps /\ g.left \in SUBSET File
  BY <1>1 DEF Invocation, Steps
<1>3. g \in Invocation
  BY <1>1, <1>2 DEF Invocation
<1> QED
  BY <1>1, <1>3

(* What Decide and Proceed make of a record.                                 *)
LEMMA DecideRecord ==
    ASSUME NEW r \in Invocation
    PROVE  /\ Decide(r) \in Invocation
           /\ Decide(r).op \in {"recover", "prepare", "references", "drop"}
           /\ Decide(r).step \in {"wait", "idle"}
           /\ Decide(r).todo = r.todo /\ Decide(r).left = r.left
           /\ Decide(r).scope = r.scope
<1> DEFINE o == IF r.left # {} THEN "recover" ELSE IF r.todo # {} THEN "prepare"
                ELSE IF r.failed = {} THEN "references" ELSE "drop"
<1>1. o \in {"recover", "prepare", "references", "drop"} /\ (o = "recover" <=> r.left # {})
  OBVIOUS
<1>2. Decide(r) = Goto(r, o)
  BY DEF Decide
<1>3. o \in Ops
  BY <1>1 DEF Ops
<1> HIDE DEF o
<1>4. /\ Goto(r, o) \in Invocation
      /\ Goto(r, o).op = o /\ Goto(r, o).step \in {"wait", "idle"}
      /\ Goto(r, o).scope = r.scope /\ Goto(r, o).todo = r.todo
      /\ Goto(r, o).left = IF o = "recover" THEN r.left ELSE {}
  BY <1>3, GotoRecord, Zenon
<1>5. Goto(r, o).left = r.left
  BY <1>1, <1>4
<1> QED
  BY <1>1, <1>2, <1>4, <1>5, Zenon

LEMMA ProceedRecord ==
    ASSUME NEW r \in Invocation
    PROVE  /\ Proceed(r) \in Invocation
           /\ Proceed(r).op \in {"reserve", "references", "drop"}
           /\ Proceed(r).step \in {"wait", "idle"}
           /\ Proceed(r).todo = r.todo /\ Proceed(r).left = {}
           /\ Proceed(r).scope = r.scope
<1> DEFINE o == IF r.todo # {} THEN "reserve" ELSE IF r.failed = {} THEN "references"
                ELSE "drop"
<1>1. o \in {"reserve", "references", "drop"}
  OBVIOUS
<1>2. Proceed(r) = Goto(r, o)
  BY DEF Proceed
<1>3. o \in Ops /\ o # "recover"
  BY <1>1 DEF Ops
<1> HIDE DEF o
<1> QED
  BY <1>1, <1>2, <1>3, GotoRecord

LEMMA GiveUpRecord ==
    ASSUME IInv, NEW p \in Process, run[p].op # "off",
           run[p].step # "idle" \/ run[p].op = "post"
    PROVE  /\ GiveUp(p) \in Invocation
           /\ GiveUp(p).op # "finish" /\ GiveUp(p).step \in {"wait", "idle"}
           /\ run[p].op \in {"open", "claim"} => GiveUp(p) = Off
           /\ run[p].op = "recover" =>
                /\ GiveUp(p).op \in {"recover", "prepare", "references", "drop"}
                /\ GiveUp(p).todo = run[p].todo /\ GiveUp(p).left = run[p].left \ {At(p)}
                /\ GiveUp(p).scope = run[p].scope
           /\ run[p].op \in AtFile =>
                /\ GiveUp(p).op \in {"reserve", "references", "drop"}
                /\ GiveUp(p).todo = run[p].todo \ {At(p)} /\ GiveUp(p).left = {}
                /\ GiveUp(p).scope = run[p].scope
           /\ run[p].op \in {"freeze", "prepare", "references"} => GiveUp(p).op = "drop"
<1> DEFINE r == run[p]
           f == At(p)
<1>1. /\ r \in Invocation /\ Course(r) /\ r.scope \in Scope /\ r.scope \subseteq File
      /\ Loose(r)
  BY Standing, CacheAssumption
<1>2. Course(GiveUp(p)) /\ GiveUp(p).step \in {"wait", "idle"}
  BY GiveUpCourse
<1>3. GiveUp(p) \in Invocation /\ GiveUp(p).op # "finish"
  BY <1>2 DEF Course, Away
<1>4. r.op \in {"open", "claim"} => GiveUp(p) = Off
  BY DEF GiveUp
<1>5. ASSUME r.op = "recover"
      PROVE  /\ GiveUp(p).op \in {"recover", "prepare", "references", "drop"}
             /\ GiveUp(p).todo = r.todo /\ GiveUp(p).left = r.left \ {f}
             /\ GiveUp(p).scope = r.scope
  <2> DEFINE n == [r EXCEPT !.failed = @ \union {f}, !.left = @ \ {f}]
  <2>1. GiveUp(p) = Decide(n)
    BY <1>5 DEF GiveUp
  <2>2. f \in r.left
    BY <1>1, <1>5 DEF Course, At
  <2>3. n \in Invocation /\ n.scope = r.scope /\ n.todo = r.todo /\ n.left = r.left \ {f}
    BY <1>1, <2>2 DEF Invocation, Course
  <2> HIDE DEF n
  <2> QED
    BY <2>1, <2>3, DecideRecord
<1>6. ASSUME r.op \in AtFile
      PROVE  /\ GiveUp(p).op \in {"reserve", "references", "drop"}
             /\ GiveUp(p).todo = r.todo \ {f} /\ GiveUp(p).left = {}
             /\ GiveUp(p).scope = r.scope
  <2> DEFINE n == [r EXCEPT !.failed = @ \union {f}, !.todo = @ \ {f},
                            !.body = 0, !.sound = TRUE]
  <2>1. GiveUp(p) = Proceed(n)
    BY <1>6 DEF GiveUp, AtFile
  <2>2. f \in r.todo
    BY <1>1, <1>6 DEF Course, At, AtFile, Fetching
  <2> HIDE DEF f
  <2>3. f \in File /\ 0 \in 0..LargestBody
    BY <1>1, <2>2, CacheAssumption DEF Course
  <2>4. n \in Invocation /\ n.scope = r.scope /\ n.todo = r.todo \ {f}
    BY <1>1, <2>3 DEF Invocation
  <2> HIDE DEF n
  <2> QED
    BY <2>1, <2>4, ProceedRecord DEF f
<1>7. r.op \in {"freeze", "prepare", "references"} => GiveUp(p).op = "drop"
  BY GiveUpCourse
<1> QED
  BY <1>2, <1>3, <1>4, <1>5, <1>6, <1>7

(* What Set leaves of a record.                                              *)
LEMMA SetRecord ==
    ASSUME IInv, NEW p \in Process, NEW r \in Invocation, Set(p, r)
    PROVE  /\ run'[p].op = r.op /\ run'[p].step = r.step /\ run'[p].scope = r.scope
           /\ run'[p].left = r.left /\ run'[p].todo = r.todo /\ run'[p].body = r.body
           /\ run'[p].seen = {} /\ run'[p].active = {}
<1>1. run \in [Process -> Invocation]
  BY DEF IInv, TypeOK
<1> QED
  BY <1>1 DEF Set, Invocation

-----------------------------------------------------------------------------
(* The cap                                                                   *)

(* From the trimming to the write, there is room for what is to be written   *)
(* and for what the owners were promised.                                    *)
Spends(p) == Asks(p) \/ run[p].op = "finish"
Cleared(p) == run[p].step = "write" /\ Spends(p) =>
                  Readable(p) /\ Target(p) <= Cap /\ OwnedSeasons \subseteq run[p].active

(* What is about to be published is in its staging directory.                *)
Receipt(p) == run[p].op = "finish" => staged[At(p)] = 1 + run[p].body

Weighed == Total <= Cap /\ \A p \in Process : Cleared(p) /\ Receipt(p)

Drawing == {"freeze", "recover", "prepare", "reserve", "stage", "finish"}

LEMMA AdditionalTyped ==
    ASSUME IInv, NEW p \in Process
    PROVE  /\ Additional(p) \in Nat
           /\ IsFiniteSet(Missing(p)) /\ Cardinality(Missing(p)) \in Nat
<1>1. run[p] \in Invocation /\ run[p].scope \subseteq File
  <2>1. run[p] \in Invocation
    BY Standing
  <2>2. run[p].scope \in Scope \union {{}}
    BY <2>1 DEF Invocation
  <2>3. \A c \in Scope : c \subseteq File
    BY CacheAssumption
  <2> QED
    BY <2>1, <2>2, <2>3
<1>2. IsFiniteSet(Missing(p)) /\ Cardinality(Missing(p)) \in Nat
  <2>1. Missing(p) \in SUBSET File
    BY <1>1 DEF Missing
  <2> QED
    BY <2>1, CacheAssumption, FS_Subset, FS_CardinalityType
<1>3. Worst * Cardinality(Missing(p)) \in Nat
  <2>1. Worst \in Nat
    BY CacheAssumption DEF Worst
  <2>2. \A m, n \in Nat : m * n \in Nat
    OBVIOUS
  <2> QED
    BY <1>2, <2>1, <2>2
<1>4. run[p].body \in Nat
  BY <1>1, CacheAssumption DEF Invocation
<1>5. Additional(p) \in Nat
  BY <1>3, <1>4 DEF Additional, MarkerOf
<1> QED
  BY <1>2, <1>5

(* The promises of a set of seasons that can be read.                        *)
LEMMA Promises ==
    ASSUME IInv, NEW S \in SUBSET Season, \A s \in S : budget[s] # Torn
    PROVE  /\ IsFiniteSet(S) /\ SumFunctionOnSet(budget, S) \in Nat
           /\ \A s \in S : budget[s] \in Nat /\ budget[s] <= SumFunctionOnSet(budget, S)
           /\ \A R \in SUBSET S :
                SumFunctionOnSet(budget, R) \in Nat
                /\ SumFunctionOnSet(budget, R) <= SumFunctionOnSet(budget, S)
<1>1. IsFiniteSet(S) /\ \A R \in SUBSET S : IsFiniteSet(R)
  BY CacheAssumption, FS_Subset
<1>2. \A s \in S : budget[s] \in Nat
  BY DEF IInv, TypeOK, LocksTypeOK
<1>3. SumFunctionOnSet(budget, S) \in Nat /\ \A s \in S : budget[s] <= SumFunctionOnSet(budget, S)
  BY <1>1, <1>2, SumNatural
<1>4. ASSUME NEW R \in SUBSET S
      PROVE  /\ SumFunctionOnSet(budget, R) \in Nat
             /\ SumFunctionOnSet(budget, R) <= SumFunctionOnSet(budget, S)
  <2>1. \A s \in R : budget[s] \in Nat
    BY <1>2
  <2> QED
    BY <1>1, <1>2, <2>1, SumNatural, SumFewer
<1> QED
  BY <1>1, <1>2, <1>3, <1>4

LEMMA OutstandingIs ==
    ASSUME IInv, NEW p \in Process, Readable(p)
    PROVE  /\ run[p].active \in SUBSET Season
           /\ Outstanding(p) = SumFunctionOnSet(budget, run[p].active)
           /\ Outstanding(p) \in Nat
<1> DEFINE A == run[p].active
           g == [s \in A |-> budget[s]]
<1>1. A \in SUBSET Season
  BY Standing DEF Invocation
<1>2. IsFiniteSet(A) /\ SumFunctionOnSet(budget, A) \in Nat /\ \A s \in A : budget[s] \in Nat
  BY <1>1, Promises DEF Readable
<1>3. Outstanding(p) = SumFunctionOnSet(g, A)
  BY DEF Outstanding, SumFunction
<1>4. \A s \in A : g[s] = budget[s] /\ g[s] \in Int
  BY <1>2
<1> HIDE DEF g
<1>5. SumFunctionOnSet(g, A) = SumFunctionOnSet(budget, A)
  BY <1>2, <1>4, SumSame
<1> QED
  BY <1>1, <1>2, <1>3, <1>5

(* Credit never exceeds what the target counts as promised.                  *)
LEMMA Covered ==
    ASSUME IInv, NEW p \in Process, run[p].op \in Drawing, Readable(p),
           OwnedSeasons \subseteq run[p].active
    PROVE  /\ Home(p) \in OwnedSeasons /\ budget[Home(p)] \in Nat
           /\ budget[Home(p)] <= Outstanding(p)
           /\ Additional(p) \in Nat /\ Outstanding(p) \in Nat /\ Total \in Nat
           /\ Target(p) = Total + Outstanding(p) + Additional(p)
                - (IF budget[Home(p)] < Additional(p) THEN budget[Home(p)] ELSE Additional(p))
           /\ Total + Additional(p) <= Target(p)
<1>1. own[p] = {Home(p)} /\ own[p] \in SUBSET Season
  BY Standing DEF Drawing, Homeless, IInv, TypeOK, LocksTypeOK
<1>2. Home(p) \in OwnedSeasons
  BY <1>1 DEF OwnedSeasons, Owned
<1>3. /\ run[p].active \in SUBSET Season
      /\ Outstanding(p) = SumFunctionOnSet(budget, run[p].active) /\ Outstanding(p) \in Nat
  BY OutstandingIs
<1>4. budget[Home(p)] \in Nat /\ budget[Home(p)] <= Outstanding(p)
  BY <1>2, <1>3, Promises DEF Readable
<1>5. Total \in Nat
  BY TypedWeighable DEF IInv, Weighable
<1>6. Additional(p) \in Nat
  BY AdditionalTyped
<1>7. Target(p) = Total + Outstanding(p) + Additional(p)
        - (IF budget[Home(p)] < Additional(p) THEN budget[Home(p)] ELSE Additional(p))
  BY DEF Target, Credit, Drawing
<1> QED
  BY <1>2, <1>3, <1>4, <1>5, <1>6, <1>7

(* The file at work is one of the selection.                                 *)
LEMMA AtIsFile ==
    ASSUME IInv, NEW p \in Process, run[p].op = "recover" \/ run[p].op \in AtFile
    PROVE  /\ At(p) \in run[p].scope /\ At(p) \in File
           /\ run[p].op = "recover" => At(p) \in run[p].left
           /\ run[p].op \in AtFile => At(p) \in run[p].todo
<1>1. Course(run[p]) /\ (run[p].op # "off" => run[p].scope \in Scope)
  BY Standing
<1>2. run[p].op # "off" /\ run[p].scope \subseteq File
  BY <1>1, CacheAssumption DEF AtFile
<1>3. CASE run[p].op = "recover"
  <2>1. run[p].left # {} /\ run[p].left \subseteq run[p].scope
    BY <1>1, <1>3 DEF Course
  <2>2. At(p) \in run[p].left
    BY <1>3, <2>1 DEF At
  <2> QED
    BY <1>2, <1>3, <2>1, <2>2 DEF AtFile
<1>4. CASE run[p].op \in AtFile
  <2>1. run[p].todo # {} /\ run[p].todo \subseteq run[p].scope /\ run[p].op # "recover"
    BY <1>1, <1>4 DEF Course, Fetching, AtFile
  <2>2. At(p) \in run[p].todo
    BY <2>1 DEF At
  <2> QED
    BY <1>2, <2>1, <2>2
<1> QED
  BY <1>3, <1>4

(* What a process looks at is what it was, where nothing is written and it   *)
(* does not move.                                                            *)
LEMMA SameView ==
    ASSUME NEW q \in Process, run'[q] = run[q], UNCHANGED <<diskVars, budget>>
    PROVE  /\ Target(q)' = Target(q) /\ Readable(q)' = Readable(q)
           /\ Spends(q)' = Spends(q) /\ At(q)' = At(q)
<1>1. UNCHANGED <<marked, staged, spoilt, kept, frozen>>
  BY DEF diskVars
<1>2. At(q)' = At(q)
  BY DEF At
<1>3. Missing(q)' = Missing(q)
  BY <1>1 DEF Missing
<1>4. Additional(q)' = Additional(q)
  BY <1>1, <1>2, <1>3 DEF Additional, MarkerOf
<1>5. Home(q)' = Home(q)
  BY DEF Home
<1>6. Credit(q)' = Credit(q)
  BY <1>4, <1>5 DEF Credit
<1>7. Outstanding(q)' = Outstanding(q)
  BY DEF Outstanding
<1>8. Total' = Total
  BY TotalSame
<1>9. Asks(q)' = Asks(q)
  BY <1>1, <1>2 DEF Asks
<1> QED
  BY <1>2, <1>4, <1>6, <1>7, <1>8, <1>9 DEF Target, Readable, Spends

LEMMA OthersCleared ==
    ASSUME IInv, Weighed, NEW p \in Process, Moves(p), NEW q \in Process \ {p}
    PROVE  Cleared(q)' /\ Receipt(q)'
<1>1. Alone(p) /\ (holder = p \/ Unwritten)
  BY WritersHold
<1>2. run'[q] = run[q]
  BY <1>1 DEF Alone
<1>3. ASSUME run[q].step \in InTransaction
      PROVE  UNCHANGED <<diskVars, budget>> /\ OwnedSeasons' \subseteq OwnedSeasons
  <2>1. holder = q
    BY <1>3 DEF IInv, Holding
  <2> QED
    BY <1>1, <2>1 DEF Unwritten
<1>4. Cleared(q)'
  <2> SUFFICES ASSUME run[q].step = "write", Spends(q)'
               PROVE  Readable(q)' /\ Target(q)' <= Cap /\ OwnedSeasons' \subseteq run[q].active
    BY <1>2 DEF Cleared
  <2>1. UNCHANGED <<diskVars, budget>> /\ OwnedSeasons' \subseteq OwnedSeasons
    BY <1>3 DEF InTransaction
  <2>2. Spends(q)
    BY <1>2, <2>1, SameView
  <2>3. Readable(q) /\ Target(q) <= Cap /\ OwnedSeasons \subseteq run[q].active
    BY <2>2 DEF Weighed, Cleared
  <2> QED
    BY <1>2, <2>1, <2>3, SameView
<1>5. Receipt(q)'
  <2> SUFFICES ASSUME run[q].op = "finish"
               PROVE  staged'[At(q)'] = 1 + run[q].body
    BY <1>2 DEF Receipt
  <2>1. run[q].step \in InTransaction
    <3>1. Course(run[q]) /\ run[q] \in Invocation
      BY Standing
    <3> QED
      BY <3>1 DEF Course, Invocation, Steps, InTransaction, Away
  <2>2. UNCHANGED <<diskVars, budget>>
    BY <1>3, <2>1
  <2>3. At(q)' = At(q) /\ staged' = staged
    BY <1>2, <2>2, SameView DEF diskVars
  <2>4. staged[At(q)] = 1 + run[q].body
    BY DEF Weighed, Receipt
  <2> QED
    BY <2>3, <2>4
<1> QED
  BY <1>4, <1>5

(* Whoever is through with an operation has to ask again.                    *)
LEMMA SettledCleared ==
    ASSUME NEW p \in Process, Settles(p)
    PROVE  Cleared(p)' /\ Receipt(p)'
BY DEF Settles, Cleared, Receipt

LEMMA SettingSettles ==
    ASSUME IInv, NEW p \in Process, NEW r \in Invocation, Set(p, r),
           r.step \in {"wait", "idle"}, r.op # "finish"
    PROVE  Settles(p)
BY SetRecord DEF Settles

(* Room for the operation, and all promises, once the trimming is done.      *)
LEMMA TrimCleared ==
    ASSUME IInv, IInv', Weighed, NEW p \in Process, Trim(p)
    PROVE  Total' <= Cap /\ Cleared(p)' /\ Receipt(p)'
<1> DEFINE W == Weighing(Victims(p))
           C == Cardinality(Pruned(p))
<1>1. Total' = Total - W - C /\ W \in Nat /\ C \in Nat
  BY TotalTrimmed
<1>2. /\ run[p].step = "survey" /\ Readable(p) /\ Target(p) - W - C <= Cap
      /\ run[p].op # "off"
  <2>1. run[p].step = "survey" /\ Readable(p) /\ Fits(p)
    BY DEF Trim, Surveyed
  <2>2. run[p].op = "off" => run[p] = Off
    BY Standing DEF Course
  <2>3. Off.step = "idle"
    BY DEF Off
  <2> QED
    BY <2>1, <2>2, <2>3 DEF Fits
<1>3. run[p] \in Invocation /\ run[p].scope \in Scope /\ run[p].scope \subseteq File
  BY <1>2, Standing, CacheAssumption
<1>4. /\ run'[p] = [run[p] EXCEPT !.step = "write"] /\ own' = own /\ budget' = budget
      /\ staged' = staged /\ spoilt' = spoilt /\ marked' = marked \ Victims(p)
      /\ kept' = [f \in File |-> IF f \in Victims(p) THEN 0 ELSE kept[f]]
  BY Standing DEF Trim, lockVars
<1>5. /\ run'[p].op = run[p].op /\ run'[p].scope = run[p].scope /\ run'[p].left = run[p].left
      /\ run'[p].todo = run[p].todo /\ run'[p].body = run[p].body
      /\ run'[p].active = run[p].active
  BY <1>3, <1>4 DEF Invocation
<1>6. At(p)' = At(p)
  BY <1>5 DEF At
<1>7. Outstanding(p)' = Outstanding(p) /\ Home(p)' = Home(p) /\ Readable(p)' = Readable(p)
  BY <1>4, <1>5 DEF Outstanding, Home, Readable
<1>8. OwnedSeasons' \subseteq run'[p].active
  <2>1. OwnedSeasons' = OwnedSeasons
    BY <1>4 DEF OwnedSeasons, Owned
  <2>2. OwnedSeasons \subseteq run[p].active
    BY SurveyHolds DEF Trim, OwnedSeasons, Owned
  <2> QED
    BY <1>5, <2>1, <2>2
<1>9. ASSUME run[p].op \notin {"open", "claim"}
      PROVE  Additional(p)' = Additional(p)
  <2>1. \A f \in run[p].scope : f \notin Victims(p)
    BY <1>9 DEF Victims, Evictable, Pinned
  <2>2. Missing(p)' = Missing(p)
    BY <1>3, <1>4, <1>5, <2>1 DEF Missing
  <2>3. CASE run[p].op = "reserve"
    <3>1. At(p) \in run[p].scope
      BY <2>3, AtIsFile DEF AtFile
    <3>2. MarkerOf(At(p))' = MarkerOf(At(p))
      BY <1>4, <1>6, <2>1, <3>1 DEF MarkerOf
    <3> QED
      BY <1>5, <2>3, <3>2 DEF Additional
  <2>4. CASE run[p].op # "reserve"
    BY <1>5, <2>2, <2>4 DEF Additional
  <2> QED
    BY <2>3, <2>4
<1>10. run[p].op \in {"open", "claim"} =>
          /\ Additional(p)' = 0 /\ Additional(p) = 0
          /\ Credit(p)' = 0 /\ Credit(p) = 0
  BY <1>5 DEF Additional, Credit
<1>11. Additional(p)' = Additional(p) /\ Credit(p)' = Credit(p)
  <2>1. CASE run[p].op \in {"open", "claim"}
    BY <1>10, <2>1
  <2>2. CASE run[p].op \notin {"open", "claim"}
    BY <1>4, <1>5, <1>7, <1>9, <2>2 DEF Credit
  <2> QED
    BY <2>1, <2>2
<1>12. Outstanding(p) \in Nat /\ Total \in Nat
  BY <1>2, OutstandingIs, TypedWeighable DEF IInv, Weighable
<1>13. Additional(p) \in Nat /\ Credit(p) \in Int
  <2>1. Additional(p) \in Nat
    BY AdditionalTyped
  <2>2. CASE run[p].op \in {"open", "claim"}
    BY <1>10, <2>1, <2>2
  <2>3. CASE run[p].op \notin {"open", "claim"}
    <3>1. own[p] = {Home(p)}
      BY <1>2, <2>3, Standing DEF Homeless
    <3>2. Home(p) \in run[p].active /\ Home(p) \in Season
      BY <1>3, <3>1, HomeTyped, SurveyHolds DEF Trim, Home
    <3>3. budget[Home(p)] \in Nat
      BY <1>2, <3>2 DEF Readable, IInv, TypeOK, LocksTypeOK
    <3> QED
      BY <2>1, <2>3, <3>3 DEF Credit
  <2> QED
    BY <2>2, <2>3
<1> HIDE DEF W, C
<1>14. Target(p)' <= Cap
  BY <1>1, <1>2, <1>7, <1>11, <1>12, <1>13, CacheAssumption DEF Target
<1>15. Total' <= Cap
  BY <1>1, <1>12, CacheAssumption DEF Weighed
<1>16. Receipt(p)'
  BY <1>4, <1>5, <1>6 DEF Weighed, Receipt
<1> QED
  BY <1>7, <1>8, <1>14, <1>15, <1>16, <1>2 DEF Cleared

(* What may be written fits.                                                 *)
LEMMA FitsIn ==
    ASSUME IInv, Weighed, NEW p \in Process, NEW o \in Drawing, Writing(p, o), Spends(p)
    PROVE  Total + Additional(p) <= Cap /\ Additional(p) \in Nat /\ Total \in Nat
<1>1. run[p].op = o /\ run[p].step = "write"
  BY DEF Writing
<1>2. Readable(p) /\ Target(p) <= Cap /\ OwnedSeasons \subseteq run[p].active
  BY <1>1 DEF Weighed, Cleared
<1>3. /\ Total + Additional(p) <= Target(p) /\ Outstanding(p) \in Nat
      /\ Additional(p) \in Nat /\ Total \in Nat /\ budget[Home(p)] \in Nat
      /\ Target(p) = Total + Outstanding(p) + Additional(p)
           - (IF budget[Home(p)] < Additional(p) THEN budget[Home(p)] ELSE Additional(p))
  BY <1>1, <1>2, Covered
<1> QED
  BY <1>2, <1>3, CacheAssumption

(* The writes, by what they add.                                             *)
LEMMA FreezeAdds ==
    ASSUME IInv, IInv', NEW p \in Process, Freeze(p)
    PROVE  Total' <= Total + 1 /\ Total \in Nat /\ Total' \in Nat
<1>1. run[p].scope \in Scope
  BY AtWork DEF Freeze
<1>2. PICK g \in run[p].scope : g \in File
  BY <1>1, CacheAssumption
<1>3. UNCHANGED <<marked, staged, kept>> /\ frozen' = frozen \union {run[p].scope}
  BY DEF Freeze
<1>4. \A f \in File : Weight(f)' = Weight(f)
  BY <1>3 DEF Weight, EntryOf, MarkerOf
<1>5. IsFiniteSet(frozen) /\ Cardinality(frozen) \in Nat
  BY TypedWeighable DEF IInv, Weighable
<1>6. Cardinality(frozen') <= Cardinality(frozen) + 1
  <2> DEFINE c == run[p].scope
  <2>1. Cardinality(frozen \union {c}) =
            IF c \in frozen THEN Cardinality(frozen) ELSE Cardinality(frozen) + 1
    BY <1>5, FS_AddElement
  <2>2. frozen' = frozen \union {c}
    BY <1>3
  <2> HIDE DEF c
  <2> QED
    BY <1>5, <2>1, <2>2
<1>7. /\ Total' = Total + (Cardinality(frozen') - Cardinality(frozen))
                        + (Weight(g)' - Weight(g))
      /\ Total \in Nat /\ Total' \in Nat /\ Weight(g) \in Nat /\ Weight(g)' \in Nat
      /\ Cardinality(frozen') \in Nat
  BY <1>2, <1>4, TotalChange
<1>8. Weight(g)' = Weight(g)
  BY <1>2, <1>4
<1> QED
  BY <1>5, <1>6, <1>7, <1>8

(* A write to one file.                                                      *)
LEMMA FileAdds ==
    ASSUME IInv, IInv', NEW g \in File, frozen' = frozen,
           \A f \in File \ {g} : /\ f \in marked' <=> f \in marked
                                 /\ staged'[f] = staged[f] /\ kept'[f] = kept[f]
    PROVE  /\ Total' = Total + (Weight(g)' - Weight(g)) /\ Total \in Nat /\ Total' \in Nat
           /\ staged[g] \in Nat /\ kept[g] \in Nat /\ MarkerOf(g) \in 0..1
           /\ staged'[g] \in Nat /\ kept'[g] \in Nat
<1>1. \A f \in File \ {g} : Weight(f)' = Weight(f)
  BY DEF Weight, EntryOf, MarkerOf
<1>2. /\ Total' = Total + (Cardinality(frozen') - Cardinality(frozen))
                        + (Weight(g)' - Weight(g))
      /\ Total \in Nat /\ Total' \in Nat /\ Weight(g) \in Nat /\ Weight(g)' \in Nat
      /\ Cardinality(frozen) \in Nat
  BY <1>1, TotalChange
<1>3. Weighable /\ Weighable'
  BY TypedWeighable, WeighableThen DEF IInv
<1>4. /\ staged[g] \in Nat /\ kept[g] \in Nat /\ MarkerOf(g) \in 0..1
      /\ staged'[g] \in Nat /\ kept'[g] \in Nat
  BY <1>3 DEF Weighable
<1> QED
  BY <1>2, <1>4

LEMMA MarkerAdds ==
    ASSUME IInv, IInv', NEW g \in File, marked' = marked \union {g},
           UNCHANGED <<staged, kept, frozen>>
    PROVE  /\ Total' = Total + (1 - MarkerOf(g)) /\ Total \in Nat /\ Total' \in Nat
           /\ MarkerOf(g) \in 0..1
<1>1. /\ Total' = Total + (Weight(g)' - Weight(g)) /\ Total \in Nat /\ Total' \in Nat
      /\ staged[g] \in Nat /\ kept[g] \in Nat /\ MarkerOf(g) \in 0..1
  BY FileAdds
<1>2. MarkerOf(g)' = 1 /\ staged' = staged /\ kept' = kept
  BY DEF MarkerOf
<1>3. Weight(g)' = Weight(g) + (1 - MarkerOf(g))
  BY <1>1, <1>2 DEF Weight, EntryOf
<1>4. Weight(g) \in Nat
  BY TypedWeighable DEF IInv, Weighable
<1> QED
  BY <1>1, <1>3, <1>4

LEMMA StagingAdds ==
    ASSUME IInv, IInv', NEW g \in File, NEW n \in Nat,
           staged' = [staged EXCEPT ![g] = n], UNCHANGED <<marked, kept, frozen>>
    PROVE  Total' = Total + n - staged[g] /\ Total \in Nat /\ Total' \in Nat /\ staged[g] \in Nat
<1>1. staged \in [File -> 0..LargestBody + 1]
  BY DEF IInv, TypeOK
<1>2. /\ Total' = Total + (Weight(g)' - Weight(g)) /\ Total \in Nat /\ Total' \in Nat
      /\ staged[g] \in Nat /\ kept[g] \in Nat /\ MarkerOf(g) \in 0..1
  BY <1>1, FileAdds
<1>3. staged'[g] = n
  BY <1>1
<1>4. Weight(g)' = Weight(g) + n - staged[g]
  BY <1>2, <1>3 DEF Weight, EntryOf, MarkerOf
<1>5. Weight(g) \in Nat
  BY TypedWeighable DEF IInv, Weighable
<1> QED
  BY <1>2, <1>4, <1>5

LEMMA PublishAdds ==
    ASSUME IInv, IInv', NEW p \in Process, NEW g \in File, NEW n \in Nat \ {0},
           Publish(p, g, n), staged[g] = 1 + n, UNCHANGED <<marked, frozen>>
    PROVE  /\ Total' <= Total /\ Total \in Nat /\ Total' \in Nat
           /\ kept[g] = 0 => Total' = Total
<1>1. staged \in [File -> 0..LargestBody + 1] /\ kept \in [File -> 0..LargestBody]
  BY DEF IInv, TypeOK
<1>2. staged' = [staged EXCEPT ![g] = 0] /\ kept' = [kept EXCEPT ![g] = n]
  BY DEF Publish
<1>3. staged'[g] = 0 /\ kept'[g] = n
  BY <1>1, <1>2
<1>4. /\ Total' = Total + (Weight(g)' - Weight(g)) /\ Total \in Nat /\ Total' \in Nat
      /\ staged[g] \in Nat /\ kept[g] \in Nat /\ MarkerOf(g) \in 0..1
  BY <1>1, <1>2, FileAdds
<1>5. MarkerOf(g)' = MarkerOf(g)
  BY DEF MarkerOf
<1>6. Weight(g)' = n + 1 + MarkerOf(g)
  BY <1>3, <1>4, <1>5 DEF Weight, EntryOf
<1>7. Weight(g) = 1 + n + IF kept[g] > 0 THEN kept[g] + 1 + MarkerOf(g) ELSE MarkerOf(g)
  BY <1>4 DEF Weight, EntryOf
<1> QED
  BY <1>4, <1>6, <1>7

(* Every transaction's write stays within the cap.                           *)
LEMMA WriteKeepsCap ==
    ASSUME IInv, IInv', Weighed, NEW p \in Process,
           \/ Freeze(p) \/ Recover(p) \/ Reserve(p) \/ Stage(p) \/ Finish(p)
           \/ StageFails(p) \/ ConsumeFails(p)
    PROVE  Total' <= Cap
<1>1. Total <= Cap /\ Cap \in Nat
  BY CacheAssumption DEF Weighed
<1>2. ASSUME NEW o \in Drawing, Writing(p, o), Spends(p)
      PROVE  Total + Additional(p) <= Cap /\ Additional(p) \in Nat /\ Total \in Nat
  BY <1>2, FitsIn
<1>3. CASE Freeze(p)
  <2>1. Writing(p, "freeze") /\ Total' <= Total + 1 /\ Total \in Nat /\ Total' \in Nat
    BY <1>3, FreezeAdds DEF Freeze
  <2>2. Spends(p) /\ Additional(p) = 1
    BY <2>1 DEF Spends, Asks, Writing, Additional
  <2>3. Total + Additional(p) <= Cap
    BY <1>2, <2>1, <2>2 DEF Drawing
  <2> QED
    BY <1>1, <2>1, <2>2, <2>3
<1>4. CASE Recover(p)
  <2> DEFINE f == At(p)
  <2>1. Writing(p, "recover") /\ UNCHANGED <<marked, spoilt, frozen, elder>>
    BY <1>4 DEF Recover
  <2>2. \/ UNCHANGED <<staged, kept, older>>
        \/ kept[f] = 0 /\ staged[f] > 0 /\ f \notin spoilt /\ Publish(p, f, staged[f] - 1)
    BY <1>4 DEF Recover
  <2>3. CASE UNCHANGED <<staged, kept, older>>
    BY <1>1, <2>1, <2>3, TotalSame DEF diskVars
  <2>4. CASE kept[f] = 0 /\ staged[f] > 0 /\ f \notin spoilt /\ Publish(p, f, staged[f] - 1)
    <3>1. f \in File
      BY <2>1, AtIsFile DEF Writing
    <3>2. staged[f] \in Nat /\ staged[f] > 1
      BY <2>4, <3>1, TypedWeighable DEF IInv, Recoverable, Weighable
    <3>3. Total' <= Total /\ Total \in Nat /\ Total' \in Nat
      BY <2>1, <2>4, <3>1, <3>2, PublishAdds
    <3> QED
      BY <1>1, <3>3
  <2> QED
    BY <2>2, <2>3, <2>4
<1>5. CASE Reserve(p) \/ ConsumeFails(p)
  <2>1. /\ Writing(p, "reserve") /\ marked' = marked \union {At(p)}
        /\ UNCHANGED <<staged, kept, frozen>>
    BY <1>5 DEF Reserve, ConsumeFails
  <2>2. At(p) \in File
    BY <2>1, AtIsFile DEF Writing, AtFile
  <2>3. Total' = Total + (1 - MarkerOf(At(p))) /\ Total \in Nat /\ Total' \in Nat
    BY <2>1, <2>2, MarkerAdds
  <2>4. Spends(p) /\ Additional(p) = 1 - MarkerOf(At(p))
    BY <2>1 DEF Spends, Asks, Writing, Additional
  <2>5. Total + Additional(p) <= Cap
    BY <1>2, <2>1, <2>4 DEF Drawing
  <2> QED
    BY <2>3, <2>4, <2>5
<1>6. CASE Stage(p) \/ StageFails(p)
  <2> DEFINE n == IF Stage(p) THEN 1 + run[p].body ELSE 1
  <2>1. Writing(p, "stage")
    BY <1>6 DEF Stage, StageFails
  <2>2. staged' = [staged EXCEPT ![At(p)] = n] /\ UNCHANGED <<marked, kept, frozen>>
    BY <1>6 DEF Stage, StageFails
  <2>3. At(p) \in File
    BY <2>1, AtIsFile DEF Writing, AtFile
  <2>4. run[p].body \in Nat
    <3>1. run[p].body \in 0..LargestBody
      BY Standing DEF Invocation
    <3> QED
      BY <3>1, CacheAssumption
  <2>5. Spends(p) /\ Additional(p) = 1 + run[p].body
    BY <2>1 DEF Spends, Asks, Writing, Additional
  <2>6. n \in Nat /\ n <= Additional(p)
    BY <2>4, <2>5
  <2> HIDE DEF n
  <2>7. Total' = Total + n - staged[At(p)] /\ Total' \in Nat /\ staged[At(p)] \in Nat
    BY <2>2, <2>3, <2>6, StagingAdds
  <2>8. Total + Additional(p) <= Cap /\ Total \in Nat /\ Additional(p) \in Nat
    BY <1>2, <2>1, <2>5 DEF Drawing
  <2> QED
    BY <1>1, <2>6, <2>7, <2>8
<1>7. CASE Finish(p)
  <2>1. /\ Writing(p, "finish") /\ Publish(p, At(p), run[p].body)
        /\ UNCHANGED <<marked, frozen>>
    BY <1>7 DEF Finish
  <2>2. At(p) \in File
    BY <2>1, AtIsFile DEF Writing, AtFile
  <2>3. staged[At(p)] = 1 + run[p].body
    BY <2>1 DEF Weighed, Receipt, Writing
  <2>4. run[p].body \in Nat \ {0}
    <3>1. run[p].body \in 0..LargestBody /\ run[p].body > 0
      BY <2>1, Standing DEF Writing, Course, Invocation
    <3> QED
      BY <3>1, CacheAssumption
  <2>5. Total' <= Total /\ Total \in Nat /\ Total' \in Nat
    BY <2>1, <2>2, <2>3, <2>4, PublishAdds
  <2> QED
    BY <1>1, <2>5
<1> QED
  BY <1>3, <1>4, <1>5, <1>6, <1>7

(* A survey, and the staging that finishes in the same transaction.          *)
Surveying(p) ==
    \/ Lock(p) \/ Trim(p)
    \/ \E s \in Season : Survey(p, s) \/ LetGo(p, s)
    \/ Stage(p) /\ run[p].sound

(* Every other step of p ends an operation.                                  *)
LEMMA OwnSettles ==
    ASSUME IInv, NEW p \in Process, Moves(p), ~Surveying(p)
    PROVE  Settles(p)
<1> DEFINE r == run[p]
<1>1. /\ run \in [Process -> Invocation] /\ r \in Invocation /\ Course(r)
      /\ "finish" \notin {"wait", "idle"}
  BY Standing
<1>2. Off \in Invocation /\ Off.step = "idle" /\ Off.op = "off"
  BY OffCourse DEF Course, Off
<1>3. ASSUME NEW q \in Invocation, Set(p, q), q.step \in {"wait", "idle"}, q.op # "finish"
      PROVE  Settles(p)
  BY <1>3, SettingSettles
<1>4. ASSUME Set(p, GiveUp(p)), r.op # "off", r.step # "idle" \/ r.op = "post"
      PROVE  Settles(p)
  BY <1>3, <1>4, GiveUpRecord
<1>5. ASSUME NEW q \in Invocation, NEW o \in Ops \ {"finish"}, Set(p, Goto(q, o))
      PROVE  Settles(p)
  BY <1>3, <1>5, GotoRecord
<1>6. ASSUME NEW c \in Scope, Begin(p, c)
      PROVE  Settles(p)
  <2> DEFINE g == Goto(Off, "open")
             n == [g EXCEPT !.scope = c]
  <2>1. g \in Invocation /\ g.op = "open" /\ g.step \in {"wait", "idle"}
    BY <1>2, GotoRecord DEF Ops
  <2>2. Set(p, n)
    BY <1>6 DEF Begin
  <2> HIDE DEF g
  <2>3. n \in Invocation /\ n.op = "open" /\ n.step \in {"wait", "idle"}
    BY <2>1 DEF Invocation
  <2> HIDE DEF n
  <2> QED
    BY <1>3, <2>2, <2>3
<1>8. CASE TimeOut(p)
  <2>1. r.step = "wait" /\ Set(p, GiveUp(p))
    BY <1>8 DEF TimeOut
  <2>2. r.op # "off"
    BY <1>1, <1>2, <2>1 DEF Course
  <2> QED
    BY <1>4, <2>1, <2>2
<1>10. CASE Refuse(p)
  <2>1. r.step = "survey" /\ Set(p, GiveUp(p))
    BY <1>10 DEF Refuse, Surveyed
  <2>2. r.op # "off"
    BY <1>1, <1>2, <2>1 DEF Course
  <2> QED
    BY <1>4, <2>1, <2>2
<1>11. CASE Opened(p)
  BY <1>1, <1>5, <1>11 DEF Opened, Ops
<1>12. CASE Claim(p)
  <2>1. \/ Set(p, Off)
        \/ Set(p, Goto([r EXCEPT !.left = r.scope], "recover"))
        \/ Set(p, Goto(r, "freeze"))
    BY <1>12 DEF Claim
  <2>2. [r EXCEPT !.left = r.scope] \in Invocation
    <3>1. r.scope \in SUBSET File
      BY <1>12, AtWork, CacheAssumption DEF Claim
    <3> QED
      BY <1>1, <3>1 DEF Invocation
  <2> QED
    BY <1>1, <1>2, <1>3, <1>5, <2>1, <2>2 DEF Ops
<1>13. CASE Freeze(p)
  <2>1. [r EXCEPT !.left = r.scope] \in Invocation
    <3>1. r.scope \in SUBSET File
      BY <1>13, AtWork, CacheAssumption DEF Freeze
    <3> QED
      BY <1>1, <3>1 DEF Invocation
  <2> QED
    BY <1>5, <1>13, <2>1 DEF Freeze, Ops
<1>14. CASE Recover(p)
  <2> DEFINE f == At(p)
             n == [r EXCEPT !.left = @ \ {f}]
             m == [n EXCEPT !.todo = @ \union {f}]
  <2>1. /\ r.op = "recover" /\ r.step = "write"
        /\ Set(p, Decide(n)) \/ Set(p, Decide(m)) \/ Set(p, GiveUp(p))
    BY <1>14 DEF Recover, Writing
  <2>2. f \in File
    BY <2>1, AtIsFile
  <2>3. n \in Invocation
    BY <1>1 DEF Invocation
  <2> HIDE DEF n
  <2>4. m \in Invocation
    BY <2>2, <2>3 DEF Invocation
  <2> HIDE DEF m
  <2>5. ASSUME NEW q \in Invocation, Set(p, Decide(q))
        PROVE  Settles(p)
    BY <1>3, <2>5, DecideRecord
  <2> QED
    BY <1>4, <2>1, <2>3, <2>4, <2>5
<1>15. CASE Prepare(p)
  BY <1>1, <1>5, <1>15 DEF Prepare, Ops
<1>16. CASE Reserve(p)
  BY <1>1, <1>5, <1>16 DEF Reserve, Ops
<1>17. CASE Download(p)
  <2>1. r.op = "post"
    BY <1>17 DEF Download
  <2>2. \/ \E n \in 1..LargestBody, sound \in BOOLEAN :
              Set(p, Goto([r EXCEPT !.body = n, !.sound = sound], "stage"))
        \/ Set(p, GiveUp(p))
        \/ Set(p, Goto(r, "drop"))
    BY <1>17 DEF Download
  <2>3. ASSUME NEW n \in 1..LargestBody, NEW sound \in BOOLEAN,
               Set(p, Goto([r EXCEPT !.body = n, !.sound = sound], "stage"))
        PROVE  Settles(p)
    <3>1. n \in 0..LargestBody
      BY CacheAssumption
    <3>2. [r EXCEPT !.body = n, !.sound = sound] \in Invocation
      BY <1>1, <3>1 DEF Invocation
    <3> QED
      BY <1>5, <2>3, <3>2 DEF Ops
  <2> QED
    BY <1>1, <1>4, <1>5, <2>1, <2>2, <2>3 DEF Ops
<1>18. CASE Stage(p) /\ ~r.sound
  <2>1. r.op = "stage" /\ r.step = "write" /\ Set(p, GiveUp(p))
    BY <1>18 DEF Stage, Writing
  <2> QED
    BY <1>4, <2>1
<1>19. CASE Finish(p)
  <2> DEFINE n == [r EXCEPT !.todo = @ \ {At(p)}, !.body = 0]
  <2>1. Set(p, Proceed(n))
    BY <1>19 DEF Finish
  <2>2. 0 \in 0..LargestBody
    BY CacheAssumption
  <2>3. n \in Invocation
    BY <1>1, <2>2 DEF Invocation
  <2> HIDE DEF n
  <2> QED
    BY <1>3, <2>1, <2>3, ProceedRecord
<1>20. CASE References(p)
  BY <1>1, <1>5, <1>20 DEF References, Ops
<1>21. CASE Drop(p) \/ Die(p)
  BY <1>2, <1>3, <1>21 DEF Drop, Die
<1>22. CASE StageFails(p) \/ ConsumeFails(p)
  <2>1. r.op \in {"stage", "reserve"} /\ r.step = "write" /\ Set(p, GiveUp(p))
    BY <1>22 DEF StageFails, ConsumeFails, Writing
  <2> QED
    BY <1>4, <2>1
<1> QED
  BY <1>6, <1>8, <1>10, <1>11, <1>12, <1>13, <1>14, <1>15, <1>16, <1>17,
     <1>18, <1>19, <1>20, <1>21, <1>22
  DEF Moves, Working, Surveying

(* Where an operation of p ends, p has to ask again.                         *)
LEMMA OwnCleared ==
    ASSUME IInv, IInv', Weighed, NEW p \in Process, Moves(p), ~Trim(p)
    PROVE  Cleared(p)' /\ Receipt(p)'
<1> DEFINE r == run[p]
<1>1. /\ run \in [Process -> Invocation] /\ r \in Invocation /\ Course(r)
      /\ "finish" \notin {"wait", "idle"}
  BY Standing
<1>7. CASE Lock(p)
  <2>1. /\ r.step = "wait" /\ run'[p] = [r EXCEPT !.step = IF Asks(p) THEN "survey" ELSE "write"]
        /\ UNCHANGED <<marked, staged, spoilt, kept>>
    BY <1>1, <1>7 DEF Lock, diskVars
  <2>2. r.op # "finish"
    BY <1>1, <2>1 DEF Course
  <2>3. /\ run'[p].op = r.op /\ run'[p].left = r.left /\ run'[p].todo = r.todo
        /\ run'[p].step = IF Asks(p) THEN "survey" ELSE "write"
    BY <1>1, <2>1 DEF Invocation
  <2>4. At(p)' = At(p)
    BY <2>3 DEF At
  <2>5. Asks(p)' = Asks(p)
    BY <2>1, <2>3, <2>4 DEF Asks
  <2> QED
    BY <2>2, <2>3, <2>5 DEF Cleared, Receipt, Spends
<1>9. ASSUME NEW s \in Season, Survey(p, s) \/ LetGo(p, s)
      PROVE  Cleared(p)' /\ Receipt(p)'
  <2>1. r.step = "survey" /\ staged' = staged
    BY <1>9 DEF Survey, LetGo, diskVars
  <2>2. /\ run'[p].step = r.step /\ run'[p].op = r.op /\ run'[p].left = r.left
        /\ run'[p].todo = r.todo /\ run'[p].body = r.body
    <3>1. \/ run'[p] = r
          \/ run'[p] = [r EXCEPT !.seen = @ \union {s}, !.active = @ \union {s}]
          \/ run'[p] = [r EXCEPT !.seen = @ \union {s}]
      BY <1>1, <1>9 DEF Survey, LetGo
    <3> QED
      BY <1>1, <3>1 DEF Invocation
  <2>3. At(p)' = At(p)
    BY <2>2 DEF At
  <2>4. Receipt(p)
    BY DEF Weighed
  <2>5. Receipt(p)'
    BY <2>1, <2>2, <2>3, <2>4 DEF Receipt
  <2>6. Cleared(p)'
    BY <2>1, <2>2 DEF Cleared
  <2> QED
    BY <2>5, <2>6
<1>10. CASE \E s \in Season : Survey(p, s) \/ LetGo(p, s)
  BY <1>9, <1>10
<1>18. CASE Stage(p) /\ r.sound
  <2> DEFINE n == [r EXCEPT !.op = "finish", !.step = "survey"]
  <2>0. r.op = "stage"
    BY <1>18 DEF Stage, Writing
  <2>1. Set(p, n) /\ staged' = [staged EXCEPT ![At(p)] = 1 + r.body]
    BY <1>18 DEF Stage
  <2>2. /\ n \in Invocation /\ n.op = "finish" /\ n.step = "survey"
        /\ n.todo = r.todo /\ n.body = r.body
    BY <1>1 DEF Invocation, Ops, Steps
  <2> HIDE DEF n
  <2>3. /\ run'[p].op = "finish" /\ run'[p].step = "survey" /\ run'[p].todo = r.todo
        /\ run'[p].body = r.body
    BY <2>1, <2>2, SetRecord
  <2>4. At(p)' = At(p)
    BY <2>0, <2>3 DEF At
  <2>5. At(p) \in File /\ staged \in [File -> 0..LargestBody + 1]
    BY <2>0, AtIsFile DEF AtFile, IInv, TypeOK
  <2>6. staged'[At(p)] = 1 + r.body
    BY <2>1, <2>5
  <2> QED
    BY <2>3, <2>4, <2>6 DEF Cleared, Receipt
<1>19. CASE ~Surveying(p)
  BY <1>19, OwnSettles, SettledCleared
<1> QED
  BY <1>7, <1>10, <1>18, <1>19 DEF Surveying

LEMMA StepWeighed == IInv /\ IInv' /\ Weighed /\ [Next]_vars => Weighed'
<1> SUFFICES ASSUME IInv, IInv', Weighed, [Next]_vars
             PROVE  Weighed'
  OBVIOUS
<1>1. CASE UNCHANGED vars
  <2>1. UNCHANGED <<diskVars, budget>> /\ run' = run /\ own' = own
    BY <1>1 DEF vars, lockVars
  <2>2. Total' = Total /\ OwnedSeasons' = OwnedSeasons
    BY <2>1, TotalSame DEF OwnedSeasons, Owned
  <2>3. ASSUME NEW q \in Process
        PROVE  Cleared(q)' /\ Receipt(q)'
    <3>1. Cleared(q) /\ Receipt(q) /\ run'[q] = run[q] /\ staged' = staged
      BY <2>1 DEF Weighed, diskVars
    <3>2. /\ Target(q)' = Target(q) /\ Readable(q)' = Readable(q)
          /\ Spends(q)' = Spends(q) /\ At(q)' = At(q)
      BY <2>1, SameView
    <3> QED
      BY <2>2, <3>1, <3>2 DEF Cleared, Receipt
  <2> QED
    BY <2>2, <2>3 DEF Weighed
<1>2. ASSUME NEW p \in Process, Moves(p)
      PROVE  Weighed'
  <2>1. Total <= Cap
    BY DEF Weighed
  <2>2. \A q \in Process \ {p} : Cleared(q)' /\ Receipt(q)'
    BY <1>2, OthersCleared
  <2>3. CASE Trim(p)
    BY <2>2, <2>3, TrimCleared DEF Weighed
  <2>4. CASE ~Trim(p)
    <3>1. Cleared(p)' /\ Receipt(p)'
      BY <1>2, <2>4, OwnCleared
    <3>2. Total' <= Cap
      <4>1. CASE \/ Freeze(p) \/ Recover(p) \/ Reserve(p) \/ Stage(p) \/ Finish(p)
                 \/ StageFails(p) \/ ConsumeFails(p)
        BY <4>1, WriteKeepsCap
      <4>2. CASE ~(\/ Freeze(p) \/ Recover(p) \/ Reserve(p) \/ Stage(p) \/ Finish(p)
                   \/ StageFails(p) \/ ConsumeFails(p))
        <5>1. UNCHANGED diskVars
          BY <1>2, <2>4, <4>2
          DEF Moves, Working, Begin, Lock, TimeOut, Survey, LetGo, Refuse, Opened, Claim,
              Prepare, Download, References, Drop, Die
        <5> QED
          BY <2>1, <5>1, TotalSame
      <4> QED
        BY <4>1, <4>2
    <3> QED
      BY <2>2, <3>1, <3>2 DEF Weighed
  <2> QED
    BY <2>3, <2>4
<1> QED
  BY <1>1, <1>2 DEF Next, Moves

LEMMA InitWeighed == Init => Weighed
<1> SUFFICES ASSUME Init PROVE Weighed
  OBVIOUS
<1>1. \A p \in Process : run[p].op = "off" /\ run[p].step = "idle"
  BY DEF Init, Off
<1>2. \A p \in Process : Cleared(p) /\ Receipt(p)
  BY <1>1 DEF Cleared, Receipt
<1>3. Total = 0
  <2> DEFINE g == [f \in File |-> Weight(f)]
  <2>1. frozen = {} /\ \A f \in File : g[f] = 0
    BY DEF Init, Weight, EntryOf, MarkerOf
  <2>2. Total = Cardinality(frozen) + SumFunctionOnSet(g, File)
    BY DEF Total, SumFunction
  <2> HIDE DEF g
  <2>3. SumFunctionOnSet(g, File) = 0
    BY <2>1, CacheAssumption, SumNone
  <2> QED
    BY <2>1, <2>2, <2>3, FS_EmptySet
<1> QED
  BY <1>2, <1>3, CacheAssumption DEF Weighed

LEMMA AlwaysWeighed == Spec => [](IInv /\ Weighed)
<1>1. Spec => []IInv
  BY AlwaysIInv
<1> QED
  BY <1>1, InitWeighed, StepWeighed, PTL DEF Spec

(* CapKept, for every number of processes and seasons, with deaths and       *)
(* failing writes: between the trimming and the write nobody else can write, *)
(* so the room the trimming made is there, and the write adds no more than   *)
(* was asked for.                                                            *)
THEOREM CapAlwaysKept == Spec => []CapKept
<1>1. Weighed => CapKept
  BY DEF Weighed, CapKept
<1> QED
  BY <1>1, AlwaysWeighed, PTL

-----------------------------------------------------------------------------
(* The promises                                                              *)

(* While no write has failed every budget can be read, the cache and what    *)
(* its owners were promised fit together, whoever surveys will find that     *)
(* they do, and who downloads has what the files it still wants may weigh,   *)
(* less what it has spent on the one at hand.                                *)
Promise(S) == SumFunctionOnSet(budget, S)
Rest(p) == Worst * Cardinality(run[p].todo \ {At(p)})
Extra(p) ==
    CASE run[p].op = "reserve" -> Worst
      [] run[p].op = "post" -> LargestBody + 2
      [] run[p].op = "stage" -> run[p].body + 2
      [] OTHER -> 1
Sound == \A s \in Season : budget[s] # Torn
Fitting == Total + Promise(OwnedSeasons) <= Cap
Reckoned(p) == run[p].step = "survey" => Total + Promise(OwnedSeasons \union run[p].active) <= Cap
Funded(p) == run[p].op \in AtFile => Rest(p) + Extra(p) <= budget[Home(p)]

(* What is to be fetched is not there.                                       *)
Unfetched(p) ==
    /\ run[p].op \in Homeless \union {"freeze"} => run[p].todo = {}
    /\ run[p].op # "drop" => run[p].todo \cap run[p].left = {}
                             /\ \A f \in run[p].todo : kept[f] = 0
Fresh(p) == run[p].active \subseteq run[p].seen

Promised ==
    /\ \A p \in Process : Unfetched(p) /\ Fresh(p)
    /\ failures = 0 =>
         Sound /\ Fitting /\ \A p \in Process : Reckoned(p) /\ Funded(p)

(* The files that a downloading invocation still wants.                      *)
Wants == \A p \in Process : run[p].op \in AtFile =>
    /\ Rest(p) \in Nat /\ Extra(p) \in Nat /\ Worst \in Nat
    /\ Worst * Cardinality(run[p].todo) = Rest(p) + Worst

LEMMA Times ==
    ASSUME NEW w \in Nat, NEW m \in Nat, NEW n \in Nat
    PROVE  /\ w * m \in Nat /\ w * (n + 1) = w * n + w
           /\ m <= n => w * m <= w * n
<1>1. w * m \in Nat /\ w * (n + 1) = w * n + w
  OBVIOUS
<1>2. ASSUME m <= n
      PROVE  w * m <= w * n
  <2>1. PICK d \in Nat : n = m + d
    <3>1. n - m \in Nat /\ n = m + (n - m)
      BY <1>2
    <3> QED
      BY <3>1
  <2>2. w * (m + d) = w * m + w * d /\ w * d \in Nat /\ w * m \in Nat
    OBVIOUS
  <2> QED
    BY <2>1, <2>2
<1> QED
  BY <1>1, <1>2

LEMMA TypedWants == IInv => Wants
<1> SUFFICES ASSUME IInv, NEW p \in Process, run[p].op \in AtFile
             PROVE  /\ Rest(p) \in Nat /\ Extra(p) \in Nat /\ Worst \in Nat
                    /\ Worst * Cardinality(run[p].todo) = Rest(p) + Worst
  BY DEF Wants
<1> DEFINE T == run[p].todo
           n == Cardinality(T \ {At(p)})
<1>1. run[p] \in Invocation /\ T \in SUBSET File
  BY Standing DEF Invocation
<1>2. At(p) \in T
  BY AtIsFile
<1>3. IsFiniteSet(T)
  BY <1>1, CacheAssumption, FS_Subset
<1>4. IsFiniteSet(T \ {At(p)}) /\ n = Cardinality(T) - 1
  BY <1>2, <1>3, FS_RemoveElement
<1>5. n \in Nat /\ Cardinality(T) \in Nat
  BY <1>3, <1>4, FS_CardinalityType
<1>6. Cardinality(T) = n + 1
  <2> HIDE DEF n
  <2> QED
    BY <1>4, <1>5
<1>7. Worst \in Nat
  BY CacheAssumption DEF Worst
<1>8. Rest(p) = Worst * n
  BY DEF Rest
<1> HIDE DEF n
<1>9. Worst * n \in Nat /\ Worst * (n + 1) = Worst * n + Worst
  BY <1>5, <1>7, Times
<1>10. Extra(p) \in Nat
  <2>1. run[p].body \in 0..LargestBody
    BY <1>1 DEF Invocation
  <2> QED
    BY <1>7, <2>1, CacheAssumption DEF Extra
<1> QED
  BY <1>6, <1>7, <1>8, <1>9, <1>10

LEMMA WantsThen == IInv' => Wants'
BY TypedWants, PTL

(* The budgets of the others stay.                                           *)
LEMMA BudgetsStay ==
    ASSUME IInv, NEW p \in Process, Moves(p), NEW q \in Process \ {p}, NEW s \in own[q]
    PROVE  budget'[s] = budget[s] /\ s \in Season
<1>1. /\ own \in [Process -> SUBSET Season] /\ budget \in [Season -> Nat \union {Torn}]
      /\ lock[s] = q /\ NoOne \notin Process
  BY LocksAssumption DEF IInv, TypeOK, LocksTypeOK, OwnersLock
<1>2. s \in Season /\ s \notin own[p]
  BY <1>1 DEF IInv, OwnersLock
<1> SUFFICES budget'[s] = budget[s]
  BY <1>2
<1>3. CASE Claim(p)
  <2>1. budget' = budget \/ (Claimable(Home(p)) /\ budget' = [budget EXCEPT ![Home(p)] = 0])
    BY <1>3 DEF Claim, TakeSeason
  <2>2. Claimable(Home(p)) => Home(p) # s
    BY <1>1 DEF Claimable
  <2> QED
    BY <1>1, <1>2, <2>1, <2>2
<1>4. ASSUME run[p].op \in Drawing, \E v : budget' = [budget EXCEPT ![Home(p)] = v]
      PROVE  budget'[s] = budget[s]
  <2>1. own[p] = {Home(p)}
    BY <1>4, Standing DEF Drawing, Homeless
  <2> QED
    BY <1>1, <1>2, <1>4, <2>1
<1>5. ASSUME run[p].op \in Drawing, NEW n, Consume(Home(p), n)
      PROVE  budget'[s] = budget[s]
  <2>1. budget' = [budget EXCEPT ![Home(p)] = Less(budget[Home(p)], n)]
    BY <1>5 DEF Consume
  <2> QED
    BY <1>4, <1>5, <2>1
<1>6. CASE Freeze(p)
  <2>1. run[p].op \in Drawing /\ Consume(Home(p), Additional(p))
    BY <1>6 DEF Freeze, Writing, Drawing
  <2> QED
    BY <1>5, <2>1
<1>7. CASE Recover(p)
  <2>1. /\ run[p].op \in Drawing
        /\ budget' = budget \/ Consume(Home(p), Additional(p))
    BY <1>7 DEF Recover, Publish, Writing, Drawing
  <2> QED
    BY <1>5, <2>1
<1>8. CASE Prepare(p)
  <2>1. run[p].op \in Drawing /\ budget' = [budget EXCEPT ![Home(p)] = Additional(p)]
    BY <1>8 DEF Prepare, Writing, Drawing
  <2> QED
    BY <1>4, <2>1
<1>9. CASE Reserve(p) \/ Stage(p) \/ Finish(p)
  <2>1. run[p].op \in Drawing /\ Consume(Home(p), Additional(p))
    BY <1>9 DEF Reserve, Stage, Finish, Publish, Writing, Drawing
  <2> QED
    BY <1>5, <2>1
<1>10. CASE ConsumeFails(p)
  <2>1. run[p].op \in Drawing /\ budget' = [budget EXCEPT ![Home(p)] = Torn]
    BY <1>10 DEF ConsumeFails, Writing, Drawing
  <2> QED
    BY <1>4, <2>1
<1>11. CASE \/ \E c \in Scope : Begin(p, c)
            \/ \E t \in Season : Survey(p, t) \/ LetGo(p, t)
            \/ Lock(p) \/ TimeOut(p) \/ Trim(p) \/ Refuse(p) \/ Opened(p) \/ Download(p)
            \/ References(p) \/ Drop(p) \/ Die(p) \/ StageFails(p)
  <2>1. budget' = budget
    BY <1>11 DEF Begin, Lock, TimeOut, Survey, LetGo, Trim, Refuse, Opened, Download,
                 References, Drop, Die, StageFails, lockVars
  <2> QED
    BY <2>1
<1> QED
  BY <1>3, <1>6, <1>7, <1>8, <1>9, <1>10, <1>11 DEF Moves, Working

(* What appears is what a recovery or a download was at.                     *)
LEMMA Appears ==
    ASSUME IInv, NEW p \in Process, Moves(p), NEW f \in File, kept[f] = 0, kept'[f] # 0
    PROVE  /\ f = At(p) /\ run[p].op \in {"recover", "finish"} /\ SeasonOf[f] \in own[p]
           /\ (Recover(p) /\ Publish(p, f, staged[f] - 1)) \/ Finish(p)
<1>1. kept \in [File -> 0..LargestBody]
  BY DEF IInv, TypeOK
<1>2. ASSUME NEW n, Publish(p, At(p), n), run[p].op \in {"recover", "finish"}
      PROVE  f = At(p) /\ SeasonOf[f] \in own[p]
  <2>1. f = At(p)
    BY <1>1, <1>2 DEF Publish
  <2>2. At(p) \in run[p].scope /\ run[p].scope \in Scope
    BY <1>2, AtIsFile, Standing DEF AtFile
  <2>3. own[p] = {Home(p)}
    BY <1>2, Standing DEF Homeless
  <2> QED
    BY <2>1, <2>2, <2>3, HomeTyped DEF Home
<1>3. CASE Recover(p)
  <2>1. run[p].op = "recover" /\ (kept' = kept \/ Publish(p, At(p), staged[At(p)] - 1))
    BY <1>3 DEF Recover, Writing
  <2> QED
    BY <1>2, <1>3, <2>1
<1>4. CASE Finish(p)
  BY <1>2, <1>4 DEF Finish, Writing
<1>5. CASE Trim(p)
  BY <1>5 DEF Trim
<1>6. CASE ~(Recover(p) \/ Finish(p) \/ Trim(p))
  BY <1>6 DEF Moves, Working, Begin, Lock, TimeOut, Survey, LetGo, Refuse, Opened, Claim,
              Freeze, Prepare, Reserve, Stage, Download, References, Drop, Die, StageFails,
              ConsumeFails, diskVars
<1> QED
  BY <1>3, <1>4, <1>5, <1>6

LEMMA OthersPromised ==
    ASSUME IInv, IInv', Promised, NEW p \in Process, Moves(p), NEW q \in Process \ {p}
    PROVE  /\ Unfetched(q)' /\ Fresh(q)'
           /\ failures' = 0 => Reckoned(q)' /\ Funded(q)'
<1>1. Alone(p) /\ (holder = p \/ Unwritten) /\ (failures' = 0 => failures = 0)
  BY WritersHold
<1>2. run'[q] = run[q] /\ own'[q] = own[q]
  BY <1>1 DEF Alone
<1>3. Unfetched(q) /\ Fresh(q)
  BY DEF Promised
<1>4. At(q)' = At(q) /\ Home(q)' = Home(q) /\ Fresh(q)'
  BY <1>2, <1>3 DEF At, Home, Fresh
<1>5. Unfetched(q)'
  <2> SUFFICES ASSUME run[q].op # "drop", NEW f \in run[q].todo
               PROVE  kept'[f] = 0
    BY <1>2, <1>3 DEF Unfetched
  <2>1. kept[f] = 0 /\ run[q].op \notin Homeless
    BY <1>3 DEF Unfetched
  <2>2. own[q] = {Home(q)} /\ run[q].scope \in Scope /\ f \in run[q].scope
    BY <2>1, Standing DEF Homeless, Course
  <2>3. f \in File /\ SeasonOf[f] \in own[q]
    BY <2>2, HomeTyped DEF Home
  <2>4. SeasonOf[f] \notin own[p]
    BY <2>3 DEF IInv, OwnersLock
  <2> QED
    BY <2>1, <2>3, <2>4, Appears
<1>6. ASSUME failures' = 0
      PROVE  Reckoned(q)'
  <2> SUFFICES ASSUME run[q].step = "survey"
               PROVE  Total' + Promise(OwnedSeasons \union run[q].active)' <= Cap
    BY <1>2 DEF Reckoned
  <2>1. Sound /\ Reckoned(q)
    BY <1>1, <1>6 DEF Promised
  <2>2. Unwritten
    <3>1. holder = q
      BY DEF IInv, Holding, InTransaction
    <3> QED
      BY <1>1, <3>1
  <2> DEFINE A == OwnedSeasons \union run[q].active
             B == OwnedSeasons' \union run'[q].active
  <2>3. Total' = Total /\ budget' = budget /\ B \subseteq A
    BY <1>2, <2>2, TotalSame DEF Unwritten
  <2>4. A \in SUBSET Season
    BY Standing DEF OwnedSeasons, Invocation
  <2>5. SumFunctionOnSet(budget, B) \in Nat /\ SumFunctionOnSet(budget, A) \in Nat
        /\ SumFunctionOnSet(budget, B) <= SumFunctionOnSet(budget, A)
    BY <2>1, <2>3, <2>4, Promises DEF Sound
  <2>6. Total + SumFunctionOnSet(budget, A) <= Cap
    BY <2>1 DEF Reckoned, Promise
  <2>7. Total \in Nat
    BY TypedWeighable DEF IInv, Weighable
  <2> HIDE DEF A, B
  <2>8. Total' + SumFunctionOnSet(budget', B) <= Cap
    BY <2>3, <2>5, <2>6, <2>7, CacheAssumption
  <2> QED
    BY <2>8 DEF B, Promise
<1>7. ASSUME failures' = 0
      PROVE  Funded(q)'
  <2> SUFFICES ASSUME run[q].op \in AtFile
               PROVE  Rest(q) + Extra(q) <= budget'[Home(q)]
    BY <1>2, <1>4 DEF Funded, Rest, Extra
  <2>1. Rest(q) + Extra(q) <= budget[Home(q)]
    BY <1>1, <1>7 DEF Promised, Funded
  <2>2. Home(q) \in own[q]
    BY Standing DEF Homeless, AtFile
  <2> QED
    BY <2>1, <2>2, BudgetsStay
<1> QED
  BY <1>4, <1>5, <1>6, <1>7

(* A step that promises nothing and adds nothing.                            *)
LEMMA FitSame ==
    ASSUME IInv, IInv', Sound, Fitting, budget' = budget, Total' <= Total,
           OwnedSeasons' \subseteq OwnedSeasons
    PROVE  Sound' /\ Fitting'
<1> DEFINE A == OwnedSeasons
           B == OwnedSeasons'
<1>1. A \in SUBSET Season
  BY DEF OwnedSeasons
<1>2. /\ SumFunctionOnSet(budget, B) \in Nat /\ SumFunctionOnSet(budget, A) \in Nat
      /\ SumFunctionOnSet(budget, B) <= SumFunctionOnSet(budget, A)
  BY <1>1, Promises DEF Sound
<1>3. Total + SumFunctionOnSet(budget, A) <= Cap
  BY DEF Fitting, Promise
<1>4. Total \in Nat /\ Total' \in Nat
  BY TypedWeighable, WeighableThen DEF IInv, Weighable
<1> HIDE DEF A, B
<1>5. Total' + SumFunctionOnSet(budget', B) <= Cap
  BY <1>2, <1>3, <1>4, CacheAssumption
<1>6. Sound'
  BY DEF Sound
<1> QED
  BY <1>5, <1>6 DEF B, Fitting, Promise

(* What a transaction draws from its season's promise makes up for what it   *)
(* adds, as far as the promise goes; beyond it, its trimming made the room.  *)
LEMMA FitSpent ==
    ASSUME IInv, IInv', Weighed, Sound, NEW p \in Process, NEW v \in Nat,
           run[p].op \in Drawing, run[p].step = "write", Spends(p),
           own' = own, budget' = [budget EXCEPT ![Home(p)] = v],
           Total' + v - budget[Home(p)] <=
               Total + Additional(p)
                 - (IF budget[Home(p)] < Additional(p) THEN budget[Home(p)] ELSE Additional(p))
    PROVE  Sound' /\ Fitting'
<1> DEFINE A == OwnedSeasons
           h == Home(p)
           Sum(g, S) == SumFunctionOnSet(g, S)
<1>1. Readable(p) /\ Target(p) <= Cap /\ A \subseteq run[p].active
  BY DEF Weighed, Cleared
<1>2. /\ h \in A /\ budget[h] \in Nat
      /\ Additional(p) \in Nat /\ Outstanding(p) \in Nat /\ Total \in Nat
      /\ Target(p) = Total + Outstanding(p) + Additional(p)
           - (IF budget[h] < Additional(p) THEN budget[h] ELSE Additional(p))
  BY <1>1, Covered
<1>3. run[p].active \in SUBSET Season /\ Outstanding(p) = Sum(budget, run[p].active)
  BY <1>1, OutstandingIs
<1>4. Sum(budget, A) \in Nat /\ Sum(budget, A) <= Outstanding(p)
  BY <1>1, <1>3, Promises DEF Readable
<1>5. /\ \A s \in A : budget[s] \in Nat /\ budget'[s] \in Nat
      /\ budget'[h] = v /\ \A s \in A \ {h} : budget[s] = budget'[s]
  <2>1. budget \in [Season -> Nat \union {Torn}]
    BY DEF IInv, TypeOK, LocksTypeOK
  <2>2. A \subseteq Season
    BY DEF OwnedSeasons
  <2> QED
    BY <1>2, <2>1, <2>2 DEF Sound
<1>6. Sum(budget', A) = Sum(budget, A) - budget[h] + budget'[h]
  <2>1. IsFiniteSet(A)
    BY CacheAssumption, FS_Subset DEF OwnedSeasons
  <2>2. \A s \in A : budget[s] \in Int /\ budget'[s] \in Int
    BY <1>5
  <2>3. h \in A /\ \A s \in A \ {h} : budget[s] = budget'[s]
    BY <1>2, <1>5
  <2> HIDE DEF A, h
  <2>4. SumFunctionOnSet(budget', A) =
            SumFunctionOnSet(budget, A) - budget[h] + budget'[h]
    BY ONLY <2>1, <2>2, <2>3, SumBut
  <2> QED
    BY <2>4
<1>7. Sound'
  BY <1>5, LocksAssumption DEF Sound, IInv, TypeOK, LocksTypeOK
<1>8. OwnedSeasons' = A
  BY DEF OwnedSeasons, Owned
<1>9. Total' \in Nat
  BY WeighableThen DEF Weighable
<1> HIDE DEF A, h, Sum
<1>10. Total' + Sum(budget', A) <= Cap
  <2>1. Total' + v - budget[h] <= Total + Additional(p)
          - (IF budget[h] < Additional(p) THEN budget[h] ELSE Additional(p))
    BY DEF h
  <2> QED
    BY <1>1, <1>2, <1>4, <1>5, <1>6, <1>9, <2>1, CacheAssumption
<1> QED
  BY <1>7, <1>8, <1>10 DEF Fitting, Promise, Sum

(* Consume, in particular.                                                   *)
LEMMA FitDrawn ==
    ASSUME IInv, IInv', Weighed, Sound, NEW p \in Process, NEW o \in Drawing,
           Writing(p, o), Spends(p), own' = own,
           Consume(Home(p), Additional(p)), Total' <= Total + Additional(p)
    PROVE  Sound' /\ Fitting'
<1> DEFINE b == budget[Home(p)]
           n == Additional(p)
<1>1. run[p].op \in Drawing /\ run[p].step = "write"
  BY DEF Writing
<1>2. Readable(p) /\ OwnedSeasons \subseteq run[p].active
  BY <1>1 DEF Weighed, Cleared
<1>3. b \in Nat /\ n \in Nat /\ Total \in Nat
  BY <1>1, <1>2, Covered
<1>4. Total' \in Nat
  BY WeighableThen DEF Weighable
<1>5. /\ Less(b, n) \in Nat
      /\ Total' + Less(b, n) - b <= Total + n - (IF b < n THEN b ELSE n)
  <2> DEFINE l == Less(b, n)
             t == Total'
             u == Total
  <2>1. t \in Nat /\ u \in Nat /\ t <= u + n /\ b \in Nat /\ n \in Nat
    BY <1>3, <1>4
  <2>2. l = IF b > n THEN b - n ELSE 0
    BY DEF Less
  <2> HIDE DEF b, n, l, t, u
  <2>3. l \in Nat /\ t + l - b <= u + n - (IF b < n THEN b ELSE n)
    BY <2>1, <2>2
  <2> QED
    BY <2>3 DEF l, t, u
<1>6. budget' = [budget EXCEPT ![Home(p)] = Less(b, n)]
  BY DEF Consume, IInv, TypeOK, LocksTypeOK
<1> QED
  BY <1>1, <1>5, <1>6, FitSpent

LEMMA ClaimFits ==
    ASSUME IInv, IInv', Sound, Fitting, NEW p \in Process, TakeSeason(p, Home(p)),
           Claimable(Home(p)), Home(p) \in Season, Total' = Total
    PROVE  Sound' /\ Fitting'
<1> DEFINE A == OwnedSeasons
           h == Home(p)
           Sum(g, S) == SumFunctionOnSet(g, S)
<1>1. /\ own \in [Process -> SUBSET Season] /\ budget \in [Season -> Nat \union {Torn}]
      /\ own' = [own EXCEPT ![p] = @ \union {h}] /\ budget' = [budget EXCEPT ![h] = 0]
  BY DEF TakeSeason, IInv, TypeOK, LocksTypeOK
<1>2. OwnedSeasons' = A \union {h} /\ A \in SUBSET Season
  BY <1>1 DEF OwnedSeasons, Owned
<1>3. h \notin A
  BY LocksAssumption DEF Claimable, IInv, OwnersLock, OwnedSeasons, Owned
<1>4. /\ budget'[h] = 0 /\ \A s \in A : budget'[s] = budget[s] /\ budget[s] \in Nat
  BY <1>1, <1>2, <1>3 DEF Sound
<1>5. IsFiniteSet(A) /\ IsFiniteSet(A \union {h})
  BY <1>2, CacheAssumption, FS_Subset, FS_AddElement
<1> HIDE DEF A, h
<1>6. Sum(budget', A \union {h}) = budget'[h] + Sum(budget', (A \union {h}) \ {h})
  <2>1. \A s \in A \union {h} : budget'[s] \in Int
    BY <1>4
  <2> QED
    BY <1>5, <2>1, SumSplit
<1>7. (A \union {h}) \ {h} = A
  BY <1>3
<1>8. Sum(budget', A) = Sum(budget, A) /\ Sum(budget, A) \in Int
  <2>1. \A s \in A : budget[s] = budget'[s] /\ budget[s] \in Int
    BY <1>4
  <2> QED
    BY <1>5, <2>1, SumSame
<1>9. Sum(budget', A \union {h}) = Sum(budget, A)
  <2>1. Sum(budget', A \union {h}) = budget'[h] + Sum(budget', A)
    BY <1>6, <1>7
  <2> HIDE DEF Sum
  <2> QED
    BY <1>4, <1>8, <2>1
<1>10. Total + Sum(budget, A) <= Cap
  BY DEF Fitting, Promise, A
<1>11. Sound'
  BY <1>1, LocksAssumption DEF Sound
<1> HIDE DEF Sum
<1>12. Total' + Sum(budget', A \union {h}) <= Cap
  BY <1>9, <1>10
<1> QED
  BY <1>2, <1>11, <1>12 DEF Fitting, Promise, Sum

LEMMA FitKept ==
    ASSUME IInv, IInv', Weighed, Promised, NEW p \in Process, Moves(p), failures' = 0
    PROVE  Sound' /\ Fitting'
<1>1. Sound /\ Fitting
  BY WritersHold DEF Promised
<1>2. Total \in Nat
  BY TypedWeighable DEF IInv, Weighable
<1>3. ASSUME UNCHANGED <<diskVars, budget>>, OwnedSeasons' \subseteq OwnedSeasons
      PROVE  Sound' /\ Fitting'
  <2>1. Total' = Total
    BY <1>3, TotalSame
  <2>2. Total' <= Total
    BY <1>2, <2>1
  <2> QED
    BY <1>1, <1>3, <2>2, FitSame
<1>4. own' = own => OwnedSeasons' \subseteq OwnedSeasons
  BY DEF OwnedSeasons, Owned
<1>5. CASE \/ \E c \in Scope : Begin(p, c)
           \/ \E s \in Season : Survey(p, s) \/ LetGo(p, s)
           \/ Lock(p) \/ TimeOut(p) \/ Refuse(p) \/ Opened(p) \/ Download(p) \/ References(p)
  <2>1. UNCHANGED <<diskVars, budget, own>>
    BY <1>5 DEF Begin, Survey, LetGo, Lock, TimeOut, Refuse, Opened, Download, References,
                lockVars
  <2> QED
    BY <1>3, <1>4, <2>1
<1>6. CASE Trim(p)
  <2>1. Total' = Total - Weighing(Victims(p)) - Cardinality(Pruned(p))
        /\ Weighing(Victims(p)) \in Nat /\ Cardinality(Pruned(p)) \in Nat
    BY <1>6, TotalTrimmed
  <2>2. Total' <= Total
    BY <1>2, <2>1
  <2>3. budget' = budget /\ own' = own
    BY <1>6 DEF Trim, lockVars
  <2> QED
    BY <1>1, <1>4, <2>2, <2>3, FitSame
<1>7. CASE Claim(p)
  <2>1. UNCHANGED diskVars
    BY <1>7 DEF Claim
  <2>2. CASE Claimable(Home(p))
    <3>1. TakeSeason(p, Home(p))
      BY <1>7, <2>2 DEF Claim
    <3>2. Home(p) \in Season
      BY <1>7, AtWork, HomeTyped DEF Claim, Home
    <3>3. Total' = Total
      BY <2>1, TotalSame
    <3> QED
      BY <1>1, <2>2, <3>1, <3>2, <3>3, ClaimFits
  <2>3. CASE ~Claimable(Home(p))
    <3>1. UNCHANGED <<own, budget>>
      BY <1>7, <2>3 DEF Claim
    <3> QED
      BY <1>3, <1>4, <2>1, <3>1
  <2> QED
    BY <2>2, <2>3
<1>8. CASE Freeze(p)
  <2>1. /\ Writing(p, "freeze") /\ own' = own /\ Consume(Home(p), Additional(p))
        /\ Total' <= Total + 1
    BY <1>8, FreezeAdds DEF Freeze
  <2>2. Spends(p) /\ Additional(p) = 1 /\ "freeze" \in Drawing
    BY <2>1 DEF Spends, Asks, Writing, Additional, Drawing
  <2> QED
    BY <1>1, <2>1, <2>2, FitDrawn
<1>9. CASE Recover(p)
  <2> DEFINE f == At(p)
  <2>1. Writing(p, "recover") /\ own' = own /\ UNCHANGED <<marked, spoilt, frozen, elder>>
    BY <1>9 DEF Recover
  <2>2. \/ UNCHANGED <<budget, staged, kept, older>>
        \/ kept[f] = 0 /\ staged[f] > 0 /\ f \notin spoilt /\ Publish(p, f, staged[f] - 1)
    BY <1>9 DEF Recover
  <2>3. CASE UNCHANGED <<budget, staged, kept, older>>
    BY <1>3, <1>4, <2>1, <2>3 DEF diskVars
  <2>4. CASE kept[f] = 0 /\ staged[f] > 0 /\ f \notin spoilt /\ Publish(p, f, staged[f] - 1)
    <3>1. f \in File
      BY <2>1, AtIsFile DEF Writing
    <3>2. staged[f] \in Nat /\ staged[f] > 1
      BY <2>4, <3>1, TypedWeighable DEF IInv, Recoverable, Weighable
    <3>3. Total' <= Total /\ Total' \in Nat
      BY <2>1, <2>4, <3>1, <3>2, PublishAdds
    <3>4. Spends(p) /\ Additional(p) = 1 /\ "recover" \in Drawing
      BY <2>1, <2>4 DEF Spends, Asks, Writing, Additional, Drawing
    <3>5. Consume(Home(p), Additional(p)) /\ Total' <= Total + Additional(p)
      BY <1>2, <2>4, <3>3, <3>4 DEF Publish
    <3> QED
      BY <1>1, <2>1, <3>4, <3>5, FitDrawn
  <2> QED
    BY <2>2, <2>3, <2>4
<1>10. CASE Prepare(p)
  <2> DEFINE b == budget[Home(p)]
             n == Additional(p)
  <2>1. /\ run[p].op = "prepare" /\ run[p].step = "write" /\ UNCHANGED <<diskVars, own>>
        /\ budget' = [budget EXCEPT ![Home(p)] = n]
    BY <1>10 DEF Prepare, Writing
  <2>2. Spends(p) /\ run[p].op \in Drawing
    BY <2>1 DEF Spends, Asks, Drawing
  <2>3. Readable(p) /\ OwnedSeasons \subseteq run[p].active
    BY <2>1, <2>2 DEF Weighed, Cleared
  <2>4. b \in Nat /\ n \in Nat
    BY <2>2, <2>3, Covered
  <2>5. Total' = Total
    BY <2>1, TotalSame
  <2>6. Total' + n - b <= Total + n - (IF b < n THEN b ELSE n)
    <3> DEFINE t == Total
    <3>1. t \in Nat /\ Total' = t
      BY <1>2, <2>5
    <3> HIDE DEF b, n, t
    <3>2. t + n - b <= t + n - (IF b < n THEN b ELSE n)
      BY <2>4, <3>1
    <3> QED
      BY <3>1, <3>2 DEF t
  <2> QED
    BY <1>1, <2>1, <2>2, <2>4, <2>6, FitSpent
<1>11. CASE Reserve(p)
  <2>1. /\ Writing(p, "reserve") /\ own' = own /\ Consume(Home(p), Additional(p))
        /\ marked' = marked \union {At(p)} /\ UNCHANGED <<staged, kept, frozen>>
    BY <1>11 DEF Reserve
  <2>2. At(p) \in File
    BY <2>1, AtIsFile DEF Writing, AtFile
  <2>3. Spends(p) /\ Additional(p) = 1 - MarkerOf(At(p)) /\ "reserve" \in Drawing
    BY <2>1 DEF Spends, Asks, Writing, Additional, Drawing
  <2>4. Total' = Total + (1 - MarkerOf(At(p))) /\ Total' \in Nat
    BY <2>1, <2>2, MarkerAdds
  <2>5. Total' <= Total + Additional(p)
    BY <2>3, <2>4
  <2> QED
    BY <1>1, <2>1, <2>3, <2>5, FitDrawn
<1>12. CASE Stage(p)
  <2> DEFINE n == 1 + run[p].body
  <2>1. /\ Writing(p, "stage") /\ own' = own /\ Consume(Home(p), Additional(p))
        /\ staged' = [staged EXCEPT ![At(p)] = n] /\ UNCHANGED <<marked, kept, frozen>>
    BY <1>12 DEF Stage
  <2>2. At(p) \in File
    BY <2>1, AtIsFile DEF Writing, AtFile
  <2>3. Spends(p) /\ Additional(p) = n /\ "stage" \in Drawing
    BY <2>1 DEF Spends, Asks, Writing, Additional, Drawing
  <2>4. n \in Nat
    BY <2>3, AdditionalTyped
  <2> HIDE DEF n
  <2>5. Total' = Total + n - staged[At(p)] /\ Total' \in Nat /\ staged[At(p)] \in Nat
    BY <2>1, <2>2, <2>4, StagingAdds
  <2>6. Total' <= Total + Additional(p)
    BY <1>2, <2>3, <2>4, <2>5
  <2> QED
    BY <1>1, <2>1, <2>3, <2>6, FitDrawn
<1>13. CASE Finish(p)
  <2>1. /\ Writing(p, "finish") /\ own' = own /\ Publish(p, At(p), run[p].body)
        /\ UNCHANGED <<marked, frozen>>
    BY <1>13 DEF Finish
  <2>2. At(p) \in File
    BY <2>1, AtIsFile DEF Writing, AtFile
  <2>3. staged[At(p)] = 1 + run[p].body
    BY <2>1 DEF Weighed, Receipt, Writing
  <2>4. run[p].body \in Nat \ {0}
    <3>1. run[p].body \in 0..LargestBody /\ run[p].body > 0
      BY <2>1, Standing DEF Writing, Course, Invocation
    <3> QED
      BY <3>1, CacheAssumption
  <2>5. Total' <= Total /\ Total' \in Nat
    BY <2>1, <2>2, <2>3, <2>4, PublishAdds
  <2>6. Spends(p) /\ Additional(p) = 1 /\ "finish" \in Drawing
    BY <2>1 DEF Spends, Writing, Additional, Drawing
  <2>7. Consume(Home(p), Additional(p)) /\ Total' <= Total + Additional(p)
    BY <1>2, <2>1, <2>5, <2>6 DEF Publish
  <2> QED
    BY <1>1, <2>1, <2>6, <2>7, FitDrawn
<1>14. CASE Drop(p) \/ Die(p)
  <2>1. UNCHANGED <<diskVars, budget>> /\ ReleaseSeasons(p)
    BY <1>14 DEF Drop, Die
  <2>2. OwnedSeasons' \subseteq OwnedSeasons
    BY <2>1 DEF ReleaseSeasons, OwnedSeasons, Owned, IInv, TypeOK, LocksTypeOK
  <2> QED
    BY <1>3, <2>1, <2>2
<1>15. CASE StageFails(p) \/ ConsumeFails(p)
  <2>1. failures' = failures + 1 /\ failures \in Nat
    BY <1>15 DEF StageFails, ConsumeFails, Failure, IInv, TypeOK
  <2> QED
    BY <2>1
<1> QED
  BY <1>5, <1>6, <1>7, <1>8, <1>9, <1>10, <1>11, <1>12, <1>13, <1>14, <1>15
  DEF Moves, Working

(* Who starts surveying finds what fits, and finds no more than that.        *)
LEMMA OwnReckoned ==
    ASSUME IInv, IInv', Weighed, Promised, NEW p \in Process, Moves(p), failures' = 0
    PROVE  Reckoned(p)'
<1>1. Sound' /\ Fitting' /\ Sound
  BY FitKept, WritersHold DEF Promised
<1>2. run[p] \in Invocation
  BY Standing
<1>3. ASSUME run'[p].active \subseteq OwnedSeasons'
      PROVE  Reckoned(p)'
  <2>1. OwnedSeasons' \union run'[p].active = OwnedSeasons'
    BY <1>3
  <2>2. Promise(OwnedSeasons \union run[p].active)' = Promise(OwnedSeasons)'
    BY <2>1 DEF Promise
  <2> QED
    BY <1>1, <2>2 DEF Fitting, Reckoned
<1>4. CASE Lock(p)
  <2>1. run[p].step = "wait" /\ run'[p].active = run[p].active
    BY <1>2, <1>4, Standing DEF Lock, Invocation
  <2>2. run[p].active = {}
    BY <2>1 DEF Promised, Fresh, IInv, Surveys, InTransaction
  <2> QED
    BY <1>3, <2>1, <2>2
<1>5. ASSUME NEW s \in Season, Survey(p, s) \/ LetGo(p, s)
      PROVE  Reckoned(p)'
  <2> DEFINE A == OwnedSeasons \union run[p].active
             B == OwnedSeasons' \union run'[p].active
  <2>1. /\ run[p].step = "survey" /\ own' = own /\ UNCHANGED <<diskVars, budget>>
        /\ run \in [Process -> Invocation]
    BY <1>5, Standing DEF Survey, LetGo
  <2>2. OwnedSeasons' = OwnedSeasons /\ Total' = Total
    BY <2>1, TotalSame DEF OwnedSeasons, Owned
  <2>3. run'[p].active \subseteq run[p].active \union OwnedSeasons
    <3>1. CASE LetGo(p, s)
      BY <1>2, <2>1, <3>1 DEF LetGo, Invocation
    <3>2. CASE Survey(p, s) /\ Claimable(s)
      BY <3>2 DEF Survey
    <3>3. CASE Survey(p, s) /\ ~Claimable(s)
      <4>1. run'[p].active = run[p].active \union {s}
        BY <1>2, <2>1, <3>3 DEF Survey, Invocation
      <4>2. lock[s] # NoOne /\ lock[s] \in Process /\ ~Probing(p, s)
        BY <3>3 DEF Survey, Claimable, IInv, TypeOK, LocksTypeOK
      <4>3. s \in own[lock[s]]
        <5>1. CASE lock[s] = p
          BY <4>2, <5>1 DEF Probing
        <5>2. CASE lock[s] # p
          <6>1. ~Probing(lock[s], s)
            BY <2>1, <4>2, <5>2 DEF IInv, ProbersHold, Holding, InTransaction
          <6> QED
            BY <6>1 DEF Probing
        <5> QED
          BY <5>1, <5>2
      <4> QED
        BY <4>1, <4>2, <4>3 DEF OwnedSeasons, Owned
    <3> QED
      BY <1>5, <3>1, <3>2, <3>3
  <2>4. A \in SUBSET Season /\ B \subseteq A
    BY <1>2, <2>2, <2>3 DEF OwnedSeasons, Invocation
  <2>5. SumFunctionOnSet(budget, B) \in Nat /\ SumFunctionOnSet(budget, A) \in Nat
        /\ SumFunctionOnSet(budget, B) <= SumFunctionOnSet(budget, A)
    BY <1>1, <2>4, Promises DEF Sound
  <2>6. Total + SumFunctionOnSet(budget, A) <= Cap
    BY <2>1, WritersHold DEF Promised, Reckoned, Promise
  <2>7. Total \in Nat
    BY TypedWeighable DEF IInv, Weighable
  <2> HIDE DEF A, B
  <2>8. Total' + SumFunctionOnSet(budget', B) <= Cap
    BY <2>1, <2>2, <2>5, <2>6, <2>7, CacheAssumption
  <2> QED
    BY <2>8 DEF B, Promise, Reckoned
<1>6. CASE Trim(p)
  <2>1. run'[p].step = "write"
    BY <1>2, <1>6, Standing DEF Trim, Invocation
  <2> QED
    BY <2>1 DEF Reckoned
<1>7. CASE Stage(p) /\ run[p].sound
  <2> DEFINE n == [run[p] EXCEPT !.op = "finish", !.step = "survey"]
  <2>1. run'[p].active = {}
    <3>1. n \in Invocation
      BY <1>2 DEF Invocation, Ops, Steps
    <3>2. Set(p, n)
      BY <1>7 DEF Stage
    <3> HIDE DEF n
    <3> QED
      BY <3>1, <3>2, SetRecord
  <2> QED
    BY <1>3, <2>1
<1>8. CASE ~Surveying(p)
  BY <1>8, OwnSettles DEF Settles, Reckoned
<1>9. CASE \E s \in Season : Survey(p, s) \/ LetGo(p, s)
  BY <1>5, <1>9
<1> QED
  BY <1>4, <1>6, <1>7, <1>8, <1>9 DEF Surveying

(* What p wants, after its step.                                             *)
LEMMA WantsLess ==
    ASSUME IInv, Promised, NEW p \in Process, Moves(p), run[p].op # "drop",
           run'[p].op \notin Homeless \union {"freeze"},
           run'[p].todo \subseteq run[p].todo, run'[p].left \subseteq run[p].left,
           Finish(p) => At(p) \notin run'[p].todo
    PROVE  Unfetched(p)'
<1> SUFFICES ASSUME NEW f \in run'[p].todo
             PROVE  kept'[f] = 0
  BY DEF Promised, Unfetched
<1>1. run[p].todo \cap run[p].left = {} /\ kept[f] = 0
  BY DEF Promised, Unfetched
<1>2. f \in File
  BY Standing DEF Invocation
<1>3. ~(f = At(p) /\ Finish(p))
  OBVIOUS
<1>4. ~(f = At(p) /\ run[p].op = "recover")
  BY <1>1, AtIsFile
<1>5. kept'[f] # 0 => f = At(p) /\ (run[p].op = "recover" \/ Finish(p))
  BY <1>1, <1>2, Appears DEF Recover, Writing
<1> QED
  BY <1>3, <1>4, <1>5

LEMMA WantsNone ==
    ASSUME NEW p \in Process, run'[p].todo = {}
    PROVE  Unfetched(p)'
BY DEF Unfetched

LEMMA WantsDropped ==
    ASSUME NEW p \in Process, run'[p].op = "drop"
    PROVE  Unfetched(p)'
BY DEF Unfetched, Homeless

LEMMA GiveUpWants ==
    ASSUME IInv, Promised, NEW p \in Process, Moves(p), Set(p, GiveUp(p)), ~Finish(p),
           run[p].op \notin {"off", "drop"}, run[p].step # "idle" \/ run[p].op = "post"
    PROVE  Unfetched(p)'
<1> DEFINE g == GiveUp(p)
           r == run[p]
<1>1. /\ g \in Invocation
      /\ r.op \in {"open", "claim"} => g = Off
      /\ r.op = "recover" =>
           /\ g.op \in {"recover", "prepare", "references", "drop"}
           /\ g.todo = r.todo /\ g.left \subseteq r.left
      /\ r.op \in AtFile =>
           /\ g.op \in {"reserve", "references", "drop"}
           /\ g.todo = r.todo \ {At(p)} /\ g.left = {}
      /\ r.op \in {"freeze", "prepare", "references"} => g.op = "drop"
  BY GiveUpRecord
<1>2. run'[p].op = g.op /\ run'[p].todo = g.todo /\ run'[p].left = g.left
  <2> HIDE DEF g
  <2> QED
    BY <1>1, SetRecord DEF g
<1>3. r.op \in Ops
  BY Standing DEF Invocation
<1> HIDE DEF g
<1>4. CASE r.op \in {"open", "claim"}
  BY <1>1, <1>2, <1>4, WantsNone DEF Off
<1>5. CASE r.op = "recover" \/ r.op \in AtFile
  BY <1>1, <1>2, <1>5, WantsLess DEF Homeless
<1>6. CASE r.op \in {"freeze", "prepare", "references"}
  BY <1>1, <1>2, <1>6, WantsDropped
<1> QED
  BY <1>3, <1>4, <1>5, <1>6 DEF Ops, AtFile

LEMMA OwnUnfetched ==
    ASSUME IInv, IInv', Promised, NEW p \in Process, Moves(p)
    PROVE  Unfetched(p)'
<1> DEFINE r == run[p]
<1>1. /\ run \in [Process -> Invocation] /\ r \in Invocation /\ Course(r)
      /\ Unfetched(p)
  BY Standing DEF Promised
<1>2. Off \in Invocation /\ Off.step = "idle" /\ Off.op = "off" /\ Off.todo = {}
  BY OffCourse DEF Course, Off
<1>3. ASSUME NEW o \in Ops \ (Homeless \union {"freeze"}), Set(p, Goto(r, o)), r.op # "drop",
             ~Finish(p)
      PROVE  Unfetched(p)'
  <2>1. Goto(r, o) \in Invocation /\ Goto(r, o).op = o /\ Goto(r, o).todo = r.todo
        /\ Goto(r, o).left \subseteq r.left
    BY <1>1, <1>3, GotoRecord
  <2>2. run'[p].op = o /\ run'[p].todo = r.todo /\ run'[p].left \subseteq r.left
    BY <1>3, <2>1, SetRecord
  <2> QED
    BY <1>3, <2>2, WantsLess
<1>4. ASSUME NEW q \in Invocation, Set(p, q), q.todo = {}
      PROVE  Unfetched(p)'
  BY <1>4, SetRecord, WantsNone
<1>5. ASSUME NEW q \in Invocation, NEW o \in Ops, Set(p, Goto(q, o)), q.todo = {}
      PROVE  Unfetched(p)'
  BY <1>4, <1>5, GotoRecord
<1>6. ASSUME NEW c \in Scope, Begin(p, c)
      PROVE  Unfetched(p)'
  <2> DEFINE g == Goto(Off, "open")
             n == [g EXCEPT !.scope = c]
  <2>1. g \in Invocation /\ g.todo = {}
    BY <1>2, GotoRecord DEF Ops
  <2>2. Set(p, n)
    BY <1>6 DEF Begin
  <2> HIDE DEF g
  <2>3. n \in Invocation /\ n.todo = {}
    BY <2>1 DEF Invocation
  <2> HIDE DEF n
  <2> QED
    BY <1>4, <2>2, <2>3
<1>7. CASE Lock(p) \/ Trim(p) \/ \E s \in Season : Survey(p, s) \/ LetGo(p, s)
  <2>2. run'[p].op = r.op /\ run'[p].todo = r.todo /\ run'[p].left = r.left
    <3>1. CASE Lock(p)
      BY <1>1, <3>1 DEF Lock, Invocation
    <3>2. CASE Trim(p)
      BY <1>1, <3>2 DEF Trim, Invocation
    <3>3. CASE \E s \in Season : Survey(p, s) \/ LetGo(p, s)
      <4>1. \/ run'[p] = r
            \/ \E s : run'[p] = [r EXCEPT !.seen = @ \union {s}, !.active = @ \union {s}]
            \/ \E s : run'[p] = [r EXCEPT !.seen = @ \union {s}]
        BY <1>1, <3>3 DEF Survey, LetGo
      <4> QED
        BY <1>1, <4>1 DEF Invocation
    <3> QED
      BY <1>7, <3>1, <3>2, <3>3
  <2>3. CASE r.todo = {}
    BY <2>2, <2>3, WantsNone
  <2>4. CASE r.op = "drop"
    BY <2>2, <2>4, WantsDropped
  <2>5. CASE r.todo # {} /\ r.op # "drop"
    <3>1. r.op \notin Homeless \union {"freeze"}
      BY <1>1, <2>5 DEF Unfetched
    <3>2. ~Finish(p)
      BY <1>1, <1>7 DEF Finish, Writing, Lock, Trim, Surveyed, Survey, LetGo
    <3> QED
      BY <2>2, <2>5, <3>1, <3>2, WantsLess
  <2> QED
    BY <2>3, <2>4, <2>5
<1>8. CASE TimeOut(p) \/ Refuse(p)
  <2>1. r.step \in {"wait", "survey"} /\ Set(p, GiveUp(p))
    BY <1>8 DEF TimeOut, Refuse, Surveyed
  <2>2. r.op \notin {"off", "drop"} /\ ~Finish(p)
    BY <1>1, <1>2, <2>1 DEF Course, Away, Finish, Writing
  <2> QED
    BY <2>1, <2>2, GiveUpWants
<1>9. CASE Opened(p)
  <2>1. r.todo = {} /\ Set(p, Goto(r, "claim"))
    BY <1>1, <1>9 DEF Opened, Writing, Unfetched, Homeless
  <2> QED
    BY <1>1, <1>5, <2>1 DEF Ops
<1>10. CASE Claim(p) \/ Freeze(p)
  <2> DEFINE n == [r EXCEPT !.left = r.scope]
  <2>1. r.todo = {} /\ r.scope \in SUBSET File
    BY <1>1, <1>10, AtWork, CacheAssumption
    DEF Claim, Freeze, Writing, Unfetched, Homeless
  <2>2. Set(p, Off) \/ Set(p, Goto(n, "recover")) \/ Set(p, Goto(r, "freeze"))
    BY <1>10 DEF Claim, Freeze
  <2>3. n \in Invocation /\ n.todo = {}
    BY <1>1, <2>1 DEF Invocation
  <2> HIDE DEF n
  <2>4. CASE Set(p, Off)
    BY <1>2, <1>4, <2>4
  <2>5. CASE Set(p, Goto(n, "recover"))
    BY <1>5, <2>3, <2>5 DEF Ops
  <2>6. CASE Set(p, Goto(r, "freeze"))
    BY <1>1, <1>5, <2>1, <2>6 DEF Ops
  <2> QED
    BY <2>2, <2>4, <2>5, <2>6
<1>11. CASE Recover(p)
  <2> DEFINE f == At(p)
             n == [r EXCEPT !.left = @ \ {f}]
             m == [n EXCEPT !.todo = @ \union {f}]
  <2>1. /\ r.op = "recover" /\ r.step = "write"
        /\ \/ Set(p, Decide(n))
           \/ Set(p, GiveUp(p))
           \/ Set(p, Decide(m)) /\ kept[f] = 0 /\ kept' = kept
    BY <1>11 DEF Recover, Writing
  <2>2. f \in File /\ ~Finish(p)
    BY <2>1, AtIsFile DEF Finish, Writing
  <2>3. n \in Invocation /\ n.todo = r.todo /\ n.left = r.left \ {f}
    BY <1>1 DEF Invocation
  <2> HIDE DEF n
  <2>4. m \in Invocation /\ m.todo = r.todo \union {f} /\ m.left = r.left \ {f}
    BY <2>2, <2>3 DEF Invocation
  <2> HIDE DEF m
  <2>5. CASE Set(p, Decide(n))
    <3>1. /\ run'[p].op \in {"recover", "prepare", "references", "drop"}
          /\ run'[p].todo = r.todo /\ run'[p].left \subseteq r.left
      BY <2>3, <2>5, DecideRecord, SetRecord
    <3> QED
      BY <2>1, <2>2, <3>1, WantsLess DEF Homeless
  <2>6. CASE Set(p, Decide(m)) /\ kept[f] = 0 /\ kept' = kept
    <3>1. /\ run'[p].op \in {"recover", "prepare", "references", "drop"}
          /\ run'[p].todo = r.todo \union {f} /\ run'[p].left = r.left \ {f}
      BY <2>4, <2>6, DecideRecord, SetRecord
    <3>2. r.todo \cap r.left = {} /\ \A g \in r.todo : kept[g] = 0
      BY <1>1, <2>1 DEF Unfetched
    <3> QED
      BY <2>6, <3>1, <3>2 DEF Unfetched, Homeless
  <2>7. CASE Set(p, GiveUp(p))
    BY <2>1, <2>2, <2>7, GiveUpWants
  <2> QED
    BY <2>1, <2>5, <2>6, <2>7
<1>12. CASE Prepare(p) \/ Reserve(p) \/ References(p)
  <2>1. /\ r.op \in {"prepare", "reserve", "references"}
        /\ Set(p, Goto(r, "reserve")) \/ Set(p, Goto(r, "post")) \/ Set(p, Goto(r, "drop"))
    BY <1>12 DEF Prepare, Reserve, References, Writing
  <2>2. r.op # "drop" /\ ~Finish(p)
    BY <2>1 DEF Finish, Writing
  <2> QED
    BY <1>3, <2>1, <2>2 DEF Ops, Homeless
<1>13. CASE Download(p)
  <2>1. r.op = "post" /\ ~Finish(p)
    BY <1>13 DEF Download, Finish, Writing
  <2>2. \/ \E n \in 1..LargestBody, sound \in BOOLEAN :
              Set(p, Goto([r EXCEPT !.body = n, !.sound = sound], "stage"))
        \/ Set(p, GiveUp(p))
        \/ Set(p, Goto(r, "drop"))
    BY <1>13 DEF Download
  <2>3. ASSUME NEW n \in 1..LargestBody, NEW sound \in BOOLEAN,
               Set(p, Goto([r EXCEPT !.body = n, !.sound = sound], "stage"))
        PROVE  Unfetched(p)'
    <3> DEFINE q == [r EXCEPT !.body = n, !.sound = sound]
    <3>1. n \in 0..LargestBody
      BY CacheAssumption
    <3>2. q \in Invocation /\ q.todo = r.todo /\ q.left = r.left
      BY <1>1, <3>1 DEF Invocation
    <3>3. Set(p, Goto(q, "stage"))
      BY <2>3
    <3> HIDE DEF q
    <3>4. Goto(q, "stage") \in Invocation /\ Goto(q, "stage").op = "stage"
          /\ Goto(q, "stage").todo = r.todo /\ Goto(q, "stage").left = {}
      BY <3>2, GotoRecord DEF Ops
    <3>5. run'[p].op = "stage" /\ run'[p].todo = r.todo /\ run'[p].left = {}
      BY <3>3, <3>4, SetRecord
    <3> QED
      BY <2>1, <3>5, WantsLess DEF Homeless
  <2>4. CASE Set(p, GiveUp(p))
    BY <2>1, <2>4, GiveUpWants
  <2>5. CASE Set(p, Goto(r, "drop"))
    BY <1>3, <2>1, <2>5 DEF Ops, Homeless
  <2> QED
    BY <2>2, <2>3, <2>4, <2>5
<1>14. CASE Stage(p) \/ StageFails(p) \/ ConsumeFails(p)
  <2> DEFINE n == [r EXCEPT !.op = "finish", !.step = "survey"]
  <2>1. /\ r.op \in {"stage", "reserve"} /\ r.step = "write"
        /\ Set(p, n) \/ Set(p, GiveUp(p))
    BY <1>14 DEF Stage, StageFails, ConsumeFails, Writing
  <2>2. ~Finish(p)
    BY <2>1 DEF Finish, Writing
  <2>3. /\ n \in Invocation /\ n.op = "finish" /\ n.todo = r.todo /\ n.left = r.left
    BY <1>1 DEF Invocation, Ops, Steps
  <2> HIDE DEF n
  <2>4. CASE Set(p, n)
    <3>1. run'[p].op = "finish" /\ run'[p].todo = r.todo /\ run'[p].left = r.left
      BY <2>3, <2>4, SetRecord
    <3> QED
      BY <2>1, <2>2, <3>1, WantsLess DEF Homeless
  <2>5. CASE Set(p, GiveUp(p))
    BY <2>1, <2>2, <2>5, GiveUpWants
  <2> QED
    BY <2>1, <2>4, <2>5
<1>15. CASE Finish(p)
  <2> DEFINE n == [r EXCEPT !.todo = @ \ {At(p)}, !.body = 0]
  <2>1. Set(p, Proceed(n)) /\ r.op = "finish"
    BY <1>15 DEF Finish, Writing
  <2>2. 0 \in 0..LargestBody
    BY CacheAssumption
  <2>3. n \in Invocation /\ n.todo = r.todo \ {At(p)}
    BY <1>1, <2>2 DEF Invocation
  <2> HIDE DEF n
  <2>4. /\ run'[p].op \in {"reserve", "references", "drop"}
        /\ run'[p].todo = r.todo \ {At(p)} /\ run'[p].left = {}
    BY <2>1, <2>3, ProceedRecord, SetRecord
  <2> QED
    BY <2>1, <2>4, WantsLess DEF Homeless
<1>16. CASE Drop(p) \/ Die(p)
  BY <1>2, <1>4, <1>16 DEF Drop, Die
<1> QED
  BY <1>6, <1>7, <1>8, <1>9, <1>10, <1>11, <1>12, <1>13, <1>14, <1>15, <1>16
  DEF Moves, Working

LEMMA OwnFresh ==
    ASSUME IInv, IInv', Promised, NEW p \in Process, Moves(p)
    PROVE  Fresh(p)'
<1> DEFINE r == run[p]
<1>1. run \in [Process -> Invocation] /\ r \in Invocation /\ r.active \subseteq r.seen
  BY Standing DEF Promised, Fresh
<1>2. CASE \E q : Set(p, q)
  <2>1. PICK q : run'[p] = [q EXCEPT !.seen = {}, !.active = {}]
    BY <1>1, <1>2 DEF Set
  <2>2. run'[p] \in Invocation
    BY DEF IInv, TypeOK
  <2>3. run'[p].active = {}
    BY <2>1, <2>2 DEF Invocation
  <2> QED
    BY <2>3 DEF Fresh
<1>3. CASE Lock(p) \/ Trim(p)
  <2>1. run'[p].active = r.active /\ run'[p].seen = r.seen
    BY <1>1, <1>3 DEF Lock, Trim, Invocation
  <2> QED
    BY <1>1, <2>1 DEF Fresh
<1>4. CASE \E s \in Season : Survey(p, s) \/ LetGo(p, s)
  <2>1. \/ run'[p] = r
        \/ \E s : run'[p] = [r EXCEPT !.seen = @ \union {s}, !.active = @ \union {s}]
        \/ \E s : run'[p] = [r EXCEPT !.seen = @ \union {s}]
    BY <1>1, <1>4 DEF Survey, LetGo
  <2>2. run'[p].active \subseteq run'[p].seen
    BY <1>1, <2>1 DEF Invocation
  <2> QED
    BY <2>2 DEF Fresh
<1>5. CASE ~(\/ Lock(p) \/ Trim(p) \/ \E s \in Season : Survey(p, s) \/ LetGo(p, s))
  <2>1. \E q : Set(p, q)
    BY <1>5 DEF Moves, Working, Begin, TimeOut, Refuse, Opened, Claim, Freeze, Recover,
                Prepare, Reserve, Download, Stage, Finish, References, Drop, Die, StageFails,
                ConsumeFails
  <2> QED
    BY <1>2, <2>1
<1> QED
  BY <1>3, <1>4, <1>5

(* What p is funded for, after its step.                                     *)
LEMMA FundedAgain ==
    ASSUME IInv, IInv', NEW p \in Process, run[p].op \in AtFile,
           Rest(p) <= budget'[Home(p)], run'[p].scope = run[p].scope,
           run'[p].todo = run[p].todo \ {At(p)},
           run'[p].op \in {"reserve", "references", "drop"}
    PROVE  Funded(p)'
<1> SUFFICES ASSUME run'[p].op = "reserve"
             PROVE  Rest(p)' + Worst <= budget'[Home(p)']
  BY DEF Funded, Extra, AtFile
<1>1. Home(p)' = Home(p)
  BY DEF Home
<1>2. Worst * Cardinality(run'[p].todo) = Rest(p)' + Worst
  BY WantsThen DEF Wants, AtFile
<1>3. Rest(p) = Worst * Cardinality(run'[p].todo)
  BY DEF Rest
<1> QED
  BY <1>1, <1>2, <1>3

LEMMA FundedStill ==
    ASSUME IInv, NEW p \in Process, run[p].op \in AtFile, run'[p].scope = run[p].scope,
           run'[p].todo = run[p].todo, run'[p].op \in AtFile,
           Rest(p) + Extra(p)' <= budget'[Home(p)]
    PROVE  Funded(p)'
<1>1. Home(p)' = Home(p) /\ At(p)' = At(p)
  BY DEF Home, At, AtFile
<1>2. Rest(p)' = Rest(p)
  BY <1>1 DEF Rest
<1> QED
  BY <1>1, <1>2 DEF Funded

LEMMA FundedElsewhere ==
    ASSUME NEW p \in Process, run'[p].op \notin AtFile
    PROVE  Funded(p)'
BY DEF Funded

LEMMA GiveUpFunded ==
    ASSUME IInv, IInv', NEW p \in Process, Set(p, GiveUp(p)),
           run[p].op \notin {"off", "drop"}, run[p].step # "idle" \/ run[p].op = "post",
           run[p].op \in AtFile => Rest(p) <= budget'[Home(p)]
    PROVE  Funded(p)'
<1> DEFINE g == GiveUp(p)
           r == run[p]
<1>1. /\ g \in Invocation
      /\ r.op \in {"open", "claim"} => g = Off
      /\ r.op = "recover" => g.op \in {"recover", "prepare", "references", "drop"}
      /\ r.op \in AtFile =>
           /\ g.op \in {"reserve", "references", "drop"}
           /\ g.todo = r.todo \ {At(p)} /\ g.scope = r.scope
      /\ r.op \in {"freeze", "prepare", "references"} => g.op = "drop"
  BY GiveUpRecord
<1>2. run'[p].op = g.op /\ run'[p].todo = g.todo /\ run'[p].scope = g.scope
  <2> HIDE DEF g
  <2> QED
    BY <1>1, SetRecord DEF g
<1>3. r.op \in Ops /\ Off.op = "off"
  BY Standing DEF Invocation, Off
<1> HIDE DEF g
<1>4. CASE r.op \in AtFile
  BY <1>1, <1>2, <1>4, FundedAgain
<1>5. CASE r.op \notin AtFile
  <2>1. g.op \notin AtFile
    BY <1>1, <1>3, <1>5 DEF Ops, AtFile
  <2> QED
    BY <1>2, <2>1, FundedElsewhere
<1> QED
  BY <1>4, <1>5

(* A draw leaves what it does not take.                                      *)
LEMMA Remains ==
    ASSUME IInv, NEW p \in Process, NEW o \in {"reserve", "stage", "finish"},
           Writing(p, o), Consume(Home(p), Additional(p)),
           NEW m \in Nat, m + Additional(p) <= budget[Home(p)]
    PROVE  m <= budget'[Home(p)]
<1>1. /\ run[p].op = o /\ own[p] = {Home(p)} /\ Home(p) \in Season /\ run[p].step = "write"
  BY AtWork DEF Homeless
<1>2. budget \in [Season -> Nat \union {Torn}]
  BY DEF IInv, TypeOK, LocksTypeOK
<1>3. budget[Home(p)] \in Nat
  BY <1>1 DEF IInv, Budgets
<1>4. Additional(p) \in Nat
  BY AdditionalTyped
<1>5. budget'[Home(p)] = Less(budget[Home(p)], Additional(p))
  BY <1>1, <1>2 DEF Consume
<1> DEFINE b == budget[Home(p)]
           n == Additional(p)
<1>6. b \in Nat /\ n \in Nat /\ m + n <= b
  BY <1>3, <1>4
<1>7. m <= Less(b, n)
  <2> HIDE DEF b, n
  <2> QED
    BY <1>6 DEF Less
<1> QED
  BY <1>5, <1>7

LEMMA OwnFunded ==
    ASSUME IInv, IInv', Promised, NEW p \in Process, Moves(p), failures' = 0
    PROVE  Funded(p)'
<1> DEFINE r == run[p]
           b == budget[Home(p)]
<1>1. /\ run \in [Process -> Invocation] /\ r \in Invocation /\ Course(r)
      /\ Unfetched(p) /\ Sound
  BY Standing, WritersHold DEF Promised
<1>2. Off \in Invocation /\ Off.step = "idle" /\ Off.op = "off"
  BY OffCourse DEF Course, Off
<1>3. ASSUME r.op \in AtFile
      PROVE  /\ Rest(p) \in Nat /\ Extra(p) \in Nat /\ Rest(p) + Extra(p) <= b
             /\ b \in Nat /\ Home(p) \in Season /\ r.scope \in Scope
  <2>1. Rest(p) \in Nat /\ Extra(p) \in Nat
    BY <1>3, TypedWants DEF Wants
  <2>2. Rest(p) + Extra(p) <= b
    BY <1>3, WritersHold DEF Promised, Funded
  <2>3. Home(p) \in Season /\ r.scope \in Scope
    BY <1>3, Standing, HomeTyped DEF AtFile, Home
  <2>4. b \in Nat
    BY <1>1, <2>3 DEF Sound, IInv, TypeOK, LocksTypeOK
  <2> QED
    BY <2>1, <2>2, <2>3, <2>4
<1>4. ASSUME NEW q \in Invocation, NEW o \in Ops \ AtFile, Set(p, Goto(q, o))
      PROVE  Funded(p)'
  <2>1. run'[p].op = o
    BY <1>4, GotoRecord, SetRecord
  <2> QED
    BY <2>1, FundedElsewhere
<1>5. ASSUME Set(p, GiveUp(p)), r.op \notin {"off", "drop"}, r.step # "idle" \/ r.op = "post",
             budget' = budget
      PROVE  Funded(p)'
  <2>1. r.op \in AtFile => Rest(p) <= b
    <3> SUFFICES ASSUME r.op \in AtFile PROVE Rest(p) <= b
      OBVIOUS
    <3>1. Rest(p) \in Nat /\ Extra(p) \in Nat /\ Rest(p) + Extra(p) <= b /\ b \in Nat
      BY <1>3
    <3> HIDE DEF b
    <3> QED
      BY <3>1
  <2> QED
    BY <1>5, <2>1, GiveUpFunded
<1>6. ASSUME NEW c \in Scope, Begin(p, c)
      PROVE  Funded(p)'
  <2> DEFINE g == Goto(Off, "open")
             n == [g EXCEPT !.scope = c]
  <2>1. g \in Invocation /\ g.op = "open"
    BY <1>2, GotoRecord DEF Ops
  <2>2. Set(p, n)
    BY <1>6 DEF Begin
  <2> HIDE DEF g
  <2>3. n \in Invocation /\ n.op = "open"
    BY <2>1 DEF Invocation
  <2> HIDE DEF n
  <2>4. run'[p].op = "open"
    BY <2>2, <2>3, SetRecord
  <2> QED
    BY <2>4, FundedElsewhere DEF AtFile
<1>7. CASE Lock(p) \/ Trim(p) \/ \E s \in Season : Survey(p, s) \/ LetGo(p, s)
  <2>1. /\ run'[p].op = r.op /\ run'[p].todo = r.todo /\ run'[p].scope = r.scope
        /\ run'[p].body = r.body
    <3>1. CASE Lock(p)
      BY <1>1, <3>1 DEF Lock, Invocation
    <3>2. CASE Trim(p)
      BY <1>1, <3>2 DEF Trim, Invocation
    <3>3. CASE \E s \in Season : Survey(p, s) \/ LetGo(p, s)
      <4>1. \/ run'[p] = r
            \/ \E s : run'[p] = [r EXCEPT !.seen = @ \union {s}, !.active = @ \union {s}]
            \/ \E s : run'[p] = [r EXCEPT !.seen = @ \union {s}]
        BY <1>1, <3>3 DEF Survey, LetGo
      <4> QED
        BY <1>1, <4>1 DEF Invocation
    <3> QED
      BY <1>7, <3>1, <3>2, <3>3
  <2>2. budget' = budget
    BY <1>7 DEF Lock, Trim, Survey, LetGo, lockVars
  <2>3. CASE r.op \in AtFile
    <3>1. Extra(p)' = Extra(p)
      BY <2>1 DEF Extra
    <3>2. Rest(p) + Extra(p) <= b
      BY <1>3, <2>3
    <3> QED
      BY <2>1, <2>2, <2>3, <3>1, <3>2, FundedStill
  <2>4. CASE r.op \notin AtFile
    BY <2>1, <2>4, FundedElsewhere
  <2> QED
    BY <2>3, <2>4
<1>8. CASE TimeOut(p) \/ Refuse(p)
  <2>1. r.step \in {"wait", "survey"} /\ Set(p, GiveUp(p)) /\ budget' = budget
    BY <1>8 DEF TimeOut, Refuse, Surveyed, lockVars
  <2>2. r.op \notin {"off", "drop"}
    BY <1>1, <1>2, <2>1 DEF Course, Away
  <2> QED
    BY <1>5, <2>1, <2>2
<1>9. CASE Opened(p) \/ References(p)
  <2>1. Set(p, Goto(r, "claim")) \/ Set(p, Goto(r, "drop"))
    BY <1>9 DEF Opened, References
  <2> QED
    BY <1>1, <1>4, <2>1 DEF Ops, AtFile
<1>10. CASE Claim(p) \/ Freeze(p)
  <2> DEFINE n == [r EXCEPT !.left = r.scope]
  <2>1. r.scope \in SUBSET File
    BY <1>1, <1>10, AtWork, CacheAssumption DEF Claim, Freeze
  <2>2. Set(p, Off) \/ Set(p, Goto(n, "recover")) \/ Set(p, Goto(r, "freeze"))
    BY <1>10 DEF Claim, Freeze
  <2>3. n \in Invocation
    BY <1>1, <2>1 DEF Invocation
  <2> HIDE DEF n
  <2>4. CASE Set(p, Off)
    BY <1>2, <2>4, SetRecord, FundedElsewhere DEF AtFile
  <2>5. CASE Set(p, Goto(n, "recover")) \/ Set(p, Goto(r, "freeze"))
    BY <1>1, <1>4, <2>3, <2>5 DEF Ops, AtFile
  <2> QED
    BY <2>2, <2>4, <2>5
<1>11. CASE Recover(p)
  <2> DEFINE f == At(p)
             n == [r EXCEPT !.left = @ \ {f}]
             m == [n EXCEPT !.todo = @ \union {f}]
  <2>1. /\ r.op = "recover" /\ r.step = "write"
        /\ Set(p, Decide(n)) \/ Set(p, GiveUp(p)) \/ Set(p, Decide(m))
    BY <1>11 DEF Recover, Writing
  <2>2. f \in File
    BY <2>1, AtIsFile
  <2>3. n \in Invocation
    BY <1>1 DEF Invocation
  <2> HIDE DEF n
  <2>4. m \in Invocation
    BY <2>2, <2>3 DEF Invocation
  <2> HIDE DEF m
  <2>5. ASSUME NEW q \in Invocation, Set(p, Decide(q))
        PROVE  Funded(p)'
    <3>1. run'[p].op \in {"recover", "prepare", "references", "drop"}
      BY <2>5, DecideRecord, SetRecord
    <3> QED
      BY <3>1, FundedElsewhere DEF AtFile
  <2>6. CASE Set(p, GiveUp(p))
    <3>1. r.op \notin AtFile /\ r.op \notin {"off", "drop"}
      BY <2>1 DEF AtFile
    <3> QED
      BY <2>1, <2>6, <3>1, GiveUpFunded
  <2> QED
    BY <2>1, <2>3, <2>4, <2>5, <2>6
<1>12. CASE Prepare(p)
  <2> DEFINE n == Cardinality(r.todo)
             m == Cardinality(Missing(p))
  <2>1. /\ r.op = "prepare" /\ r.step = "write" /\ holder = p /\ Set(p, Goto(r, "reserve"))
        /\ budget' = [budget EXCEPT ![Home(p)] = Additional(p)]
    BY <1>12 DEF Prepare, Writing
  <2>2. r.scope \in Scope /\ Home(p) \in Season
    BY <2>1, Standing, HomeTyped DEF Home
  <2>3. budget'[Home(p)] = Worst * m
    <3>1. Additional(p) = Worst * m
      BY <2>1 DEF Additional
    <3> QED
      BY <2>1, <2>2, <3>1 DEF IInv, TypeOK, LocksTypeOK
  <2>4. r.todo \subseteq Missing(p)
    BY <1>1, <2>1 DEF Unfetched, Missing, Course
  <2>5. n \in Nat /\ m \in Nat /\ n <= m
    BY <2>4, AdditionalTyped, FS_Subset, FS_CardinalityType
  <2>6. Worst \in Nat
    BY CacheAssumption DEF Worst
  <2>7. Goto(r, "reserve") \in Invocation /\ Goto(r, "reserve").op = "reserve"
        /\ Goto(r, "reserve").todo = r.todo /\ Goto(r, "reserve").scope = r.scope
    BY <1>1, GotoRecord DEF Ops
  <2>8. run'[p].op = "reserve" /\ run'[p].todo = r.todo /\ run'[p].scope = r.scope
    BY <2>1, <2>7, SetRecord
  <2>9. Worst * n = Rest(p)' + Worst
    BY <2>8, WantsThen DEF Wants, AtFile
  <2>10. Home(p)' = Home(p) /\ Extra(p)' = Worst
    BY <2>8 DEF Home, Extra
  <2> HIDE DEF n, m
  <2>11. Worst * n <= Worst * m
    BY <2>5, <2>6, Times
  <2> QED
    BY <2>3, <2>9, <2>10, <2>11 DEF Funded
<1>13. CASE Reserve(p)
  <2>1. /\ r.op = "reserve" /\ Writing(p, "reserve") /\ Set(p, Goto(r, "post"))
        /\ Consume(Home(p), Additional(p))
    BY <1>13 DEF Reserve, Writing
  <2>2. Goto(r, "post") \in Invocation /\ Goto(r, "post").op = "post"
        /\ Goto(r, "post").todo = r.todo /\ Goto(r, "post").scope = r.scope
    BY <1>1, GotoRecord DEF Ops
  <2>3. run'[p].op = "post" /\ run'[p].todo = r.todo /\ run'[p].scope = r.scope
    BY <2>1, <2>2, SetRecord
  <2>4. Extra(p) = Worst /\ Extra(p)' = LargestBody + 2
    BY <2>1, <2>3 DEF Extra
  <2>5. /\ Rest(p) \in Nat /\ Rest(p) + Worst <= b /\ b \in Nat
    BY <1>3, <2>1, <2>4 DEF AtFile
  <2>6. Additional(p) \in 0..1
    BY <2>1 DEF Additional, MarkerOf
  <2>7. Rest(p) + (LargestBody + 2) + Additional(p) <= b /\ LargestBody + 2 \in Nat
    <3> HIDE DEF b
    <3> QED
      BY <2>5, <2>6, CacheAssumption DEF Worst
  <2>8. Rest(p) + (LargestBody + 2) \in Nat
    BY <2>5, <2>7
  <2>9. Rest(p) + (LargestBody + 2) <= budget'[Home(p)]
    BY <2>1, <2>7, <2>8, Remains
  <2> QED
    BY <2>1, <2>3, <2>4, <2>9, FundedStill DEF AtFile
<1>14. CASE Download(p)
  <2>1. r.op = "post" /\ budget' = budget
    BY <1>14 DEF Download, lockVars
  <2>2. \/ \E n \in 1..LargestBody, sound \in BOOLEAN :
              Set(p, Goto([r EXCEPT !.body = n, !.sound = sound], "stage"))
        \/ Set(p, GiveUp(p))
        \/ Set(p, Goto(r, "drop"))
    BY <1>14 DEF Download
  <2>3. ASSUME NEW n \in 1..LargestBody, NEW sound \in BOOLEAN,
               Set(p, Goto([r EXCEPT !.body = n, !.sound = sound], "stage"))
        PROVE  Funded(p)'
    <3> DEFINE q == [r EXCEPT !.body = n, !.sound = sound]
    <3>1. n \in 0..LargestBody /\ n \in Nat /\ n <= LargestBody /\ LargestBody \in Nat
      BY CacheAssumption
    <3>2. q \in Invocation /\ q.todo = r.todo /\ q.scope = r.scope /\ q.body = n
      BY <1>1, <3>1 DEF Invocation
    <3>3. Set(p, Goto(q, "stage"))
      BY <2>3
    <3> HIDE DEF q
    <3>4. Goto(q, "stage") \in Invocation /\ Goto(q, "stage").op = "stage"
          /\ Goto(q, "stage").todo = r.todo /\ Goto(q, "stage").scope = r.scope
          /\ Goto(q, "stage").body = n
      BY <3>2, GotoRecord DEF Ops
    <3>5. /\ run'[p].op = "stage" /\ run'[p].todo = r.todo /\ run'[p].scope = r.scope
          /\ run'[p].body = n
      BY <3>3, <3>4, SetRecord
    <3>6. Extra(p) = LargestBody + 2 /\ Extra(p)' = n + 2
      BY <2>1, <3>5 DEF Extra
    <3>7. Rest(p) \in Nat /\ Rest(p) + (LargestBody + 2) <= b /\ b \in Nat
      BY <1>3, <2>1, <3>6 DEF AtFile
    <3>8. Rest(p) + (n + 2) <= b
      <4> HIDE DEF b
      <4> QED
        BY <3>1, <3>7
    <3> QED
      BY <2>1, <3>5, <3>6, <3>8, FundedStill DEF AtFile
  <2>4. CASE Set(p, GiveUp(p))
    BY <1>5, <2>1, <2>4
  <2>5. CASE Set(p, Goto(r, "drop"))
    BY <1>1, <1>4, <2>5 DEF Ops, AtFile
  <2> QED
    BY <2>2, <2>3, <2>4, <2>5
<1>15. CASE Stage(p)
  <2> DEFINE n == [r EXCEPT !.op = "finish", !.step = "survey"]
  <2>1. /\ r.op = "stage" /\ r.step = "write" /\ Writing(p, "stage")
        /\ Set(p, n) \/ Set(p, GiveUp(p))
        /\ Consume(Home(p), Additional(p))
    BY <1>15 DEF Stage, Writing
  <2>2. Extra(p) = r.body + 2 /\ Additional(p) = 1 + r.body
    BY <2>1 DEF Extra, Additional
  <2>3. Rest(p) \in Nat /\ Rest(p) + (r.body + 2) <= b
    BY <1>3, <2>1, <2>2 DEF AtFile
  <2>4. Rest(p) + 1 <= budget'[Home(p)]
    <3>1. r.body \in 0..LargestBody
      BY <1>1 DEF Invocation
    <3>2. Rest(p) + 1 \in Nat /\ (Rest(p) + 1) + Additional(p) <= b
      BY <2>2, <2>3, <3>1, CacheAssumption
    <3> QED
      BY <2>1, <3>2, Remains
  <2>5. /\ n \in Invocation /\ n.op = "finish" /\ n.todo = r.todo /\ n.scope = r.scope
    BY <1>1 DEF Invocation, Ops, Steps
  <2> HIDE DEF n
  <2>6. CASE Set(p, n)
    <3>1. run'[p].op = "finish" /\ run'[p].todo = r.todo /\ run'[p].scope = r.scope
      BY <2>5, <2>6, SetRecord
    <3>2. Extra(p)' = 1
      BY <3>1 DEF Extra
    <3> QED
      BY <2>1, <2>4, <3>1, <3>2, FundedStill DEF AtFile
  <2>7. CASE Set(p, GiveUp(p))
    <3>1. budget'[Home(p)] \in Nat
      <4>1. Home(p) \in Season /\ budget[Home(p)] \in Nat
        BY <1>3, <2>1 DEF AtFile
      <4> QED
        BY <2>1, Drawn
    <3>2. Rest(p) <= budget'[Home(p)]
      BY <2>3, <2>4, <3>1
    <3> QED
      BY <2>1, <2>7, <3>2, GiveUpFunded
  <2> QED
    BY <2>1, <2>6, <2>7
<1>16. CASE Finish(p)
  <2> DEFINE n == [r EXCEPT !.todo = @ \ {At(p)}, !.body = 0]
  <2>1. /\ Set(p, Proceed(n)) /\ r.op = "finish" /\ Writing(p, "finish")
        /\ Consume(Home(p), Additional(p))
    BY <1>16 DEF Finish, Writing, Publish
  <2>2. 0 \in 0..LargestBody
    BY CacheAssumption
  <2>3. n \in Invocation /\ n.todo = r.todo \ {At(p)} /\ n.scope = r.scope
    BY <1>1, <2>2 DEF Invocation
  <2> HIDE DEF n
  <2>4. /\ run'[p].op \in {"reserve", "references", "drop"}
        /\ run'[p].todo = r.todo \ {At(p)} /\ run'[p].scope = r.scope
    BY <2>1, <2>3, ProceedRecord, SetRecord
  <2>5. Extra(p) = 1 /\ Additional(p) = 1
    BY <2>1 DEF Extra, Additional
  <2>6. Rest(p) \in Nat /\ Rest(p) + 1 <= b
    BY <1>3, <2>1, <2>5 DEF AtFile
  <2>7. Rest(p) <= budget'[Home(p)]
    BY <2>1, <2>5, <2>6, Remains
  <2> QED
    BY <2>1, <2>4, <2>7, FundedAgain DEF AtFile
<1>17. CASE Drop(p) \/ Die(p)
  <2>1. run'[p].op = "off"
    BY <1>2, <1>17, SetRecord DEF Drop, Die
  <2> QED
    BY <2>1, FundedElsewhere DEF AtFile
<1>18. CASE StageFails(p) \/ ConsumeFails(p)
  <2>1. failures' = failures + 1 /\ failures \in Nat
    BY <1>18 DEF StageFails, ConsumeFails, Failure, IInv, TypeOK
  <2> QED
    BY <2>1
<1> QED
  BY <1>6, <1>7, <1>8, <1>9, <1>10, <1>11, <1>12, <1>13, <1>14, <1>15, <1>16, <1>17, <1>18
  DEF Moves, Working

LEMMA StepPromised ==
    IInv /\ IInv' /\ Weighed /\ Promised /\ [Next]_vars => Promised'
<1> SUFFICES ASSUME IInv, IInv', Weighed, Promised, [Next]_vars
             PROVE  Promised'
  OBVIOUS
<1>1. CASE UNCHANGED vars
  <2>1. UNCHANGED <<diskVars, budget, run, own, failures, kept>>
    BY <1>1 DEF vars, lockVars, diskVars
  <2>2. Total' = Total /\ OwnedSeasons' = OwnedSeasons
    BY <2>1, TotalSame DEF OwnedSeasons, Owned
  <2>3. Sound' = Sound /\ Fitting' = Fitting
    BY <2>1, <2>2 DEF Sound, Fitting, Promise
  <2>4. ASSUME NEW q \in Process
        PROVE  /\ Unfetched(q)' = Unfetched(q) /\ Fresh(q)' = Fresh(q)
               /\ Reckoned(q)' = Reckoned(q) /\ Funded(q)' = Funded(q)
    BY <2>1, <2>2 DEF Unfetched, Fresh, Reckoned, Promise, Funded, Rest, Extra, At, Home
  <2> QED
    BY <2>1, <2>3, <2>4 DEF Promised
<1>2. ASSUME NEW p \in Process, Moves(p)
      PROVE  Promised'
  <2>1. \A q \in Process \ {p} : /\ Unfetched(q)' /\ Fresh(q)'
                                 /\ failures' = 0 => Reckoned(q)' /\ Funded(q)'
    BY <1>2, OthersPromised
  <2>2. Unfetched(p)' /\ Fresh(p)'
    BY <1>2, OwnUnfetched, OwnFresh
  <2>3. failures' = 0 => Reckoned(p)' /\ Funded(p)' /\ Sound' /\ Fitting'
    BY <1>2, OwnReckoned, OwnFunded, FitKept
  <2> QED
    BY <2>1, <2>2, <2>3 DEF Promised
<1> QED
  BY <1>1, <1>2 DEF Next, Moves

LEMMA InitPromised == Init => Promised
<1> SUFFICES ASSUME Init PROVE Promised
  OBVIOUS
<1>1. /\ \A p \in Process : /\ run[p] = Off /\ run[p].op = "off" /\ run[p].step = "idle"
                            /\ run[p].todo = {} /\ run[p].left = {}
                            /\ run[p].active = {} /\ run[p].seen = {}
      /\ \A s \in Season : budget[s] = 0
  BY DEF Init, LocksInit, Off
<1>2. \A p \in Process : Unfetched(p) /\ Fresh(p) /\ Reckoned(p) /\ Funded(p)
  BY <1>1 DEF Unfetched, Fresh, Reckoned, Funded, AtFile
<1>3. Sound
  BY <1>1, LocksAssumption DEF Sound
<1>4. Fitting
  <2>1. OwnedSeasons = {}
    BY DEF Init, LocksInit, OwnedSeasons, Owned
  <2>2. Promise(OwnedSeasons) = 0
    BY <2>1, SumEmpty DEF Promise
  <2>3. Total <= Cap /\ Total \in Nat
    BY InitIInv, InitWeighed, TypedWeighable DEF Weighed, IInv, Weighable
  <2> QED
    BY <2>2, <2>3 DEF Fitting
<1> QED
  BY <1>2, <1>3, <1>4 DEF Promised

LEMMA AlwaysPromised == Spec => [](IInv /\ Promised)
<1>1. Spec => []IInv /\ []Weighed
  BY AlwaysWeighed, PTL
<1> QED
  BY <1>1, InitPromised, StepPromised, PTL DEF Spec

(* Whoever paid is found room for by the survey: what it asks for is within  *)
(* its own promise, which the survey has counted.                            *)
LEMMA PaidFound ==
    ASSUME IInv, Promised, failures = 0, NEW p \in Process
    PROVE  RoomForPaid(p)
<1> SUFFICES ASSUME Surveyed(p), Readable(p), run[p].op \in {"stage", "finish"}
             PROVE  Fits(p)
  BY DEF RoomForPaid
<1> DEFINE b == budget[Home(p)]
           n == Additional(p)
           A == run[p].active
           B == OwnedSeasons \union A
           W == Weighing(Victims(p))
           C == Cardinality(Pruned(p))
<1>1. /\ Sound /\ Rest(p) + Extra(p) <= b /\ Rest(p) \in Nat
      /\ Total + SumFunctionOnSet(budget, B) <= Cap
  BY TypedWants DEF Promised, Funded, AtFile, Wants, Reckoned, Surveyed, Promise
<1>2. run[p] \in Invocation /\ run[p].scope \in Scope /\ own[p] = {Home(p)}
  BY Standing DEF Homeless
<1>3. Home(p) \in Season
  BY <1>2, HomeTyped DEF Home
<1>4. b \in Nat /\ n \in Nat
  BY <1>1, <1>3, AdditionalTyped DEF Sound, IInv, TypeOK, LocksTypeOK
<1>5. n <= b
  <2>1. run[p].body \in 0..LargestBody
    BY <1>2 DEF Invocation
  <2>2. n <= Extra(p) /\ Extra(p) \in Nat
    BY <2>1, CacheAssumption DEF Additional, Extra
  <2> HIDE DEF b, n
  <2> QED
    BY <1>1, <1>4, <2>2 DEF b
<1>6. Credit(p) = n
  BY <1>4, <1>5 DEF Credit
<1>7. A \in SUBSET Season /\ Outstanding(p) = SumFunctionOnSet(budget, A)
      /\ Outstanding(p) \in Nat
  BY OutstandingIs
<1>8. B \in SUBSET Season /\ A \subseteq B
  BY <1>7 DEF OwnedSeasons
<1>9. SumFunctionOnSet(budget, B) \in Nat
      /\ SumFunctionOnSet(budget, A) <= SumFunctionOnSet(budget, B)
  BY <1>1, <1>8, Promises DEF Sound
<1>10. W \in Nat
  <2> DEFINE E == [f \in Victims(p) |-> EntryOf(f)]
  <2>1. Victims(p) \in SUBSET File
    BY DEF Victims, Evictable
  <2>2. \A f \in Victims(p) : E[f] \in Nat
    BY <2>1, TypedWeighable DEF IInv, Weighable
  <2>3. IsFiniteSet(Victims(p))
    BY <2>1, CacheAssumption, FS_Subset
  <2>4. W = SumFunctionOnSet(E, Victims(p))
    BY DEF Weighing, SumFunction
  <2> HIDE DEF E
  <2> QED
    BY <2>2, <2>3, <2>4, SumNatural
<1>11. C \in Nat
  <2>1. Pruned(p) \subseteq frozen /\ IsFiniteSet(frozen)
    BY TypedWeighable DEF Pruned, Prunable, IInv, Weighable
  <2> QED
    BY <2>1, FS_Subset, FS_CardinalityType
<1>12. Total \in Nat
  BY TypedWeighable DEF IInv, Weighable
<1>13. Target(p) = Total + Outstanding(p) + n - n
  BY <1>6 DEF Target
<1> HIDE DEF n, A, B, W, C
<1>14. Target(p) - W - C <= Cap
  BY <1>1, <1>4, <1>7, <1>9, <1>10, <1>11, <1>12, <1>13, CacheAssumption
<1> QED
  BY <1>14 DEF Fits, W, C

(* RoomIsThere: while no write has failed, the cache and the promises to its *)
(* owners fit together, and who has paid for a response finds room for it,   *)
(* for every number of processes, seasons and files.                         *)
THEOREM RoomAlwaysThere == Spec => []RoomIsThere
<1>1. IInv /\ Promised => RoomIsThere
  <2> SUFFICES ASSUME IInv, Promised PROVE RoomIsThere
    OBVIOUS
  <2>1. PromisesFit
    <3> SUFFICES ASSUME failures = 0
                 PROVE  Total + SumFunction([s \in OwnedSeasons |-> budget[s]]) <= Cap
      BY DEF PromisesFit, OwnedSeasons
    <3> DEFINE g == [s \in OwnedSeasons |-> budget[s]]
    <3>1. Sound /\ Total + SumFunctionOnSet(budget, OwnedSeasons) <= Cap
      BY DEF Promised, Fitting, Promise
    <3>2. OwnedSeasons \in SUBSET Season
      BY DEF OwnedSeasons
    <3>3. IsFiniteSet(OwnedSeasons) /\ \A s \in OwnedSeasons : budget[s] \in Nat
      BY <3>1, <3>2, Promises DEF Sound
    <3>4. SumFunction(g) = SumFunctionOnSet(g, OwnedSeasons)
      BY DEF SumFunction
    <3>5. \A s \in OwnedSeasons : g[s] = budget[s] /\ g[s] \in Int
      BY <3>3
    <3> HIDE DEF g
    <3>6. SumFunctionOnSet(g, OwnedSeasons) = SumFunctionOnSet(budget, OwnedSeasons)
      BY <3>3, <3>5, SumSame
    <3> QED
      BY <3>1, <3>4, <3>6 DEF g
  <2>2. PaidFits
    BY PaidFound DEF PaidFits
  <2> QED
    BY <2>1, <2>2 DEF RoomIsThere
<1> QED
  BY <1>1, AlwaysPromised, PTL

-----------------------------------------------------------------------------
(* Manifests                                                                 *)

(* Once its selection is frozen an invocation can rely on the manifest until *)
(* it drops the cache: its own trimming pins it, the others leave the season *)
(* of an owner alone.                                                        *)
Selected(p) ==
    run[p].op \notin Homeless \union {"freeze", "drop"} => run[p].scope \in frozen
Traced(f) == kept[f] > 0 \/ staged[f] > 0 \/ f \in marked
Charted == (\A p \in Process : Selected(p)) /\ TracesHaveManifest

LEMMA OthersSelected ==
    ASSUME IInv, Charted, NEW p \in Process, Moves(p), NEW q \in Process \ {p}
    PROVE  Selected(q)'
<1>1. run'[q] = run[q]
  BY WritersHold DEF Alone
<1> SUFFICES ASSUME run[q].op \notin Homeless \union {"freeze", "drop"}
             PROVE  run[q].scope \in frozen'
  BY <1>1 DEF Selected
<1>2. run[q].scope \in frozen
  BY DEF Charted, Selected
<1>3. CASE Trim(p)
  <2>1. own[q] = {Home(q)}
    BY Standing
  <2> QED
    BY <1>2, <1>3, <2>1, TrimSpares DEF Home
<1>4. CASE ~Trim(p)
  <2>1. frozen' = frozen \/ frozen' = frozen \union {run[p].scope}
    BY <1>4 DEF Moves, Working, Begin, Lock, TimeOut, Survey, LetGo, Refuse, Opened, Claim,
                Freeze, Recover, Prepare, Reserve, Stage, Finish, Download, References, Drop,
                Die, StageFails, ConsumeFails, diskVars
  <2> QED
    BY <1>2, <2>1
<1> QED
  BY <1>3, <1>4

(* A settling step that stays with a selection.                              *)
LEMMA StaysSelected ==
    ASSUME IInv, Charted, NEW p \in Process, NEW r \in Invocation, Set(p, r),
           r.op = "drop" \/ r.op \in Homeless \/ r.scope = run[p].scope,
           run[p].op \in Homeless \union {"freeze", "drop"} =>
               r.op \in Homeless \union {"freeze", "drop"},
           frozen' = frozen
    PROVE  Selected(p)'
<1>1. run'[p].op = r.op /\ run'[p].scope = r.scope
  BY SetRecord
<1> QED
  BY <1>1 DEF Selected, Charted

LEMMA OwnSelected ==
    ASSUME IInv, Charted, NEW p \in Process, Moves(p)
    PROVE  Selected(p)'
<1> DEFINE r == run[p]
           Before == Homeless \union {"freeze", "drop"}
<1>1. run \in [Process -> Invocation] /\ r \in Invocation /\ Course(r)
  BY Standing
<1>2. Off \in Invocation /\ Off.step = "idle" /\ Off.op = "off"
  BY OffCourse DEF Course, Off
<1>3. ASSUME NEW o \in Ops, Set(p, Goto(r, o)), frozen' = frozen,
             r.op \in Before => o \in Before
      PROVE  Selected(p)'
  BY <1>1, <1>3, GotoRecord, StaysSelected
<1>4. ASSUME Set(p, GiveUp(p)), frozen' = frozen, r.op \notin {"off", "drop"},
             r.step # "idle" \/ r.op = "post"
      PROVE  Selected(p)'
  <2> DEFINE g == GiveUp(p)
  <2>1. /\ g \in Invocation
        /\ r.op \in {"open", "claim"} => g = Off
        /\ r.op \in {"recover"} \union AtFile => g.scope = r.scope
        /\ r.op \in {"freeze", "prepare", "references"} => g.op = "drop"
    BY <1>4, GiveUpRecord
  <2>2. r.op \in Ops /\ Off.op \in Homeless
    BY <1>1, <1>2 DEF Invocation, Homeless
  <2> HIDE DEF g
  <2>3. /\ g.op = "drop" \/ g.op \in Homeless \/ g.scope = r.scope
        /\ r.op \in Before => g.op \in Before
    BY <1>4, <2>1, <2>2 DEF Ops, AtFile, Homeless
  <2> QED
    BY <1>4, <2>1, <2>3, StaysSelected DEF g
<1>5. ASSUME NEW c \in Scope, Begin(p, c)
      PROVE  Selected(p)'
  <2> DEFINE g == Goto(Off, "open")
             n == [g EXCEPT !.scope = c]
  <2>1. g \in Invocation /\ g.op = "open"
    BY <1>2, GotoRecord DEF Ops
  <2>2. Set(p, n)
    BY <1>5 DEF Begin
  <2> HIDE DEF g
  <2>3. n \in Invocation /\ n.op = "open"
    BY <2>1 DEF Invocation
  <2> HIDE DEF n
  <2>4. run'[p].op = "open"
    BY <2>2, <2>3, SetRecord
  <2> QED
    BY <2>4 DEF Selected, Homeless
<1>6. CASE Lock(p) \/ \E s \in Season : Survey(p, s) \/ LetGo(p, s)
  <2>1. frozen' = frozen
    BY <1>6 DEF Lock, Survey, LetGo, diskVars
  <2>2. \/ run'[p] = r
        \/ \E s : run'[p] = [r EXCEPT !.seen = @ \union {s}, !.active = @ \union {s}]
        \/ \E s : run'[p] = [r EXCEPT !.seen = @ \union {s}]
        \/ run'[p] = [r EXCEPT !.step = IF Asks(p) THEN "survey" ELSE "write"]
    BY <1>1, <1>6 DEF Survey, LetGo, Lock
  <2>3. run'[p].op = r.op /\ run'[p].scope = r.scope
    BY <1>1, <2>2 DEF Invocation
  <2> QED
    BY <2>1, <2>3 DEF Charted, Selected
<1>7. CASE Trim(p)
  <2>1. run'[p].op = r.op /\ run'[p].scope = r.scope /\ frozen' = frozen \ Pruned(p)
    BY <1>1, <1>7 DEF Trim, Invocation
  <2>2. r.op \notin Homeless => r.scope \notin Pruned(p)
    BY DEF Pruned, Prunable, Pinned, Homeless
  <2> QED
    BY <2>1, <2>2 DEF Charted, Selected
<1>8. CASE TimeOut(p) \/ Refuse(p)
  <2>1. r.step \in {"wait", "survey"} /\ Set(p, GiveUp(p)) /\ frozen' = frozen
    BY <1>8 DEF TimeOut, Refuse, Surveyed, diskVars
  <2>2. r.op \notin {"off", "drop"}
    BY <1>1, <1>2, <2>1 DEF Course, Away
  <2> QED
    BY <1>4, <2>1, <2>2
<1>9. CASE Opened(p) \/ References(p)
  <2>1. frozen' = frozen
    BY <1>9 DEF Opened, References, diskVars
  <2>2. \E o \in Before \ {"off"} : Set(p, Goto(r, o))
    BY <1>9 DEF Opened, References, Homeless
  <2> QED
    BY <1>3, <2>1, <2>2 DEF Ops, Homeless
<1>10. CASE Claim(p)
  <2> DEFINE n == [r EXCEPT !.left = r.scope]
  <2>1. r.op = "claim" /\ frozen' = frozen /\ r.scope \in SUBSET File
    BY <1>10, AtWork, CacheAssumption DEF Claim, Writing, diskVars
  <2>2. \/ Set(p, Off) \/ Set(p, Goto(r, "freeze"))
        \/ Set(p, Goto(n, "recover")) /\ r.scope \in frozen
    BY <1>10 DEF Claim
  <2>3. n \in Invocation /\ n.scope = r.scope
    BY <1>1, <2>1 DEF Invocation
  <2> HIDE DEF n
  <2>4. CASE Set(p, Off)
    BY <1>2, <2>4, SetRecord DEF Selected, Homeless
  <2>5. CASE Set(p, Goto(r, "freeze"))
    BY <1>3, <2>1, <2>5 DEF Ops
  <2>6. CASE Set(p, Goto(n, "recover")) /\ r.scope \in frozen
    <3>1. run'[p].scope = r.scope
      BY <2>3, <2>6, GotoRecord, SetRecord DEF Ops
    <3> QED
      BY <2>1, <2>6, <3>1 DEF Selected
  <2> QED
    BY <2>2, <2>4, <2>5, <2>6
<1>11. CASE Freeze(p)
  <2> DEFINE n == [r EXCEPT !.left = r.scope]
  <2>1. frozen' = frozen \union {r.scope} /\ Set(p, Goto(n, "recover")) /\ r.scope \in SUBSET File
    BY <1>11, AtWork, CacheAssumption DEF Freeze
  <2>2. n \in Invocation /\ n.scope = r.scope
    BY <1>1, <2>1 DEF Invocation
  <2> HIDE DEF n
  <2>3. run'[p].scope = r.scope
    BY <2>1, <2>2, GotoRecord, SetRecord DEF Ops
  <2> QED
    BY <2>1, <2>3 DEF Selected
<1>12. CASE Recover(p)
  <2> DEFINE f == At(p)
             n == [r EXCEPT !.left = @ \ {f}]
             m == [n EXCEPT !.todo = @ \union {f}]
  <2>1. /\ r.op = "recover" /\ r.step = "write" /\ frozen' = frozen
        /\ Set(p, Decide(n)) \/ Set(p, GiveUp(p)) \/ Set(p, Decide(m))
    BY <1>12 DEF Recover, Writing
  <2>2. f \in File
    BY <2>1, AtIsFile
  <2>3. n \in Invocation /\ n.scope = r.scope
    BY <1>1 DEF Invocation
  <2> HIDE DEF n
  <2>4. m \in Invocation /\ m.scope = r.scope
    BY <2>2, <2>3 DEF Invocation
  <2> HIDE DEF m
  <2>5. ASSUME NEW q \in Invocation, q.scope = r.scope, Set(p, Decide(q))
        PROVE  Selected(p)'
    BY <2>1, <2>5, DecideRecord, StaysSelected DEF Homeless
  <2> QED
    BY <1>4, <2>1, <2>3, <2>4, <2>5
<1>13. CASE Prepare(p) \/ Reserve(p)
  <2>1. r.op \notin Before /\ frozen' = frozen
    BY <1>13 DEF Prepare, Reserve, Writing, Homeless, diskVars
  <2>2. Set(p, Goto(r, "reserve")) \/ Set(p, Goto(r, "post"))
    BY <1>13 DEF Prepare, Reserve
  <2> QED
    BY <1>3, <2>1, <2>2 DEF Ops
<1>14. CASE Download(p)
  <2>1. r.op = "post" /\ r.op \notin Before /\ frozen' = frozen
    BY <1>14 DEF Download, Homeless, diskVars
  <2>2. \/ \E n \in 1..LargestBody, sound \in BOOLEAN :
              Set(p, Goto([r EXCEPT !.body = n, !.sound = sound], "stage"))
        \/ Set(p, GiveUp(p))
        \/ Set(p, Goto(r, "drop"))
    BY <1>14 DEF Download
  <2>3. ASSUME NEW n \in 1..LargestBody, NEW sound \in BOOLEAN,
               Set(p, Goto([r EXCEPT !.body = n, !.sound = sound], "stage"))
        PROVE  Selected(p)'
    <3> DEFINE q == [r EXCEPT !.body = n, !.sound = sound]
    <3>1. n \in 0..LargestBody
      BY CacheAssumption
    <3>2. q \in Invocation /\ q.scope = r.scope
      BY <1>1, <3>1 DEF Invocation
    <3>3. Set(p, Goto(q, "stage"))
      BY <2>3
    <3> HIDE DEF q
    <3>4. Goto(q, "stage") \in Invocation /\ Goto(q, "stage").scope = r.scope
      BY <3>2, GotoRecord DEF Ops
    <3> QED
      BY <2>1, <3>3, <3>4, StaysSelected
  <2>4. CASE Set(p, GiveUp(p))
    BY <1>4, <2>1, <2>4
  <2>5. CASE Set(p, Goto(r, "drop"))
    BY <1>3, <2>1, <2>5 DEF Ops
  <2> QED
    BY <2>2, <2>3, <2>4, <2>5
<1>15. CASE Stage(p) \/ StageFails(p) \/ ConsumeFails(p)
  <2> DEFINE n == [r EXCEPT !.op = "finish", !.step = "survey"]
  <2>1. /\ r.op \in {"stage", "reserve"} /\ r.step = "write" /\ frozen' = frozen
        /\ Set(p, n) \/ Set(p, GiveUp(p))
    BY <1>15 DEF Stage, StageFails, ConsumeFails, Writing
  <2>2. n \in Invocation /\ n.scope = r.scope
    BY <1>1 DEF Invocation, Ops, Steps
  <2> HIDE DEF n
  <2>3. CASE Set(p, n)
    BY <2>1, <2>2, <2>3, StaysSelected DEF Homeless
  <2>4. CASE Set(p, GiveUp(p))
    BY <1>4, <2>1, <2>4
  <2> QED
    BY <2>1, <2>3, <2>4
<1>16. CASE Finish(p)
  <2> DEFINE n == [r EXCEPT !.todo = @ \ {At(p)}, !.body = 0]
  <2>1. Set(p, Proceed(n)) /\ r.op = "finish" /\ frozen' = frozen
    BY <1>16 DEF Finish, Writing
  <2>2. 0 \in 0..LargestBody
    BY CacheAssumption
  <2>3. n \in Invocation /\ n.scope = r.scope
    BY <1>1, <2>2 DEF Invocation
  <2> HIDE DEF n
  <2> QED
    BY <2>1, <2>3, ProceedRecord, StaysSelected DEF Homeless
<1>17. CASE Drop(p) \/ Die(p)
  <2>1. run'[p].op = "off"
    BY <1>2, <1>17, SetRecord DEF Drop, Die
  <2> QED
    BY <2>1 DEF Selected, Homeless
<1> QED
  BY <1>5, <1>6, <1>7, <1>8, <1>9, <1>10, <1>11, <1>12, <1>13, <1>14, <1>15, <1>16, <1>17
  DEF Moves, Working

(* What leaves a trace is of a selection at work; what is pruned has none.   *)
LEMMA StepTraces ==
    ASSUME IInv, IInv', Charted, NEW p \in Process, Moves(p)
    PROVE  TracesHaveManifest'
<1> SUFFICES ASSUME NEW f \in File, Traced(f)'
             PROVE  \E c \in frozen' : f \in c
  BY DEF TracesHaveManifest, Traced
<1>1. /\ kept \in [File -> 0..LargestBody] /\ staged \in [File -> 0..LargestBody + 1]
      /\ kept[f] \in Nat /\ staged[f] \in Nat
  BY CacheAssumption DEF IInv, TypeOK
<1>2. Traced(f) => \E c \in frozen : f \in c
  BY DEF Charted, TracesHaveManifest, Traced
<1>3. CASE Trim(p)
  <2>1. /\ kept'[f] = (IF f \in Victims(p) THEN 0 ELSE kept[f]) /\ staged' = staged
        /\ marked' \subseteq marked /\ frozen' = frozen \ Pruned(p)
    BY <1>3 DEF Trim
  <2>2. Traced(f) /\ ~Bare(f)
    BY <1>1, <2>1 DEF Traced, Bare
  <2>3. \A c \in Pruned(p) : f \notin c
    BY <2>2 DEF Pruned, Prunable
  <2> QED
    BY <1>2, <2>1, <2>2, <2>3
<1>4. CASE Freeze(p)
  BY <1>2, <1>4 DEF Freeze, Traced
<1>5. CASE Recover(p) \/ Reserve(p) \/ Stage(p) \/ Finish(p) \/ StageFails(p) \/ ConsumeFails(p)
  <2>1. /\ run[p].op \in {"recover", "reserve", "stage", "finish"} /\ frozen' = frozen
        /\ f # At(p) => Traced(f)
    BY <1>1, <1>5 DEF Recover, Reserve, Stage, Finish, Publish, StageFails, ConsumeFails,
                      Writing, Traced
  <2>2. At(p) \in run[p].scope
    BY <2>1, AtIsFile DEF AtFile
  <2>3. run[p].scope \in frozen
    BY <2>1 DEF Charted, Selected, Homeless
  <2> QED
    BY <1>2, <2>1, <2>2, <2>3
<1>6. CASE ~(\/ Trim(p) \/ Freeze(p) \/ Recover(p) \/ Reserve(p) \/ Stage(p) \/ Finish(p)
             \/ StageFails(p) \/ ConsumeFails(p))
  <2>1. UNCHANGED diskVars
    BY <1>6 DEF Moves, Working, Begin, Lock, TimeOut, Survey, LetGo, Refuse, Opened, Claim,
                Prepare, Download, References, Drop, Die
  <2> QED
    BY <1>2, <2>1 DEF diskVars, Traced
<1> QED
  BY <1>3, <1>4, <1>5, <1>6

LEMMA StepCharted == IInv /\ IInv' /\ Charted /\ [Next]_vars => Charted'
<1> SUFFICES ASSUME IInv, IInv', Charted, [Next]_vars
             PROVE  Charted'
  OBVIOUS
<1>1. CASE UNCHANGED vars
  BY <1>1 DEF vars, diskVars, Charted, Selected, TracesHaveManifest
<1>2. ASSUME NEW p \in Process, Moves(p)
      PROVE  Charted'
  BY <1>2, OthersSelected, OwnSelected, StepTraces DEF Charted
<1> QED
  BY <1>1, <1>2 DEF Next, Moves

LEMMA InitCharted == Init => Charted
<1> SUFFICES ASSUME Init PROVE Charted
  OBVIOUS
<1>1. \A p \in Process : Selected(p)
  BY DEF Init, Off, Selected, Homeless
<1>2. TracesHaveManifest
  BY DEF Init, TracesHaveManifest
<1> QED
  BY <1>1, <1>2 DEF Charted

(* TracesHaveManifest: nothing is kept, staged or charged for that no        *)
(* manifest selects, so a later invocation can tell what a season's files    *)
(* are for.                                                                  *)
THEOREM TracesSelected == Spec => []TracesHaveManifest
<1>1. Charted => TracesHaveManifest
  BY DEF Charted
<1> QED
  BY <1>1, AlwaysIInv, InitCharted, StepCharted, PTL DEF Spec

-----------------------------------------------------------------------------
(* Progress                                                                  *)

(* How far an invocation is: the part of its course ...                      *)
Chapter(o) == CASE o = "open" -> 8
                [] o = "claim" -> 7
                [] o = "freeze" -> 6
                [] o = "recover" -> 5
                [] o = "prepare" -> 4
                [] o \in AtFile -> 3
                [] o = "references" -> 2
                [] o = "drop" -> 1
                [] o = "off" -> 0

(* ... the files that part has still to handle ...                           *)
Ahead(r) == CASE r.op = "recover" -> Cardinality(r.left)
              [] r.op \in AtFile -> Cardinality(r.todo)
              [] OTHER -> 0

(* ... how far the file at work is ...                                       *)
Turn(o) == CASE o = "reserve" -> 3
             [] o = "post" -> 2
             [] o = "stage" -> 1
             [] OTHER -> 0

(* ... and the transaction: it waits for its lock, surveys every season, of  *)
(* which it may have locked one, and writes.                                 *)
Unseen(p) == Cardinality(Season \ run[p].seen)
Locked(p) == \E s \in Season : Probing(p, s)
Pause(p) == CASE run[p].step = "wait" -> 2 * Cardinality(Season) + 3
              [] run[p].step = "survey" -> 2 * Unseen(p) + (IF Locked(p) THEN 1 ELSE 2)
              [] OTHER -> 0

Span == 2 * Cardinality(Season) + 4
Most == Cardinality(File) + 1

(* The steps an invocation can take yet, at most.                            *)
Remaining(p) == Numeral(Most, Span, Chapter(run[p].op), Ahead(run[p]),
                        Turn(run[p].op), Pause(p))
Longest == Numeral(Most, Span, 9, 0, 0, 0)

Acts(p) == Working(p) \/ Die(p) \/ StageFails(p) \/ ConsumeFails(p)

(* Record r is nearer to the end than record q, whatever their transactions. *)
Nearer(r, q) ==
    \/ Chapter(r.op) < Chapter(q.op)
    \/ Chapter(r.op) = Chapter(q.op) /\ Ahead(r) < Ahead(q)
    \/ Chapter(r.op) = Chapter(q.op) /\ Ahead(r) = Ahead(q) /\ Turn(r.op) < Turn(q.op)

LEMMA OpNumbers ==
    ASSUME NEW o \in Ops
    PROVE  Chapter(o) \in 0..8 /\ Turn(o) \in 0..3
<1>1. Turn(o) \in 0..3
  BY DEF Turn
<1> QED
  BY <1>1 DEF Chapter, Ops, AtFile

LEMMA FileNumbers ==
    /\ IsFiniteSet(File) /\ IsFiniteSet(Season)
    /\ Cardinality(File) \in Nat /\ Cardinality(Season) \in Nat
    /\ Most \in Nat /\ Span \in Nat
<1>1. IsFiniteSet(File) /\ IsFiniteSet(Season)
  BY CacheAssumption
<1>2. Cardinality(File) \in Nat /\ Cardinality(Season) \in Nat
  BY <1>1, FS_CardinalityType
<1> QED
  BY <1>1, <1>2 DEF Most, Span

LEMMA AheadNumber ==
    ASSUME NEW r \in Invocation
    PROVE  Ahead(r) \in 0..(Most - 1)
<1>1. r.left \subseteq File /\ r.todo \subseteq File
  BY DEF Invocation
<1>2. ASSUME NEW S \in SUBSET File
      PROVE  Cardinality(S) \in 0..(Most - 1)
  <2>1. IsFiniteSet(S) /\ Cardinality(S) <= Cardinality(File)
    BY FileNumbers, FS_Subset
  <2>2. Cardinality(S) \in Nat
    BY <2>1, FS_CardinalityType
  <2> QED
    BY <2>1, <2>2, FileNumbers DEF Most
<1>3. 0 \in 0..(Most - 1)
  BY FileNumbers DEF Most
<1> QED
  BY <1>1, <1>2, <1>3, Zenon DEF Ahead

LEMMA PauseNumber ==
    ASSUME NEW p \in Process, run[p].seen \subseteq Season
    PROVE  /\ Pause(p) \in 0..(Span - 1)
           /\ Unseen(p) \in 0..Cardinality(Season)
<1>1. Unseen(p) \in 0..Cardinality(Season)
  <2>1. IsFiniteSet(Season \ run[p].seen) /\ Cardinality(Season \ run[p].seen) <= Cardinality(Season)
    BY FileNumbers, FS_Subset
  <2>2. Cardinality(Season \ run[p].seen) \in Nat
    BY <2>1, FS_CardinalityType
  <2> QED
    BY <2>1, <2>2, FileNumbers DEF Unseen
<1>2. Cardinality(Season) \in Nat
  BY FileNumbers
<1>3. CASE run[p].step = "wait"
  BY <1>1, <1>2, <1>3 DEF Pause, Span
<1>4. CASE run[p].step = "survey"
  <2>1. (IF Locked(p) THEN 1 ELSE 2) \in {1, 2}
    OBVIOUS
  <2>2. Pause(p) = 2 * Unseen(p) + (IF Locked(p) THEN 1 ELSE 2)
    BY <1>4 DEF Pause
  <2> QED
    BY <1>1, <1>2, <2>1, <2>2 DEF Span
<1>5. CASE run[p].step \notin {"wait", "survey"}
  BY <1>1, <1>2, <1>5 DEF Pause, Span
<1> QED
  BY <1>3, <1>4, <1>5

(* What is left of an invocation never exceeds a bound that depends on the   *)
(* numbers of files and seasons alone.                                       *)
LEMMA Numerals ==
    IInv => \A p \in Process :
        /\ Chapter(run[p].op) \in 0..8 /\ Ahead(run[p]) \in 0..(Most - 1)
        /\ Turn(run[p].op) \in 0..3 /\ Pause(p) \in 0..(Span - 1)
        /\ Unseen(p) \in 0..Cardinality(Season)
<1> SUFFICES ASSUME IInv, NEW p \in Process
             PROVE  /\ Chapter(run[p].op) \in 0..8 /\ Ahead(run[p]) \in 0..(Most - 1)
                    /\ Turn(run[p].op) \in 0..3 /\ Pause(p) \in 0..(Span - 1)
                    /\ Unseen(p) \in 0..Cardinality(Season)
  OBVIOUS
<1>1. run[p] \in Invocation
  BY Standing
<1>2. run[p].op \in Ops /\ run[p].seen \subseteq Season
  BY <1>1 DEF Invocation
<1> QED
  BY <1>1, <1>2, OpNumbers, AheadNumber, PauseNumber

LEMMA NumeralsThen ==
    ASSUME IInv'
    PROVE  \A p \in Process :
             /\ Chapter(run'[p].op) \in 0..8 /\ Ahead(run'[p]) \in 0..(Most - 1)
             /\ Turn(run'[p].op) \in 0..3 /\ Pause(p)' \in 0..(Span - 1)
             /\ Unseen(p)' \in 0..Cardinality(Season)
<1>1. (\A p \in Process :
         /\ Chapter(run[p].op) \in 0..8 /\ Ahead(run[p]) \in 0..(Most - 1)
         /\ Turn(run[p].op) \in 0..3 /\ Pause(p) \in 0..(Span - 1)
         /\ Unseen(p) \in 0..Cardinality(Season))'
  BY Numerals, PTL
<1> QED
  BY <1>1 DEF Chapter, Ahead, Turn, Most, Span

(* The last of the four numbers counts only when the others agree.           *)
LEMMA Falls ==
    ASSUME IInv, IInv', NEW p \in Process,
           \/ Nearer(run'[p], run[p])
           \/ /\ run'[p].op = run[p].op /\ Ahead(run'[p]) = Ahead(run[p])
              /\ Pause(p)' < Pause(p)
    PROVE  Remaining(p)' < Remaining(p)
<1> DEFINE a == Chapter(run'[p].op)
           b == Ahead(run'[p])
           c == Turn(run'[p].op)
           d == Pause(p)'
           h == Chapter(run[p].op)
           i == Ahead(run[p])
           j == Turn(run[p].op)
           k == Pause(p)
<1>1. Most \in Nat /\ Span \in Nat
  BY FileNumbers
<1>2. h \in Nat /\ i \in 0..(Most - 1) /\ j \in 0..3 /\ k \in 0..(Span - 1)
  BY Numerals
<1>3. a \in Nat /\ b \in 0..(Most - 1) /\ c \in 0..3 /\ d \in 0..(Span - 1)
  BY NumeralsThen
<1>4. ComesBefore(a, b, c, d, h, i, j, k)
  BY Zenon DEF Nearer, ComesBefore
<1>5. /\ Remaining(p) = Numeral(Most, Span, h, i, j, k)
      /\ Remaining(p)' = Numeral(Most, Span, a, b, c, d)
  BY DEF Remaining, Numeral, Chapter, Ahead, Turn, Most, Span
<1> HIDE DEF a, b, c, d, h, i, j, k
<1>6. Numeral(Most, Span, a, b, c, d) < Numeral(Most, Span, h, i, j, k)
  BY <1>1, <1>2, <1>3, <1>4, FourDigits
<1> QED
  BY <1>5, <1>6

LEMMA RemainingType ==
    ASSUME IInv, NEW p \in Process
    PROVE  Remaining(p) \in 0..Longest
<1> DEFINE h == Chapter(run[p].op)
           i == Ahead(run[p])
           j == Turn(run[p].op)
           k == Pause(p)
<1>1. Most \in Nat /\ Span \in Nat /\ 0 \in 0..(Most - 1) /\ 0 \in 0..(Span - 1)
  BY FileNumbers DEF Most, Span
<1>2. h \in 0..8 /\ i \in 0..(Most - 1) /\ j \in 0..3 /\ k \in 0..(Span - 1)
  BY Numerals
<1>3. Remaining(p) = Numeral(Most, Span, h, i, j, k)
  BY DEF Remaining
<1> HIDE DEF h, i, j, k
<1>4. h \in Nat /\ i \in Nat /\ j \in Nat /\ k \in Nat /\ 9 \in Nat /\ 0 \in 0..3 /\ 0 \in Nat
  BY <1>1, <1>2
<1>5. ComesBefore(h, i, j, k, 9, 0, 0, 0)
  BY <1>2 DEF ComesBefore
<1>6. Numeral(Most, Span, h, i, j, k) < Numeral(Most, Span, 9, 0, 0, 0)
  BY <1>1, <1>2, <1>4, <1>5, FourDigits
<1>7. Numeral(Most, Span, h, i, j, k) \in Nat /\ Numeral(Most, Span, 9, 0, 0, 0) \in Nat
  BY <1>1, <1>4, NumeralType
<1> QED
  BY <1>3, <1>6, <1>7 DEF Longest

LEMMA RemainingTyped == IInv => \A p \in Process : Remaining(p) \in 0..Longest
  BY RemainingType

LEMMA RemainingThen ==
    ASSUME IInv'
    PROVE  (\A p \in Process : Remaining(p) \in 0..Longest)'
  BY RemainingTyped, PTL

LEMMA SetFalls ==
    ASSUME IInv, IInv', NEW p \in Process, NEW r \in Invocation, Set(p, r),
           Nearer(r, run[p])
    PROVE  Remaining(p)' < Remaining(p)
<1>1. run'[p].op = r.op /\ run'[p].left = r.left /\ run'[p].todo = r.todo
  BY SetRecord
<1>2. Ahead(run'[p]) = Ahead(r)
  BY <1>1 DEF Ahead
<1>3. Nearer(run'[p], run[p])
  BY <1>1, <1>2 DEF Nearer
<1> QED
  BY <1>3, Falls

(* One file fewer is ahead.                                                  *)
LEMMA FewerAhead ==
    ASSUME NEW S \in SUBSET File, NEW f \in S
    PROVE  Cardinality(S \ {f}) < Cardinality(S)
<1>1. IsFiniteSet(S)
  BY FileNumbers, FS_Subset
<1>2. Cardinality(S \ {f}) = Cardinality(S) - 1 /\ Cardinality(S) \in Nat
  BY <1>1, FS_RemoveElement, FS_CardinalityType
<1> QED
  BY <1>2

(* recover_missing, and the download loop, with one file less.               *)
LEMMA FileLooked ==
    ASSUME IInv, NEW p \in Process, run[p].op = "recover", NEW r \in Invocation,
           r.left = run[p].left \ {At(p)},
           r.op \in {"recover", "prepare", "references", "drop"}
    PROVE  Nearer(r, run[p])
<1>1. At(p) \in run[p].left /\ run[p].left \in SUBSET File
  BY AtIsFile, Standing DEF Invocation
<1>2. CASE r.op = "recover"
  <2>1. Ahead(r) = Cardinality(r.left) /\ Ahead(run[p]) = Cardinality(run[p].left)
    BY <1>2 DEF Ahead, AtFile
  <2> QED
    BY <1>1, <1>2, <2>1, FewerAhead DEF Nearer
<1>3. CASE r.op \in {"prepare", "references", "drop"}
  <2>1. Chapter(r.op) < 5 /\ Chapter(run[p].op) = 5
    BY <1>3 DEF Chapter, AtFile
  <2> QED
    BY <2>1 DEF Nearer
<1> QED
  BY <1>2, <1>3

LEMMA FileDone ==
    ASSUME IInv, NEW p \in Process, run[p].op \in AtFile, NEW r \in Invocation,
           r.todo = run[p].todo \ {At(p)},
           r.op \in {"reserve", "references", "drop"}
    PROVE  Nearer(r, run[p])
<1>1. At(p) \in run[p].todo /\ run[p].todo \in SUBSET File
  BY AtIsFile, Standing DEF Invocation
<1>2. CASE r.op = "reserve"
  <2>1. r.op \in AtFile /\ r.op # "recover" /\ run[p].op # "recover"
    BY <1>2 DEF AtFile
  <2>2. Ahead(r) = Cardinality(r.todo) /\ Ahead(run[p]) = Cardinality(run[p].todo)
    BY <2>1 DEF Ahead
  <2>3. Chapter(r.op) = 3 /\ Chapter(run[p].op) = 3
    BY <2>1 DEF Chapter, AtFile
  <2> QED
    BY <1>1, <2>2, <2>3, FewerAhead DEF Nearer
<1>3. CASE r.op \in {"references", "drop"}
  <2>1. Chapter(r.op) < 3 /\ Chapter(run[p].op) = 3
    BY <1>3 DEF Chapter, AtFile
  <2> QED
    BY <2>1 DEF Nearer
<1> QED
  BY <1>2, <1>3

(* A later part of the course.                                               *)
LEMMA Later ==
    ASSUME NEW r, NEW q, Chapter(r.op) < Chapter(q.op)
    PROVE  Nearer(r, q)
  BY DEF Nearer

LEMMA Chapters ==
    /\ Chapter("off") = 0 /\ Chapter("drop") = 1 /\ Chapter("references") = 2
    /\ Chapter("reserve") = 3 /\ Chapter("post") = 3 /\ Chapter("stage") = 3
    /\ Chapter("finish") = 3 /\ Chapter("prepare") = 4 /\ Chapter("recover") = 5
    /\ Chapter("freeze") = 6 /\ Chapter("claim") = 7 /\ Chapter("open") = 8
  BY DEF Chapter, AtFile

LEMMA OffRecord == Off \in Invocation /\ Off.op = "off"
  BY OffCourse DEF Course, Off

(* An operation that fails is not tried again.                               *)
LEMMA GiveUpNearer ==
    ASSUME IInv, NEW p \in Process, run[p].op # "off",
           run[p].step # "idle" \/ run[p].op = "post"
    PROVE  GiveUp(p) \in Invocation /\ Nearer(GiveUp(p), run[p])
<1>1. GiveUp(p) \in Invocation
  BY GiveUpRecord
<1>2. CASE run[p].op \in {"open", "claim"}
  <2>1. GiveUp(p).op = "off"
    BY <1>2, GiveUpRecord, OffRecord
  <2> QED
    BY <1>1, <1>2, <2>1, Later, Chapters
<1>3. CASE run[p].op = "recover"
  <2>1. /\ GiveUp(p).op \in {"recover", "prepare", "references", "drop"}
        /\ GiveUp(p).left = run[p].left \ {At(p)}
    BY <1>3, GiveUpRecord
  <2> QED
    BY <1>1, <1>3, <2>1, FileLooked
<1>4. CASE run[p].op \in AtFile
  <2>1. /\ GiveUp(p).op \in {"reserve", "references", "drop"}
        /\ GiveUp(p).todo = run[p].todo \ {At(p)}
    BY <1>4, GiveUpRecord
  <2> QED
    BY <1>1, <1>4, <2>1, FileDone
<1>5. CASE run[p].op \in {"freeze", "prepare", "references"}
  <2>1. GiveUp(p).op = "drop"
    BY <1>5, GiveUpRecord
  <2> QED
    BY <1>1, <1>5, <2>1, Later, Chapters
<1>6. run[p].op \in {"open", "claim", "recover", "freeze", "prepare", "references"} \union AtFile
  BY Standing DEF Invocation, Ops, AtFile, Course, Away
<1> QED
  BY <1>2, <1>3, <1>4, <1>5, <1>6

(* A step within a transaction: the course stands still.                     *)
LEMMA SurveyFalls ==
    ASSUME IInv, IInv', NEW p \in Process, Pause(p)' < Pause(p),
           run'[p].op = run[p].op /\ run'[p].left = run[p].left /\ run'[p].todo = run[p].todo
    PROVE  Remaining(p)' < Remaining(p)
<1>1. Ahead(run'[p]) = Ahead(run[p])
  BY DEF Ahead
<1> QED
  BY <1>1, Falls

(* The survey knows one season more.                                         *)
LEMMA SeenFalls ==
    ASSUME IInv, NEW p \in Process, NEW s \in Season, s \notin run[p].seen,
           run'[p].seen = run[p].seen \union {s}
    PROVE  Unseen(p)' = Unseen(p) - 1 /\ Unseen(p) \in Nat
<1> DEFINE U == Season \ run[p].seen
<1>1. IsFiniteSet(U) /\ s \in U
  BY FileNumbers, FS_Subset
<1>2. Season \ run'[p].seen = U \ {s}
  OBVIOUS
<1>3. Cardinality(U \ {s}) = Cardinality(U) - 1 /\ Cardinality(U) \in Nat
  BY <1>1, FS_RemoveElement, FS_CardinalityType
<1> QED
  BY <1>2, <1>3 DEF Unseen

LEMMA LockFalls ==
    ASSUME IInv, IInv', NEW p \in Process, Lock(p)
    PROVE  Remaining(p)' < Remaining(p)
<1>1. run[p].step = "wait"
      /\ run' = [run EXCEPT ![p].step = IF Asks(p) THEN "survey" ELSE "write"]
  BY DEF Lock
<1>2. /\ run'[p].op = run[p].op /\ run'[p].left = run[p].left /\ run'[p].todo = run[p].todo
      /\ run'[p].step \in {"survey", "write"}
  <2>1. run \in [Process -> Invocation] /\ run[p] \in Invocation
    BY Standing
  <2> DEFINE e == IF Asks(p) THEN "survey" ELSE "write"
  <2>2. e \in {"survey", "write"} /\ run' = [run EXCEPT ![p].step = e]
    BY <1>1
  <2> HIDE DEF e
  <2>3. run'[p] = [run[p] EXCEPT !.step = e]
    BY <2>1, <2>2
  <2> QED
    BY <2>1, <2>2, <2>3 DEF Invocation
<1>3. Unseen(p)' \in 0..Cardinality(Season) /\ Cardinality(Season) \in Nat
  BY NumeralsThen, FileNumbers
<1>4. Pause(p) = 2 * Cardinality(Season) + 3
  BY <1>1 DEF Pause
<1>5. Pause(p)' = 0 \/ Pause(p)' = 2 * Unseen(p)' + 1 \/ Pause(p)' = 2 * Unseen(p)' + 2
  BY <1>2 DEF Pause
<1>6. Pause(p)' < Pause(p)
  <2> DEFINE u == Unseen(p)'
             n == Cardinality(Season)
  <2>1. u \in 0..n /\ n \in Nat /\ Pause(p) = 2 * n + 3
        /\ (Pause(p)' = 0 \/ Pause(p)' = 2 * u + 1 \/ Pause(p)' = 2 * u + 2)
    BY <1>3, <1>4, <1>5
  <2> HIDE DEF u, n
  <2> QED
    BY <2>1
<1> QED
  BY <1>2, <1>6, SurveyFalls

LEMMA LookFalls ==
    ASSUME IInv, IInv', NEW p \in Process, NEW s \in Season, Survey(p, s) \/ LetGo(p, s)
    PROVE  Remaining(p)' < Remaining(p)
<1>0. /\ own \in [Process -> SUBSET Season] /\ lock \in [Season -> Process \union {NoOne}]
      /\ run \in [Process -> Invocation] /\ run[p] \in Invocation
  BY Standing DEF IInv, TypeOK, LocksTypeOK
<1>1. run[p].step = "survey" /\ own' = own /\ Unseen(p) \in Nat
  BY Numerals DEF Survey, LetGo
<1>2. CASE Survey(p, s) /\ Claimable(s)
  <2>1. /\ \A t \in Season : ~Probing(p, t)
        /\ lock[s] = NoOne /\ lock' = [lock EXCEPT ![s] = p] /\ run' = run
    BY <1>2 DEF Survey, Probe, Claimable
  <2>2. s \notin own[p]
    BY <2>1, LocksAssumption DEF IInv, OwnersLock
  <2>3. Probing(p, s)'
    BY <1>0, <1>1, <2>1, <2>2 DEF Probing
  <2>4. ~Locked(p) /\ Locked(p)'
    BY <2>1, <2>3 DEF Locked
  <2>5. Pause(p) = 2 * Unseen(p) + 2 /\ Pause(p)' = 2 * Unseen(p) + 1
    BY <1>1, <2>1, <2>4 DEF Pause, Unseen
  <2>6. Pause(p)' < Pause(p)
    BY <1>1, <2>5
  <2> QED
    BY <2>1, <2>6, SurveyFalls
<1>3. CASE Survey(p, s) /\ ~Claimable(s)
  <2>1. /\ s \notin run[p].seen /\ lock' = lock /\ \A t \in Season : ~Probing(p, t)
        /\ run' = [run EXCEPT ![p].seen = @ \union {s}, ![p].active = @ \union {s}]
    BY <1>3 DEF Survey
  <2>2. run'[p] = [run[p] EXCEPT !.seen = @ \union {s}, !.active = @ \union {s}]
    BY <1>0, <2>1
  <2>3. /\ run'[p].op = run[p].op /\ run'[p].left = run[p].left /\ run'[p].todo = run[p].todo
        /\ run'[p].step = "survey" /\ run'[p].seen = run[p].seen \union {s}
    BY <1>0, <1>1, <2>2 DEF Invocation
  <2>4. ~Locked(p) /\ ~Locked(p)'
    BY <1>1, <2>1 DEF Locked, Probing
  <2>5. Unseen(p)' = Unseen(p) - 1
    BY <2>1, <2>3, SeenFalls
  <2>6. Pause(p) = 2 * Unseen(p) + 2 /\ Pause(p)' = 2 * Unseen(p)' + 2
    BY <1>1, <2>3, <2>4 DEF Pause
  <2>7. Pause(p)' < Pause(p)
    BY <1>1, <2>5, <2>6
  <2> QED
    BY <2>3, <2>7, SurveyFalls
<1>4. CASE LetGo(p, s)
  <2>1. Probing(p, s) /\ run' = [run EXCEPT ![p].seen = @ \union {s}]
    BY <1>4 DEF LetGo, Unprobe
  <2>2. run'[p] = [run[p] EXCEPT !.seen = @ \union {s}] /\ s \notin run[p].seen
    BY <1>0, <2>1 DEF IInv, ProbersHold
  <2>3. /\ run'[p].op = run[p].op /\ run'[p].left = run[p].left /\ run'[p].todo = run[p].todo
        /\ run'[p].step = "survey" /\ run'[p].seen = run[p].seen \union {s}
    BY <1>0, <1>1, <2>2 DEF Invocation
  <2>4. Locked(p)
    BY <2>1 DEF Locked
  <2>5. Unseen(p)' = Unseen(p) - 1
    BY <2>2, <2>3, SeenFalls
  <2>6. Pause(p) = 2 * Unseen(p) + 1
        /\ (Pause(p)' = 2 * Unseen(p)' + 1 \/ Pause(p)' = 2 * Unseen(p)' + 2)
    BY <1>1, <2>3, <2>4 DEF Pause
  <2>7. Pause(p)' < Pause(p)
    BY <1>1, <2>5, <2>6
  <2> QED
    BY <2>3, <2>7, SurveyFalls
<1> QED
  BY <1>2, <1>3, <1>4

LEMMA TrimFalls ==
    ASSUME IInv, IInv', NEW p \in Process, Trim(p)
    PROVE  Remaining(p)' < Remaining(p)
<1>1. run[p].step = "survey" /\ run' = [run EXCEPT ![p].step = "write"]
  BY DEF Trim, Surveyed
<1>2. /\ run'[p].op = run[p].op /\ run'[p].left = run[p].left /\ run'[p].todo = run[p].todo
      /\ run'[p].step = "write"
  <2>1. run \in [Process -> Invocation] /\ run[p] \in Invocation
    BY Standing
  <2>2. run'[p] = [run[p] EXCEPT !.step = "write"]
    BY <1>1, <2>1
  <2> QED
    BY <2>1, <2>2 DEF Invocation
<1>3. Unseen(p) \in Nat
  BY Numerals
<1>4. Pause(p)' = 0 /\ (Pause(p) = 2 * Unseen(p) + 1 \/ Pause(p) = 2 * Unseen(p) + 2)
  BY <1>1, <1>2 DEF Pause
<1>5. Pause(p)' < Pause(p)
  BY <1>3, <1>4
<1> QED
  BY <1>2, <1>5, SurveyFalls

LEMMA GotoFalls ==
    ASSUME IInv, IInv', NEW p \in Process, NEW r \in Invocation, NEW o \in Ops,
           Set(p, Goto(r, o)), Chapter(o) < Chapter(run[p].op)
    PROVE  Remaining(p)' < Remaining(p)
<1>1. Goto(r, o) \in Invocation /\ Goto(r, o).op = o
  BY GotoRecord
<1> QED
  BY <1>1, Later, SetFalls

LEMMA GiveUpFalls ==
    ASSUME IInv, IInv', NEW p \in Process, Set(p, GiveUp(p)), run[p].op # "off",
           run[p].step # "idle" \/ run[p].op = "post"
    PROVE  Remaining(p)' < Remaining(p)
  BY GiveUpNearer, SetFalls

(* The file at work comes to its next turn.                                  *)
LEMMA TurnFalls ==
    ASSUME IInv, IInv', NEW p \in Process, NEW r \in Invocation, Set(p, r),
           run[p].op \in AtFile, r.op \in AtFile, r.todo = run[p].todo,
           Turn(r.op) < Turn(run[p].op)
    PROVE  Remaining(p)' < Remaining(p)
<1>1. r.op # "recover" /\ run[p].op # "recover"
  BY DEF AtFile
<1>2. Ahead(r) = Ahead(run[p])
  BY <1>1 DEF Ahead
<1>3. Chapter(r.op) = 3 /\ Chapter(run[p].op) = 3
  BY DEF Chapter, AtFile
<1>4. Nearer(r, run[p])
  BY <1>2, <1>3 DEF Nearer
<1> QED
  BY <1>4, SetFalls

LEMMA ClaimFalls ==
    ASSUME IInv, IInv', NEW p \in Process, Claim(p)
    PROVE  Remaining(p)' < Remaining(p)
<1>1. run[p].op = "claim" /\ run[p] \in Invocation /\ run[p].scope \in SUBSET File
  BY Standing, CacheAssumption DEF Claim, Writing
<1>2. {"recover", "freeze"} \subseteq Ops
  BY DEF Ops
<1>3. CASE Set(p, Goto([run[p] EXCEPT !.left = run[p].scope], "recover"))
  <2>1. [run[p] EXCEPT !.left = run[p].scope] \in Invocation
    BY <1>1 DEF Invocation
  <2> QED
    BY <1>1, <1>2, <1>3, <2>1, GotoFalls, Chapters
<1>4. CASE Set(p, Goto(run[p], "freeze"))
  BY <1>1, <1>2, <1>4, GotoFalls, Chapters
<1>5. CASE Set(p, Off)
  BY <1>1, <1>5, OffRecord, Later, Chapters, SetFalls
<1> QED
  BY <1>3, <1>4, <1>5 DEF Claim

LEMMA FreezeFalls ==
    ASSUME IInv, IInv', NEW p \in Process, Freeze(p)
    PROVE  Remaining(p)' < Remaining(p)
<1>1. /\ run[p].op = "freeze" /\ run[p] \in Invocation /\ run[p].scope \in SUBSET File
      /\ Set(p, Goto([run[p] EXCEPT !.left = run[p].scope], "recover"))
  BY Standing, CacheAssumption DEF Freeze, Writing
<1>2. [run[p] EXCEPT !.left = run[p].scope] \in Invocation /\ "recover" \in Ops
  BY <1>1 DEF Invocation, Ops
<1> QED
  BY <1>1, <1>2, GotoFalls, Chapters

LEMMA RecoverFalls ==
    ASSUME IInv, IInv', NEW p \in Process, Recover(p)
    PROVE  Remaining(p)' < Remaining(p)
<1> DEFINE f == At(p)
           r == [run[p] EXCEPT !.left = @ \ {f}]
           q == [r EXCEPT !.todo = @ \union {f}]
<1>1. run[p].op = "recover" /\ run[p].step = "write" /\ run[p] \in Invocation
  BY Standing DEF Recover, Writing
<1>2. f \in File
  BY <1>1, AtIsFile
<1>3. r \in Invocation /\ r.left = run[p].left \ {f}
  BY <1>1 DEF Invocation
<1>4. q \in Invocation /\ q.left = run[p].left \ {f}
  <2> HIDE DEF r, f
  <2> QED
    BY <1>2, <1>3 DEF Invocation
<1>5. Set(p, Decide(r)) \/ Set(p, Decide(q)) \/ Set(p, GiveUp(p))
  BY DEF Recover
<1> HIDE DEF r, q
<1>6. ASSUME NEW n \in Invocation, n.left = run[p].left \ {f}, Set(p, Decide(n))
      PROVE  Remaining(p)' < Remaining(p)
  <2>1. /\ Decide(n) \in Invocation
        /\ Decide(n).op \in {"recover", "prepare", "references", "drop"}
        /\ Decide(n).left = run[p].left \ {At(p)}
    BY <1>6, DecideRecord
  <2> QED
    BY <1>1, <1>6, <2>1, FileLooked, SetFalls
<1> QED
  BY <1>1, <1>3, <1>4, <1>5, <1>6, GiveUpFalls

LEMMA DownloadFalls ==
    ASSUME IInv, IInv', NEW p \in Process, Download(p)
    PROVE  Remaining(p)' < Remaining(p)
<1>1. run[p].op = "post" /\ run[p] \in Invocation
  BY Standing DEF Download
<1>2. CASE \E n \in 1..LargestBody, sound \in BOOLEAN :
             Set(p, Goto([run[p] EXCEPT !.body = n, !.sound = sound], "stage"))
  <2>1. PICK n \in 1..LargestBody, sound \in BOOLEAN :
               Set(p, Goto([run[p] EXCEPT !.body = n, !.sound = sound], "stage"))
    BY <1>2
  <2> DEFINE r == [run[p] EXCEPT !.body = n, !.sound = sound]
  <2>2. n \in 0..LargestBody
    BY CacheAssumption
  <2>3. r \in Invocation /\ r.todo = run[p].todo
    BY <1>1, <2>2 DEF Invocation
  <2> HIDE DEF r
  <2>4. "stage" \in Ops /\ "stage" \in AtFile /\ "post" \in AtFile
        /\ Turn("stage") < Turn("post")
    BY DEF Ops, AtFile, Turn
  <2>5. /\ Goto(r, "stage") \in Invocation /\ Goto(r, "stage").op = "stage"
        /\ Goto(r, "stage").todo = run[p].todo
    BY <2>3, <2>4, GotoRecord
  <2>6. Set(p, Goto(r, "stage"))
    BY <2>1 DEF r
  <2> QED
    BY <1>1, <2>4, <2>5, <2>6, TurnFalls
<1>3. CASE Set(p, GiveUp(p))
  BY <1>1, <1>3, GiveUpFalls
<1>4. CASE Set(p, Goto(run[p], "drop"))
  <2>1. "drop" \in Ops
    BY DEF Ops
  <2> QED
    BY <1>1, <1>4, <2>1, GotoFalls, Chapters
<1> QED
  BY <1>2, <1>3, <1>4 DEF Download

LEMMA StageFalls ==
    ASSUME IInv, IInv', NEW p \in Process, Stage(p)
    PROVE  Remaining(p)' < Remaining(p)
<1>1. run[p].op = "stage" /\ run[p].step = "write" /\ run[p] \in Invocation
  BY Standing DEF Stage, Writing
<1>2. CASE run[p].sound
  <2> DEFINE r == [run[p] EXCEPT !.op = "finish", !.step = "survey"]
  <2>1. r \in Invocation /\ r.op = "finish" /\ r.todo = run[p].todo
    BY <1>1 DEF Invocation, Ops, Steps
  <2>2. Set(p, r)
    BY <1>2 DEF Stage
  <2> HIDE DEF r
  <2>3. "stage" \in AtFile /\ "finish" \in AtFile /\ Turn("finish") < Turn("stage")
    BY DEF AtFile, Turn
  <2> QED
    BY <1>1, <2>1, <2>2, <2>3, TurnFalls
<1>3. CASE ~run[p].sound
  <2>1. Set(p, GiveUp(p))
    BY <1>3 DEF Stage
  <2> QED
    BY <1>1, <2>1, GiveUpFalls
<1> QED
  BY <1>2, <1>3

LEMMA FinishFalls ==
    ASSUME IInv, IInv', NEW p \in Process, Finish(p)
    PROVE  Remaining(p)' < Remaining(p)
<1> DEFINE r == [run[p] EXCEPT !.todo = @ \ {At(p)}, !.body = 0]
<1>1. run[p].op = "finish" /\ run[p] \in Invocation /\ Set(p, Proceed(r))
  BY Standing DEF Finish, Writing
<1>2. r \in Invocation /\ r.todo = run[p].todo \ {At(p)}
  <2>1. 0 \in 0..LargestBody
    BY CacheAssumption
  <2> QED
    BY <1>1, <2>1 DEF Invocation
<1> HIDE DEF r
<1>3. /\ Proceed(r) \in Invocation /\ Proceed(r).op \in {"reserve", "references", "drop"}
      /\ Proceed(r).todo = run[p].todo \ {At(p)}
  BY <1>2, ProceedRecord
<1>4. run[p].op \in AtFile
  BY <1>1 DEF AtFile
<1> QED
  BY <1>1, <1>3, <1>4, FileDone, SetFalls

(* Every step of an invocation brings it nearer to its end.                  *)
LEMMA ActFalls ==
    ASSUME IInv, IInv', NEW p \in Process, Acts(p)
    PROVE  Remaining(p)' < Remaining(p)
<1>0. run[p] \in Invocation /\ (run[p].op = "off" => run[p].step = "idle")
  BY Standing DEF Course, Away
<1>o. {"claim", "reserve", "post", "drop"} \subseteq Ops
  BY DEF Ops
<1>1. CASE Lock(p) \/ Trim(p) \/ \E s \in Season : Survey(p, s) \/ LetGo(p, s)
  BY <1>1, LockFalls, TrimFalls, LookFalls
<1>2. CASE TimeOut(p) \/ Refuse(p)
  <2>1. Set(p, GiveUp(p)) /\ run[p].step \in {"wait", "survey"}
    BY <1>2 DEF TimeOut, Refuse, Surveyed
  <2> QED
    BY <1>0, <2>1, GiveUpFalls
<1>3. CASE StageFails(p) \/ ConsumeFails(p)
  <2>1. Set(p, GiveUp(p)) /\ run[p].step = "write"
    BY <1>3 DEF StageFails, ConsumeFails, Writing
  <2> QED
    BY <1>0, <2>1, GiveUpFalls
<1>4. CASE Opened(p)
  <2>1. Set(p, Goto(run[p], "claim")) /\ run[p].op = "open"
    BY <1>4 DEF Opened, Writing
  <2> QED
    BY <1>0, <1>o, <2>1, GotoFalls, Chapters
<1>5. CASE Prepare(p)
  <2>1. Set(p, Goto(run[p], "reserve")) /\ run[p].op = "prepare"
    BY <1>5 DEF Prepare, Writing
  <2> QED
    BY <1>0, <1>o, <2>1, GotoFalls, Chapters
<1>6. CASE Reserve(p)
  <2>1. Set(p, Goto(run[p], "post")) /\ run[p].op = "reserve"
    BY <1>6 DEF Reserve, Writing
  <2>2. /\ Goto(run[p], "post") \in Invocation /\ Goto(run[p], "post").op = "post"
        /\ Goto(run[p], "post").todo = run[p].todo
    BY <1>0, <1>o, GotoRecord
  <2>3. "reserve" \in AtFile /\ "post" \in AtFile /\ Turn("post") < Turn("reserve")
    BY DEF AtFile, Turn
  <2> QED
    BY <2>1, <2>2, <2>3, TurnFalls
<1>7. CASE References(p)
  <2>1. Set(p, Goto(run[p], "drop")) /\ run[p].op = "references"
    BY <1>7 DEF References, Writing
  <2> QED
    BY <1>0, <1>o, <2>1, GotoFalls, Chapters
<1>8. CASE Drop(p) \/ Die(p)
  <2>1. Set(p, Off) /\ run[p].op # "off"
    BY <1>8, Standing DEF Drop, Die, Course
  <2>2. Chapter("off") < Chapter(run[p].op)
    BY <1>0, <2>1 DEF Chapter, Invocation, Ops, AtFile
  <2> QED
    BY <2>1, <2>2, OffRecord, Later, SetFalls
<1> QED
  BY <1>1, <1>2, <1>3, <1>4, <1>5, <1>6, <1>7, <1>8, ClaimFalls, FreezeFalls,
     RecoverFalls, DownloadFalls, StageFalls, FinishFalls, Zenon DEF Acts, Working

(* No step of another process takes it back.                                 *)
LEMMA OtherLocks ==
    ASSUME IInv, NEW q \in Process, Moves(q), NEW p \in Process \ {q}, NEW s \in Season
    PROVE  lock'[s] = p <=> lock[s] = p
<1>1. lock \in [Season -> Process \union {NoOne}] /\ p # NoOne /\ q # NoOne
  BY LocksAssumption DEF IInv, TypeOK, LocksTypeOK
<1>2. CASE lock' = lock
  BY <1>2
<1>3. ASSUME NEW t \in Season, lock[t] = NoOne, lock' = [lock EXCEPT ![t] = q]
      PROVE  lock'[s] = p <=> lock[s] = p
  BY <1>1, <1>3
<1>4. ASSUME NEW t \in Season, lock[t] = q, lock' = [lock EXCEPT ![t] = NoOne]
      PROVE  lock'[s] = p <=> lock[s] = p
  BY <1>1, <1>4
<1>5. CASE ReleaseSeasons(q)
  <2>1. lock'[s] = IF lock[s] = q THEN NoOne ELSE lock[s]
    BY <1>5 DEF ReleaseSeasons
  <2> QED
    BY <1>1, <2>1
<1>6. CASE Claim(q)
  <2>1. CASE Claimable(Home(q))
    <3>1. TakeSeason(q, Home(q)) /\ lock[Home(q)] = NoOne
      BY <1>6, <2>1 DEF Claim, Claimable
    <3>2. Home(q) \in Season
      BY <1>6, Standing, HomeTyped DEF Claim, Writing, Home
    <3> QED
      BY <1>3, <3>1, <3>2 DEF TakeSeason
  <2>2. CASE ~Claimable(Home(q))
    BY <1>2, <1>6, <2>2 DEF Claim
  <2> QED
    BY <2>1, <2>2
<1>7. ASSUME NEW t \in Season, Survey(q, t) \/ LetGo(q, t)
      PROVE  lock'[s] = p <=> lock[s] = p
  <2>1. \/ lock' = lock
        \/ lock[t] = NoOne /\ lock' = [lock EXCEPT ![t] = q]
        \/ lock[t] = q /\ lock' = [lock EXCEPT ![t] = NoOne]
    BY <1>7 DEF Survey, LetGo, Probe, Unprobe, Probing, Claimable
  <2> QED
    BY <1>2, <1>3, <1>4, <2>1
<1>8. CASE \/ \E c \in Scope : Begin(q, c)
           \/ Lock(q) \/ TimeOut(q) \/ Trim(q) \/ Refuse(q)
           \/ Opened(q) \/ Freeze(q) \/ Recover(q) \/ Prepare(q)
           \/ Reserve(q) \/ Download(q) \/ Stage(q) \/ Finish(q) \/ References(q)
           \/ StageFails(q) \/ ConsumeFails(q)
  <2>1. lock' = lock
    BY <1>8 DEF Begin, Lock, TimeOut, Trim, Refuse, Opened, Freeze, Recover, Prepare,
                Reserve, Download, Stage, Finish, References, StageFails, ConsumeFails,
                lockVars
  <2> QED
    BY <1>2, <2>1
<1>9. CASE Drop(q) \/ Die(q)
  BY <1>5, <1>9 DEF Drop, Die
<1> QED
  BY <1>6, <1>7, <1>8, <1>9, Zenon DEF Moves, Working

LEMMA OthersLeave ==
    ASSUME IInv, NEW q \in Process, Moves(q), NEW p \in Process \ {q}
    PROVE  Remaining(p)' = Remaining(p) /\ run'[p] = run[p]
<1>1. run'[p] = run[p] /\ own'[p] = own[p]
  BY WritersHold DEF Alone
<1>2. Locked(p)' <=> Locked(p)
  BY <1>1, OtherLocks DEF Locked, Probing
<1>3. Pause(p)' = Pause(p)
  BY <1>1, <1>2 DEF Pause, Unseen
<1> QED
  BY <1>1, <1>3 DEF Remaining, Numeral, Chapter, Ahead, Turn, Most, Span

(* However the processes interleave, whatever they evict, time out on or     *)
(* fail to write, an invocation that runs comes nearer to its end with every *)
(* step of its own, and no step of another takes it back: it cannot be made  *)
(* to repeat its work, and takes no more steps than a bound fixed by the     *)
(* numbers of files and seasons.                                             *)
THEOREM InvocationsAdvance ==
    Spec => /\ [](\A p \in Process : Remaining(p) \in 0..Longest)
            /\ [][\A p \in Process : run[p] # Off =>
                     /\ Acts(p) => Remaining(p)' < Remaining(p)
                     /\ Remaining(p)' <= Remaining(p)]_vars
<1>1. IInv => \A p \in Process : Remaining(p) \in 0..Longest
  BY RemainingTyped
<1>2. ASSUME IInv, IInv', [Next]_vars, ~UNCHANGED vars, NEW p \in Process, run[p] # Off
      PROVE  /\ Acts(p) => Remaining(p)' < Remaining(p)
             /\ Remaining(p)' <= Remaining(p)
  <2>0. Acts(p) => Remaining(p)' < Remaining(p)
    BY <1>2, ActFalls
  <2>1. Remaining(p) \in Nat
    <3>1. Remaining(p) \in 0..Longest
      BY <1>2, RemainingType
    <3> QED
      BY <3>1
  <2>2. Remaining(p)' \in Int
    <3>1. (Remaining(p) \in 0..Longest)'
      BY <1>2, RemainingThen
    <3> QED
      BY <3>1
  <2>3. PICK q \in Process : Moves(q)
    BY <1>2, Zenon DEF Next, Moves
  <2>4. CASE q # p
    <3>1. Remaining(p)' = Remaining(p)
      BY <1>2, <2>3, <2>4, OthersLeave
    <3> QED
      BY <2>0, <2>1, <3>1
  <2>5. CASE q = p
    <3>1. ~ \E c \in Scope : Begin(p, c)
      BY <1>2 DEF Begin
    <3>2. Acts(p)
      BY <2>3, <2>5, <3>1 DEF Moves, Acts
    <3> QED
      BY <2>0, <2>1, <2>2, <3>2
  <2> QED
    BY <2>4, <2>5
<1>3. IInv /\ IInv' /\ [Next]_vars =>
        [\A p \in Process : run[p] # Off =>
            /\ Acts(p) => Remaining(p)' < Remaining(p)
            /\ Remaining(p)' <= Remaining(p)]_vars
  BY <1>2
<1> QED
  BY <1>1, <1>3, AlwaysIInv, PTL DEF Spec
=============================================================================
