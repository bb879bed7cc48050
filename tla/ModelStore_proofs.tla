-------------------------- MODULE ModelStore_proofs --------------------------
(***************************************************************************)
(* Proofs about ModelStore, for any clients, sessions and threads, any     *)
(* faults, and any number of uploads and of renderers kept.                *)
(***************************************************************************)
EXTENDS ModelStore, FiniteSetTheorems, TLAPS

Uploading(h)    == job[h].op = "upload"
Rendering(h)    == job[h].op = "render"
CleaningUp(h)   == job[h].op = "cleanup"
HasRow(n)       == \E s \in Sessions : <<s, n>> \in rows
HasTab(n)       == \E c \in Clients : n \in tabs[c]
There(n)        == disk[Upload(n)] # NoFile
Published(n)    == disk[<<"models", n>>] # NoFile

-----------------------------------------------------------------------------
(* What a request may have in hand at each of its steps *)

UploadJob(j) ==
    /\ j.op = "upload" /\ j.at \in {"save", "register", "relist", "publish", "tab"}
    /\ j.client \in Clients /\ j.name \in Names /\ j.pic \in Uploads
    /\ j.dir = IF j.client \in Ingesters THEN "models" ELSE "uploads"
    /\ j.at = "tab" => j.client \notin Ingesters
    /\ j.todo = {} /\ j.gone = {}
RenderJob(j) ==
    /\ j.op = "render" /\ j.at \in {"recheck", "build", "store"}
    /\ j.client \in Clients /\ j.name \in Names
    /\ j.todo = {} /\ j.gone = {}
DeleteJob(j) ==
    /\ j.op = "delete" /\ j.at \in {"unlink", "forget", "untab", "drop", "clear"}
    /\ j.name = None
    /\ j.at = "unlink" => j.gone = {}
    /\ j.at # "unlink" => j.todo = {}
    /\ \A m, n \in j.todo : m = n
CleanupJob(j) ==
    /\ j.op = "cleanup" /\ j.at \in {"unlink", "forget", "drop", "clear"}
    /\ j.name = None
    /\ j.at # "unlink" => j.todo = {}
    /\ j.todo \cap j.gone = {}

JobOK(j) == j = Idle \/ UploadJob(j) \/ RenderJob(j) \/ DeleteJob(j) \/ CleanupJob(j)

\* Uploads and names are numbered by the uploads made so far, and an upload is
\* one request's, which has not written its bytes before it has saved them.
Numbered ==
    /\ \A p \in Paths : disk[p] <= Len(by) /\ (disk[p] # NoFile => p[2] <= Len(by))
    /\ \A r \in rows : r[2] <= Len(by) /\ by # <<>>
    /\ saved \subseteq 1..Len(by)
    /\ \A h \in Handlers : Uploading(h) =>
          /\ job[h].pic <= Len(by) /\ job[h].name <= Len(by)
          /\ by[job[h].pic] = job[h].client
          /\ job[h].at = "save" => job[h].pic \notin saved
          /\ \A g \in Handlers : Uploading(g) /\ job[g].pic = job[h].pic => g = h
          /\ \A p \in Paths : disk[p] = job[h].pic => p = <<job[h].dir, job[h].name>>

TypeInv ==
    /\ TypeOK
    /\ \A h \in Handlers : JobOK(job[h])
    /\ Numbered

-----------------------------------------------------------------------------
(* What holds of a name no two requests crossed on *)

\* There is one file of the name, and an upload under way has it.
OneFile(n) == ~(There(n) /\ Published(n))
Held(n)    == \A h \in Handlers : Uploading(h) /\ job[h].name = n =>
                 disk[<<job[h].dir, n>>] = job[h].pic

\* One tab at most has it, when its upload is over; closing the tab took it away.
OneTab(n) ==
    /\ \A c, d \in Clients : n \in tabs[c] /\ n \in tabs[d] => c = d
    /\ \A h \in Handlers : Uploading(h) /\ job[h].name = n =>
          /\ ~HasTab(n)
          /\ \A g \in Handlers : CleaningUp(g) => n \notin job[g].todo
    /\ \A g \in Handlers : CleaningUp(g) /\ n \in job[g].todo => ~HasTab(n)

\* A removal that has taken the file away is alone, and leaves nothing behind.
Removed(n) ==
    \A g \in Handlers : n \in job[g].gone =>
        /\ ~There(n)
        /\ \A h \in Handlers \ {g} : ~About(h, n)
        /\ job[g].at \in {"untab", "drop", "clear"} => ~HasRow(n)
        /\ CleaningUp(g) \/ job[g].at \in {"drop", "clear"} => ~HasTab(n)
        /\ job[g].at = "clear" => renderer[Upload(n)] = NoFile

\* A name that is free is clean.
Clean(n) ==
    ~There(n) /\ ~Published(n) /\ ~HasRow(n) /\ ~Removing(n) =>
        /\ \A h \in Handlers : ~About(h, n)
        /\ ~HasTab(n)
        /\ cached[n] = NoFile /\ renderer[Upload(n)] = NoFile

\* A file that is there is its sender's, what is kept of it is of it, and a
\* request that renders it finds it.
SenderOnly(n) ==
    There(n) =>
        /\ \A s \in Sessions : <<s, n>> \in rows => Cookie[by[disk[Upload(n)]]] = s
        /\ \A c \in Clients : n \in tabs[c] => by[disk[Upload(n)]] = c
Kept1(n) ==
    There(n) =>
        /\ cached[n] \in {NoFile, disk[Upload(n)]}
        /\ renderer[Upload(n)] \in {NoFile, disk[Upload(n)]}
        /\ \A h \in Handlers : Rendering(h) /\ job[h].name = n =>
              /\ Upload(n) \in listed
              /\ job[h].at = "store" => job[h].pic = disk[Upload(n)]
HasOwner(n) ==
    There(n) /\ disk[Upload(n)] \in saved =>
        \/ HasRow(n) \/ HasTab(n)
        \/ \E h \in Handlers : Uploading(h) /\ job[h].name = n
        \/ \E g \in Handlers : CleaningUp(g) /\ n \in job[g].todo

NameInv(n) ==
    /\ OneFile(n) /\ Held(n) /\ OneTab(n) /\ Removed(n) /\ Clean(n)
    /\ SenderOnly(n) /\ Kept1(n) /\ HasOwner(n)

\* A file of the directory everybody sees stays.
ListedInv == \A n \in Names : <<"models", n>> \in listed => Published(n)

StoreInv == ListedInv /\ \A n \in Names \ marred : NameInv(n)

-----------------------------------------------------------------------------
(* The data *)

LEMMA NumbersType ==
    /\ MaxUploads \in Nat \ {0} /\ Default \in Nat /\ NoFile = 0
    /\ NoFile \in 0..Default /\ Default \in 0..Default
    /\ Uploads \subseteq 0..Default /\ Uploads \subseteq Nat \ {0}
    /\ Names \subseteq Nat /\ 0 \in Names /\ None \notin Names
BY StoreAssumption DEF Default, NoFile, Uploads, Names

LEMMA PathsType ==
    /\ \A d \in Dirs, n \in Names : <<d, n>> \in Paths
    /\ \A n \in Names : Upload(n) \in Paths /\ <<"models", n>> \in Paths
    /\ \A p \in Paths : p[1] \in Dirs /\ p[2] \in Names /\ p = <<p[1], p[2]>>
    /\ \A p \in Paths : p = Upload(p[2]) \/ p = <<"models", p[2]>>
    /\ \A m, n \in Names : Upload(m) # <<"models", n>> /\ (Upload(m) = Upload(n) => m = n)
BY DEF Paths, Upload, Dirs

LEMMA IdleType == Idle \in Jobs /\ JobOK(Idle)
<1>1. NoFile \in 0..Default
  BY NumbersType
<1> QED BY <1>1 DEF Idle, Jobs, JobOK, Dirs

\* The request of h goes on to j, and no other does anything.
LEMMA JobStep ==
    ASSUME TypeInv, NEW h \in Handlers, NEW j \in Jobs, JobOK(j), job' = [job EXCEPT ![h] = j]
    PROVE  /\ job' \in [Handlers -> Jobs] /\ \A g \in Handlers : JobOK(job'[g])
           /\ job'[h] = j /\ \A g \in Handlers \ {h} : job'[g] = job[g]
BY DEF TypeInv, TypeOK

\* A request goes on to its next step, keeping what it has in hand.
LEMMA NextStep ==
    ASSUME TypeInv, NEW h \in Handlers, NEW at, Go(h, at),
           \/ job[h].op = "upload" /\ at \in {"save", "register", "relist", "publish"}
           \/ job[h].op = "upload" /\ at = "tab" /\ job[h].client \notin Ingesters
           \/ job[h].op = "render" /\ at \in {"recheck", "build", "store"}
           \/ job[h].op = "delete" /\ job[h].at # "unlink" /\ at \in {"forget", "untab", "drop", "clear"}
           \/ job[h].op = "cleanup" /\ job[h].at # "unlink" /\ at \in {"forget", "drop", "clear"}
    PROVE  /\ job' \in [Handlers -> Jobs] /\ \A g \in Handlers : JobOK(job'[g])
           /\ \A g \in Handlers \ {h} : job'[g] = job[g]
           /\ job'[h].at = at /\ job'[h].op = job[h].op /\ job'[h].client = job[h].client
           /\ job'[h].name = job[h].name /\ job'[h].dir = job[h].dir /\ job'[h].pic = job[h].pic
           /\ job'[h].todo = job[h].todo /\ job'[h].gone = job[h].gone
<1> DEFINE j == [job[h] EXCEPT !.at = at]
<1>1. job[h] \in Jobs /\ JobOK(job[h])
  BY DEF TypeInv, TypeOK
<1>2. j \in Jobs
  <2>1. at \in {"idle", "save", "register", "relist", "publish", "tab",
               "unlink", "forget", "untab", "drop", "clear", "recheck", "build", "store"}
    OBVIOUS
  <2> QED BY <1>1, <2>1 DEF Jobs
<1>3. /\ j.at = at /\ j.op = job[h].op /\ j.client = job[h].client
      /\ j.name = job[h].name /\ j.dir = job[h].dir /\ j.pic = job[h].pic
      /\ j.todo = job[h].todo /\ j.gone = job[h].gone
  BY <1>1 DEF Jobs
<1>4. job' = [job EXCEPT ![h] = j]
  BY DEF Go
<1> HIDE DEF j
<1>5. JobOK(j)
  <2>1. job[h].op # "none" => job[h] # Idle
    BY DEF Idle
  <2> QED BY <1>1, <1>3, <2>1 DEF JobOK, UploadJob, RenderJob, DeleteJob, CleanupJob
<1> QED BY <1>2, <1>3, <1>4, <1>5, JobStep

LEMMA DoneStep ==
    ASSUME TypeInv, NEW h \in Handlers, Done(h)
    PROVE  /\ job' \in [Handlers -> Jobs] /\ \A g \in Handlers : JobOK(job'[g])
           /\ job'[h] = Idle /\ \A g \in Handlers \ {h} : job'[g] = job[g]
BY IdleType, JobStep DEF Done

\* What the step a request is at says of it.
LEMMA AtStep ==
    ASSUME TypeInv, NEW h \in Handlers
    PROVE  /\ job[h].at \in {"save", "register", "relist", "publish", "tab"} => UploadJob(job[h])
           /\ job[h].at \in {"recheck", "build", "store"} => RenderJob(job[h])
           /\ job[h].at = "untab" => DeleteJob(job[h])
           /\ job[h].at \in {"unlink", "forget", "drop", "clear"} => DeleteJob(job[h]) \/ CleanupJob(job[h])
           /\ job[h].op = "upload" => UploadJob(job[h])
           /\ job[h].op = "render" => RenderJob(job[h])
           /\ job[h].op = "delete" => DeleteJob(job[h])
           /\ job[h].op = "cleanup" => CleanupJob(job[h])
<1>1. JobOK(job[h])
  BY DEF TypeInv
<1>2. Idle.op = "none" /\ Idle.at = "idle"
  BY DEF Idle
<1> QED BY <1>1, <1>2 DEF JobOK, UploadJob, RenderJob, DeleteJob, CleanupJob

\* An idle request has nothing in hand.
LEMMA IdleHasNothing ==
    /\ Idle.op = "none" /\ Idle.at = "idle" /\ Idle.name = None
    /\ Idle.todo = {} /\ Idle.gone = {}
BY DEF Idle

\* The name an upload is given is free, and among the numbered ones.
LEMMA NameIsFree ==
    ASSUME TypeInv, Len(by) + 1 <= MaxUploads
    PROVE  LET n == NameFor(Len(by) + 1)
           IN  /\ n \in Names /\ n <= Len(by) + 1
               /\ ~There(n) /\ ~Published(n) /\ ~HasRow(n)
<1> DEFINE i == Len(by) + 1
           n == NameFor(i)
<1>1. Len(by) \in Nat
  BY DEF TypeInv, TypeOK
<1>2. CASE ~Taken(0)
  <2>1. n = 0
    BY <1>2 DEF NameFor
  <2>2. "uploads" \in Dirs /\ "models" \in Dirs
    BY DEF Dirs
  <2>3. disk[<<"uploads", 0>>] = NoFile /\ disk[<<"models", 0>>] = NoFile /\ ~HasRow(0)
    BY <1>2, <2>2 DEF Taken, HasRow
  <2> QED BY <1>1, <2>1, <2>3, NumbersType DEF There, Published, Upload
<1>3. CASE Taken(0)
  <2>1. n = i
    BY <1>3 DEF NameFor
  <2>2. by # <<>>
    <3>1. CASE \E d \in Dirs : disk[<<d, 0>>] # NoFile
      <4>1. PICK d \in Dirs : disk[<<d, 0>>] # NoFile
        BY <3>1
      <4>2. <<d, 0>> \in Paths
        BY PathsType, NumbersType
      <4>3. disk[<<d, 0>>] <= Len(by) /\ disk[<<d, 0>>] \in Nat
        BY <4>2, NumbersType DEF TypeInv, TypeOK, Numbered
      <4> QED BY <1>1, <4>1, <4>3, NumbersType
    <3>2. CASE \E s \in Sessions : <<s, 0>> \in rows
      BY <3>2 DEF TypeInv, Numbered
    <3> QED BY <1>3, <3>1, <3>2 DEF Taken
  <2>3. i >= 2 /\ i \in Nat
    <3>1. Len(by) # 0
      BY <2>2 DEF TypeInv, TypeOK
    <3> QED BY <1>1, <3>1
  <2>4. i \in Names
    BY <2>3, StoreAssumption DEF Names
  <2>5. \A p \in Paths : disk[p] # NoFile => p[2] # i
    <3>1. \A p \in Paths : disk[p] # NoFile => p[2] <= Len(by) /\ p[2] \in Nat
      BY PathsType, NumbersType DEF TypeInv, Numbered
    <3> QED BY <1>1, <3>1
  <2>6. \A r \in rows : r[2] # i
    <3>1. \A r \in rows : r[2] <= Len(by) /\ r[2] \in Nat
      BY NumbersType DEF TypeInv, TypeOK, Numbered
    <3> QED BY <1>1, <3>1
  <2>7. ~There(i)
    <3>1. Upload(i) \in Paths /\ Upload(i)[2] = i
      BY <2>4, PathsType DEF Upload
    <3> QED BY <2>5, <3>1 DEF There
  <2>8. ~Published(i)
    <3>1. <<"models", i>> \in Paths /\ <<"models", i>>[2] = i
      BY <2>4, PathsType
    <3> QED BY <2>5, <3>1 DEF Published
  <2>9. ~HasRow(i)
    BY <2>6 DEF HasRow
  <2> QED BY <1>1, <2>1, <2>3, <2>4, <2>7, <2>8, <2>9
<1> QED BY <1>2, <1>3

\* A renderer that is kept after a step is the one there was, or made from the file that is there.
LEMMA KeptOrMade ==
    ASSUME TypeInv, NEW p \in Paths, renderer' = renderer \/ Made(p)
    PROVE  /\ renderer' \in [Paths -> {NoFile} \cup Uploads]
           /\ \A q \in Paths : renderer'[q] \in {NoFile, renderer[q], disk[q]}
           /\ \A q \in Paths \ {p} : renderer'[q] \in {NoFile, renderer[q]}
<1>1. CASE renderer' = renderer
  BY <1>1 DEF TypeInv, TypeOK
<1>2. CASE Made(p)
  <2>1. PICK stay : renderer' = [q \in Paths |-> IF q = p THEN disk[p] ELSE IF q \in stay THEN renderer[q] ELSE NoFile]
    BY <1>2 DEF Made, Kept
  <2>2. disk[p] \in {NoFile} \cup Uploads /\ renderer \in [Paths -> {NoFile} \cup Uploads]
    BY DEF TypeInv, TypeOK
  <2> QED BY <2>1, <2>2
<1> QED BY <1>1, <1>2

-----------------------------------------------------------------------------
(* Every step keeps the types and the numbering *)

\* Nothing is numbered anew by a step that adds no file, no row and no upload.
LEMMA NumberedKept ==
    ASSUME TypeInv, by' = by, saved' = saved, rows' \subseteq rows,
           \A p \in Paths : disk'[p] \in {disk[p], NoFile},
           \A h \in Handlers : job'[h].op = "upload" =>
               /\ job[h].op = "upload" /\ job'[h].pic = job[h].pic /\ job'[h].name = job[h].name
               /\ job'[h].client = job[h].client /\ job'[h].dir = job[h].dir
               /\ job'[h].at = "save" => job[h].at = "save"
    PROVE  Numbered'
<1>1. Len(by) \in Nat /\ NoFile = 0
  BY NumbersType DEF TypeInv, TypeOK
<1>2. \A p \in Paths : disk'[p] <= Len(by') /\ (disk'[p] # NoFile => p[2] <= Len(by'))
  <2>1. \A p \in Paths : disk[p] <= Len(by) /\ (disk[p] # NoFile => p[2] <= Len(by))
    BY DEF TypeInv, Numbered
  <2> QED BY <1>1, <2>1
<1>3. (\A r \in rows' : r[2] <= Len(by') /\ by' # <<>>) /\ saved' \subseteq 1..Len(by')
  BY DEF TypeInv, Numbered
<1>4. ASSUME NEW h \in Handlers, Uploading(h)'
      PROVE  /\ job'[h].pic <= Len(by') /\ job'[h].name <= Len(by')
             /\ by'[job'[h].pic] = job'[h].client
             /\ job'[h].at = "save" => job'[h].pic \notin saved'
             /\ \A g \in Handlers : job'[g].op = "upload" /\ job'[g].pic = job'[h].pic => g = h
             /\ \A p \in Paths : disk'[p] = job'[h].pic => p = <<job'[h].dir, job'[h].name>>
  <2>1. job'[h].op = "upload"
    BY <1>4 DEF Uploading
  <2>2. job[h].op = "upload"
    BY <2>1
  <2>3. job[h].pic \in Uploads
    BY <2>2, AtStep DEF UploadJob
  <2>4. job[h].pic # NoFile
    BY <2>3, NumbersType
  <2>5. /\ job[h].pic <= Len(by) /\ job[h].name <= Len(by)
        /\ by[job[h].pic] = job[h].client
        /\ job[h].at = "save" => job[h].pic \notin saved
        /\ \A g \in Handlers : job[g].op = "upload" /\ job[g].pic = job[h].pic => g = h
        /\ \A p \in Paths : disk[p] = job[h].pic => p = <<job[h].dir, job[h].name>>
    BY <2>2 DEF TypeInv, Numbered, Uploading
  <2>6. \A g \in Handlers : job'[g].op = "upload" /\ job'[g].pic = job'[h].pic => g = h
    BY <2>1, <2>5
  <2>7. \A p \in Paths : disk'[p] = job'[h].pic => p = <<job'[h].dir, job'[h].name>>
    BY <2>1, <2>4, <2>5
  <2> QED BY <2>1, <2>5, <2>6, <2>7
<1> QED BY <1>2, <1>3, <1>4 DEF Numbered, Uploading

LEMMA ClaimTypes ==
    ASSUME TypeInv, NEW h \in Handlers, NEW c \in Clients, Claim(h, c)
    PROVE  TypeInv'
<1> DEFINE i == Len(by) + 1
           n == NameFor(i)
           d == IF c \in Ingesters THEN "models" ELSE "uploads"
           j == [Idle EXCEPT !.op = "upload", !.at = "save", !.client = c,
                             !.name = n, !.dir = d, !.pic = i]
<1>1. /\ i <= MaxUploads /\ by' = Append(by, c) /\ disk' = [disk EXCEPT ![<<d, n>>] = i]
      /\ job' = [job EXCEPT ![h] = j] /\ marred' = marred \cup {m \in {n} : Removing(m)}
      /\ saved' = saved /\ rows' = rows /\ tabs' = tabs /\ listed' = listed
      /\ renderer' = renderer /\ cached' = cached /\ warm' = warm
  BY DEF Claim, Mark
<1>2. by \in Seq(Clients) /\ Len(by) \in Nat
  BY DEF TypeInv, TypeOK
<1>3. /\ by' \in Seq(Clients) /\ Len(by') = Len(by) + 1 /\ by'[i] = c
      /\ \A k \in 1..Len(by) : by'[k] = by[k]
  BY <1>1, <1>2
<1>4. n \in Names /\ n <= i /\ d \in Dirs
  BY <1>1, NameIsFree DEF Dirs
<1>5. i \in Uploads /\ i \in Nat
  BY <1>1, <1>2, StoreAssumption DEF Uploads
<1>6. /\ j.op = "upload" /\ j.at = "save" /\ j.client = c /\ j.name = n /\ j.dir = d /\ j.pic = i
      /\ j.todo = {} /\ j.gone = {}
  BY DEF Idle
<1>7. j \in Jobs /\ JobOK(j)
  <2>1. i \in 0..Default
    BY <1>5, NumbersType
  <2>2. j \in Jobs
    <3> HIDE DEF i, n, d
    <3> QED BY <1>4, <2>1 DEF Jobs, Idle
  <2>3. UploadJob(j)
    <3>1. j.dir = IF j.client \in Ingesters THEN "models" ELSE "uploads"
      BY <1>6
    <3> HIDE DEF i, n, d, j
    <3> QED BY <1>4, <1>5, <1>6, <3>1 DEF UploadJob
  <2> QED BY <2>2, <2>3 DEF JobOK
<1>8. <<d, n>> \in Paths
  BY <1>4, PathsType
<1> HIDE DEF i, n, d, j
<1>9. /\ job' \in [Handlers -> Jobs] /\ \A g \in Handlers : JobOK(job'[g])
      /\ job'[h] = j /\ \A g \in Handlers \ {h} : job'[g] = job[g]
  BY <1>1, <1>7, JobStep
<1>10. TypeOK'
  <2>1. disk' \in [Paths -> {NoFile} \cup Uploads]
    BY <1>1, <1>5, <1>8 DEF TypeInv, TypeOK
  <2>2. marred' \subseteq Names
    BY <1>1, <1>4 DEF TypeInv, TypeOK
  <2>3. Len(by') <= MaxUploads
    BY <1>1, <1>3 DEF i
  <2> QED BY <1>1, <1>3, <1>9, <2>1, <2>2, <2>3 DEF TypeInv, TypeOK
<1>11. i = Len(by) + 1
  BY DEF i
<1>12. \A p \in Paths : disk'[p] = IF p = <<d, n>> THEN i ELSE disk[p]
  BY <1>1 DEF TypeInv, TypeOK
<1>13. \A p \in Paths : disk[p] \in Nat /\ disk[p] <= Len(by) /\ (disk[p] # NoFile => p[2] <= Len(by))
  BY NumbersType DEF TypeInv, TypeOK, Numbered
<1>14. \A p \in Paths : p[2] \in Nat
  BY PathsType, NumbersType
<1>15. \A p \in Paths : disk'[p] <= Len(by') /\ (disk'[p] # NoFile => p[2] <= Len(by'))
  <2> SUFFICES ASSUME NEW p \in Paths
               PROVE  disk'[p] <= Len(by') /\ (disk'[p] # NoFile => p[2] <= Len(by'))
    OBVIOUS
  <2>1. CASE p = <<d, n>>
    <3>1. p[2] = n /\ disk'[p] = i
      BY <1>12, <2>1
    <3> QED BY <1>2, <1>3, <1>4, <1>11, <3>1
  <2>2. CASE p # <<d, n>>
    BY <1>2, <1>3, <1>12, <1>13, <1>14, <2>2
  <2> QED BY <2>1, <2>2
<1>16. \A r \in rows' : r[2] <= Len(by') /\ by' # <<>>
  <2>1. \A r \in rows : r[2] <= Len(by) /\ r[2] \in Nat
    BY NumbersType DEF TypeInv, TypeOK, Numbered
  <2>2. by' # <<>>
    BY <1>2, <1>3
  <2> QED BY <1>1, <1>2, <1>3, <2>1, <2>2
<1>17. ASSUME NEW g \in Handlers \ {h}, job[g].op = "upload"
       PROVE  /\ job[g].pic \in 1..Len(by) /\ job[g].name \in Nat /\ job[g].name <= Len(by)
              /\ by[job[g].pic] = job[g].client
              /\ job[g].at = "save" => job[g].pic \notin saved
              /\ \A k \in Handlers : job[k].op = "upload" /\ job[k].pic = job[g].pic => k = g
              /\ \A p \in Paths : disk[p] = job[g].pic => p = <<job[g].dir, job[g].name>>
  <2>1. job[g].pic \in Uploads /\ job[g].name \in Names
    BY <1>17, AtStep DEF UploadJob
  <2>2. job[g].pic \in Nat \ {0} /\ job[g].name \in Nat
    BY <2>1, NumbersType
  <2>3. /\ job[g].pic <= Len(by) /\ job[g].name <= Len(by)
        /\ by[job[g].pic] = job[g].client
        /\ job[g].at = "save" => job[g].pic \notin saved
        /\ \A k \in Handlers : job[k].op = "upload" /\ job[k].pic = job[g].pic => k = g
        /\ \A p \in Paths : disk[p] = job[g].pic => p = <<job[g].dir, job[g].name>>
    BY <1>17 DEF TypeInv, Numbered, Uploading
  <2> QED BY <1>2, <2>2, <2>3
<1>18. saved \subseteq 1..Len(by)
  BY DEF TypeInv, Numbered
<1>19. saved' \subseteq 1..Len(by') /\ i \notin saved
  BY <1>1, <1>2, <1>3, <1>11, <1>18
<1>20. ASSUME NEW g \in Handlers, job'[g].op = "upload"
       PROVE  /\ job'[g].pic <= Len(by') /\ job'[g].name <= Len(by')
              /\ by'[job'[g].pic] = job'[g].client
              /\ job'[g].at = "save" => job'[g].pic \notin saved'
              /\ \A k \in Handlers : job'[k].op = "upload" /\ job'[k].pic = job'[g].pic => k = g
              /\ \A p \in Paths : disk'[p] = job'[g].pic => p = <<job'[g].dir, job'[g].name>>
  <2>1. CASE g = h
    <3>1. \A k \in Handlers : job'[k].op = "upload" /\ job'[k].pic = i => k = h
      BY <1>2, <1>9, <1>11, <1>17
    <3>2. \A p \in Paths : disk'[p] = i => p = <<d, n>>
      BY <1>2, <1>11, <1>12, <1>13
    <3>3. n <= Len(by') /\ i <= Len(by')
      BY <1>2, <1>3, <1>4, <1>11
    <3> QED BY <1>1, <1>3, <1>6, <1>9, <1>19, <2>1, <3>1, <3>2, <3>3
  <2>2. CASE g # h
    <3>1. g \in Handlers \ {h} /\ job'[g] = job[g]
      BY <1>9, <2>2
    <3>2. job[g].op = "upload"
      BY <1>20, <3>1
    <3>3. /\ job[g].pic \in 1..Len(by) /\ job[g].name \in Nat /\ job[g].name <= Len(by)
          /\ by[job[g].pic] = job[g].client
          /\ job[g].at = "save" => job[g].pic \notin saved
          /\ \A k \in Handlers : job[k].op = "upload" /\ job[k].pic = job[g].pic => k = g
          /\ \A p \in Paths : disk[p] = job[g].pic => p = <<job[g].dir, job[g].name>>
      BY <1>17, <3>1, <3>2
    <3>4. job[g].pic # i /\ job[g].pic <= Len(by') /\ job[g].name <= Len(by')
      BY <1>2, <1>3, <1>11, <3>3
    <3>5. \A k \in Handlers : job'[k].op = "upload" /\ job'[k].pic = job[g].pic => k = g
      BY <1>6, <1>9, <3>3, <3>4
    <3>6. \A p \in Paths : disk'[p] = job[g].pic => p = <<job[g].dir, job[g].name>>
      BY <1>12, <3>3, <3>4
    <3> QED BY <1>1, <1>3, <3>1, <3>3, <3>4, <3>5, <3>6
  <2> QED BY <2>1, <2>2
<1>21. Numbered'
  BY <1>15, <1>16, <1>19, <1>20 DEF Numbered, Uploading
<1> QED BY <1>9, <1>10, <1>21 DEF TypeInv

\* A step of a request that writes nothing to the disk, nor a row: the rest is types.
LEMMA QuietTypes ==
    ASSUME TypeInv, UNCHANGED store, NEW h \in Handlers,
           job' \in [Handlers -> Jobs], \A g \in Handlers : JobOK(job'[g]),
           \A g \in Handlers \ {h} : job'[g] = job[g],
           job'[h].op = "upload" =>
               /\ job[h].op = "upload" /\ job'[h].pic = job[h].pic /\ job'[h].name = job[h].name
               /\ job'[h].client = job[h].client /\ job'[h].dir = job[h].dir
               /\ job'[h].at = "save" => job[h].at = "save",
           listed' \subseteq Paths, renderer' \in [Paths -> {NoFile} \cup Uploads],
           cached' \in [Names -> 0..Default], warm' \subseteq Paths, marred' \subseteq Names
    PROVE  TypeInv'
<1>1. /\ by' = by /\ disk' = disk /\ saved' = saved /\ rows' = rows /\ tabs' = tabs
  BY DEF store
<1>2. Numbered'
  BY <1>1, NumberedKept
<1>3. TypeOK'
  BY <1>1 DEF TypeInv, TypeOK
<1> QED BY <1>2, <1>3 DEF TypeInv

\* What the requests have in hand after a step of h that starts one, or goes on
\* with a removal or a rendering.
LEMMA FindOwnedJob ==
    ASSUME TypeInv, NEW h \in Handlers, NEW c \in Clients, NEW n \in Names, FindOwned(h, c, n)
    PROVE  /\ job' \in [Handlers -> Jobs] /\ \A g \in Handlers : JobOK(job'[g])
           /\ \A g \in Handlers \ {h} : job'[g] = job[g]
           /\ job'[h].op = "delete" /\ job'[h].at = "unlink" /\ job'[h].name = None
           /\ job'[h].todo = {n} /\ job'[h].gone = {}
<1> DEFINE j == [Idle EXCEPT !.op = "delete", !.at = "unlink", !.todo = {n}]
<1>1. /\ j.op = "delete" /\ j.at = "unlink" /\ j.name = None /\ j.todo = {n} /\ j.gone = {}
  BY DEF Idle
<1>2. j \in Jobs
  BY IdleType DEF Jobs, Idle
<1>3. job' = [job EXCEPT ![h] = j]
  BY DEF FindOwned
<1> HIDE DEF j
<1>4. JobOK(j)
  BY <1>1 DEF JobOK, DeleteJob
<1> QED BY <1>1, <1>2, <1>3, <1>4, JobStep

LEMMA PopTabJob ==
    ASSUME TypeInv, NEW h \in Handlers, NEW c \in Clients, PopTab(h, c)
    PROVE  /\ job' \in [Handlers -> Jobs] /\ \A g \in Handlers : JobOK(job'[g])
           /\ \A g \in Handlers \ {h} : job'[g] = job[g]
           /\ job'[h].op = "cleanup" /\ job'[h].at = "unlink" /\ job'[h].name = None
           /\ job'[h].todo = tabs[c] /\ job'[h].gone = {}
<1> DEFINE j == [Idle EXCEPT !.op = "cleanup", !.at = "unlink", !.todo = tabs[c]]
<1>1. /\ j.op = "cleanup" /\ j.at = "unlink" /\ j.name = None /\ j.todo = tabs[c] /\ j.gone = {}
  BY DEF Idle
<1>2. j \in Jobs
  <2>1. tabs[c] \subseteq Names
    BY DEF TypeInv, TypeOK
  <2> QED BY <2>1, IdleType DEF Jobs, Idle
<1>3. job' = [job EXCEPT ![h] = j]
  BY DEF PopTab
<1> HIDE DEF j
<1>4. JobOK(j)
  BY <1>1 DEF JobOK, CleanupJob
<1> QED BY <1>1, <1>2, <1>3, <1>4, JobStep

LEMMA LookUpJob ==
    ASSUME TypeInv, NEW h \in Handlers, NEW c \in Clients, NEW n \in Names, LookUp(h, c, n)
    PROVE  /\ job' \in [Handlers -> Jobs] /\ \A g \in Handlers : JobOK(job'[g])
           /\ \A g \in Handlers \ {h} : job'[g] = job[g]
           /\ job'[h].op = "render" /\ job'[h].at = "recheck" /\ job'[h].name = n
           /\ job'[h].todo = {} /\ job'[h].gone = {}
<1> DEFINE j == [Idle EXCEPT !.op = "render", !.at = "recheck", !.client = c, !.name = n]
<1>1. /\ j.op = "render" /\ j.at = "recheck" /\ j.client = c /\ j.name = n
      /\ j.todo = {} /\ j.gone = {}
  BY DEF Idle
<1>2. j \in Jobs
  BY IdleType DEF Jobs, Idle
<1>3. job' = [job EXCEPT ![h] = j]
  BY DEF LookUp
<1> HIDE DEF j
<1>4. JobOK(j)
  BY <1>1 DEF JobOK, RenderJob
<1> QED BY <1>1, <1>2, <1>3, <1>4, JobStep

LEMMA UnlinkJob ==
    ASSUME TypeInv, NEW h \in Handlers, NEW n \in Names, Unlink(h, n)
    PROVE  /\ job' \in [Handlers -> Jobs] /\ \A g \in Handlers : JobOK(job'[g])
           /\ \A g \in Handlers \ {h} : job'[g] = job[g]
           /\ job'[h].op = job[h].op /\ job'[h].at \in {"unlink", "forget"}
           /\ job[h].op \in {"delete", "cleanup"}
           /\ job[h].name = None /\ job'[h].name = None
           /\ n \in job[h].todo /\ n \notin job[h].gone
           /\ job'[h].todo = job[h].todo \ {n}
           /\ job'[h].gone = job[h].gone \cup
                 {m \in {n} : There(n) \/ job[h].op = "delete"}
<1> DEFINE there == There(n)
           left == job[h].todo \ {n}
           gone == job[h].gone \cup {m \in {n} : there \/ job[h].op = "delete"}
           at   == IF left = {} THEN "forget" ELSE "unlink"
           j    == [job[h] EXCEPT !.todo = left, !.gone = gone, !.at = at]
<1>1. job[h] \in Jobs /\ job[h].at = "unlink" /\ n \in job[h].todo
  BY DEF Unlink, TypeInv, TypeOK
<1>2. DeleteJob(job[h]) \/ CleanupJob(job[h])
  BY <1>1, AtStep
<1>3. job[h].op \in {"delete", "cleanup"} /\ job[h].name = None /\ n \notin job[h].gone
  BY <1>1, <1>2 DEF DeleteJob, CleanupJob
<1>4. left \subseteq Names /\ gone \subseteq Names /\ at \in {"unlink", "forget"}
  BY <1>1 DEF Jobs
<1>5. job' = [job EXCEPT ![h] = j]
  BY DEF Unlink, There
<1>6. (left = {} => at = "forget") /\ (left # {} => at = "unlink")
  OBVIOUS
<1>7. left = job[h].todo \ {n}
  OBVIOUS
<1>8. gone = job[h].gone \cup {m \in {n} : There(n) \/ job[h].op = "delete"}
  OBVIOUS
<1> HIDE DEF left, gone, at
<1>9. /\ j.op = job[h].op /\ j.at = at /\ j.name = job[h].name
      /\ j.todo = left /\ j.gone = gone
  BY <1>1 DEF Jobs
<1>10. j \in Jobs
  BY <1>1, <1>4 DEF Jobs
<1> HIDE DEF j
<1>11. JobOK(j)
  <2>1. CASE DeleteJob(job[h])
    <3>1. left = {}
      BY <1>1, <1>7, <2>1 DEF DeleteJob
    <3> QED BY <1>6, <1>9, <2>1, <3>1 DEF JobOK, DeleteJob
  <2>2. CASE CleanupJob(job[h])
    <3>1. left \cap gone = {}
      BY <1>7, <1>8, <2>2 DEF CleanupJob
    <3> QED BY <1>4, <1>6, <1>9, <2>2, <3>1 DEF JobOK, CleanupJob
  <2> QED BY <1>2, <2>1, <2>2
<1> QED BY <1>1, <1>3, <1>4, <1>5, <1>7, <1>8, <1>9, <1>10, <1>11, JobStep

LEMMA UnlinkFailsJob ==
    ASSUME TypeInv, NEW h \in Handlers, NEW n \in Names, UnlinkFails(h, n)
    PROVE  /\ job' \in [Handlers -> Jobs] /\ \A g \in Handlers : JobOK(job'[g])
           /\ \A g \in Handlers \ {h} : job'[g] = job[g]
           /\ n \in job[h].todo /\ job[h].name = None /\ job'[h].name = None
           /\ \/ job[h].op = "delete" /\ job[h].gone = {} /\ job'[h] = Idle
              \/ /\ job[h].op = "cleanup" /\ job'[h].op = "cleanup"
                 /\ job'[h].at \in {"unlink", "forget"}
                 /\ job'[h].todo = job[h].todo \ {n} /\ job'[h].gone = job[h].gone
<1>1. job[h] \in Jobs /\ job[h].at = "unlink" /\ n \in job[h].todo
  BY DEF UnlinkFails, TypeInv, TypeOK
<1>2. DeleteJob(job[h]) \/ CleanupJob(job[h])
  BY <1>1, AtStep
<1>3. CASE DeleteJob(job[h])
  <2>1. Done(h)
    BY <1>3 DEF UnlinkFails, DeleteJob
  <2> QED BY <1>1, <1>3, <2>1, DoneStep, IdleHasNothing DEF DeleteJob
<1>4. CASE CleanupJob(job[h])
  <2> DEFINE left == job[h].todo \ {n}
             at   == IF job[h].todo = {n} THEN "forget" ELSE "unlink"
             j    == [job[h] EXCEPT !.todo = left, !.at = at]
  <2>1. job' = [job EXCEPT ![h] = j]
    BY <1>4 DEF UnlinkFails, CleanupJob
  <2>2. left \subseteq Names /\ at \in {"unlink", "forget"}
    BY <1>1 DEF Jobs
  <2>3. (left = {} => at = "forget") /\ left \subseteq job[h].todo
    BY <1>1
  <2>4. (at = "forget" => left = {}) /\ left = job[h].todo \ {n}
    OBVIOUS
  <2> HIDE DEF left, at
  <2>5. /\ j.op = job[h].op /\ j.at = at /\ j.name = job[h].name
        /\ j.todo = left /\ j.gone = job[h].gone
    BY <1>1 DEF Jobs
  <2>6. j \in Jobs
    BY <1>1, <2>2 DEF Jobs
  <2> HIDE DEF j
  <2>7. JobOK(j)
    BY <1>4, <2>2, <2>3, <2>4, <2>5 DEF JobOK, CleanupJob
  <2> QED BY <1>1, <1>4, <2>1, <2>2, <2>4, <2>5, <2>6, <2>7, JobStep DEF CleanupJob
<1> QED BY <1>2, <1>3, <1>4

LEMMA BuildJob ==
    ASSUME TypeInv, NEW h \in Handlers, Build(h)
    PROVE  /\ job' \in [Handlers -> Jobs] /\ \A g \in Handlers : JobOK(job'[g])
           /\ \A g \in Handlers \ {h} : job'[g] = job[g]
           /\ job[h].op = "render" /\ job[h].name \in Names
           /\ job[h].todo = {} /\ job[h].gone = {}
           /\ \/ job'[h] = Idle /\ renderer' = renderer
              \/ /\ job'[h].op = "render" /\ job'[h].at = "store" /\ job'[h].name = job[h].name
                 /\ job'[h].todo = {} /\ job'[h].gone = {}
                 /\ \/ /\ {p \in listed : p[2] = job[h].name} = {} /\ job'[h].pic = Default
                       /\ renderer' = renderer
                    \/ \E p \in listed :
                          /\ p[2] = job[h].name
                          /\ job'[h].pic \in {renderer[p], disk[p]} \ {NoFile}
                          /\ renderer' = renderer \/ Made(p)
           /\ \/ renderer' = renderer
              \/ \E p \in listed : p[2] = job[h].name /\ Made(p)
<1>1. job[h].at = "build" /\ job[h] \in Jobs
  BY DEF Build, TypeInv, TypeOK
<1>2. RenderJob(job[h])
  BY <1>1, AtStep
<1>3. ASSUME NEW i \in 0..Default,
             job' = [job EXCEPT ![h].at = "store", ![h].pic = i]
      PROVE  /\ job' \in [Handlers -> Jobs] /\ \A g \in Handlers : JobOK(job'[g])
             /\ \A g \in Handlers \ {h} : job'[g] = job[g]
             /\ job'[h].op = "render" /\ job'[h].at = "store" /\ job'[h].name = job[h].name
             /\ job'[h].todo = {} /\ job'[h].gone = {} /\ job'[h].pic = i
  <2> DEFINE j == [job[h] EXCEPT !.at = "store", !.pic = i]
  <2>1. j \in Jobs
    BY <1>1 DEF Jobs
  <2>2. /\ j.op = job[h].op /\ j.at = "store" /\ j.name = job[h].name /\ j.client = job[h].client
        /\ j.todo = job[h].todo /\ j.gone = job[h].gone /\ j.pic = i
    BY <1>1 DEF Jobs
  <2>3. job' = [job EXCEPT ![h] = j]
    BY <1>3
  <2> HIDE DEF j
  <2>4. JobOK(j)
    BY <1>2, <2>2 DEF JobOK, RenderJob
  <2> QED BY <1>2, <2>1, <2>2, <2>3, <2>4, JobStep DEF RenderJob
<1>4. \A p \in listed : p \in Paths /\ renderer[p] \in 0..Default /\ disk[p] \in 0..Default
  BY NumbersType DEF TypeInv, TypeOK
<1>5. CASE /\ {p \in listed : p[2] = job[h].name} = {} /\ renderer' = renderer
           /\ job' = [job EXCEPT ![h].at = "store", ![h].pic = Default]
  BY <1>2, <1>3, <1>5, NumbersType DEF RenderJob
<1>6. ASSUME NEW p \in listed, p[2] = job[h].name, HasRenderer(p), renderer' = renderer,
             job' = [job EXCEPT ![h].at = "store", ![h].pic = renderer[p]]
      PROVE  /\ job' \in [Handlers -> Jobs] /\ \A g \in Handlers : JobOK(job'[g])
             /\ \A g \in Handlers \ {h} : job'[g] = job[g]
             /\ job'[h].op = "render" /\ job'[h].at = "store" /\ job'[h].name = job[h].name
             /\ job'[h].todo = {} /\ job'[h].gone = {} /\ job'[h].pic = renderer[p]
             /\ renderer[p] # NoFile
  BY <1>3, <1>4, <1>6 DEF HasRenderer
<1>7. ASSUME NEW p \in listed, p[2] = job[h].name, Made(p),
             job' = [job EXCEPT ![h].at = "store", ![h].pic = disk[p]]
      PROVE  /\ job' \in [Handlers -> Jobs] /\ \A g \in Handlers : JobOK(job'[g])
             /\ \A g \in Handlers \ {h} : job'[g] = job[g]
             /\ job'[h].op = "render" /\ job'[h].at = "store" /\ job'[h].name = job[h].name
             /\ job'[h].todo = {} /\ job'[h].gone = {} /\ job'[h].pic = disk[p]
             /\ disk[p] # NoFile
  BY <1>3, <1>4, <1>7 DEF Made
<1>8. CASE renderer' = renderer /\ Done(h)
  BY <1>2, <1>8, DoneStep DEF RenderJob
<1> DEFINE found == {p \in listed : p[2] = job[h].name}
<1>9. \/ /\ found = {} /\ renderer' = renderer
         /\ job' = [job EXCEPT ![h].at = "store", ![h].pic = Default]
      \/ \E p \in found : /\ HasRenderer(p) /\ renderer' = renderer
                          /\ job' = [job EXCEPT ![h].at = "store", ![h].pic = renderer[p]]
      \/ \E p \in found : /\ Made(p)
                          /\ job' = [job EXCEPT ![h].at = "store", ![h].pic = disk[p]]
      \/ renderer' = renderer /\ Done(h)
  BY DEF Build
<1>10. CASE \E p \in found : /\ HasRenderer(p) /\ renderer' = renderer
                             /\ job' = [job EXCEPT ![h].at = "store", ![h].pic = renderer[p]]
  <2>1. PICK p \in found : /\ HasRenderer(p) /\ renderer' = renderer
                           /\ job' = [job EXCEPT ![h].at = "store", ![h].pic = renderer[p]]
    BY <1>10
  <2> QED BY <1>2, <1>6, <2>1 DEF RenderJob
<1>11. CASE \E p \in found : /\ Made(p)
                             /\ job' = [job EXCEPT ![h].at = "store", ![h].pic = disk[p]]
  <2>1. PICK p \in found : /\ Made(p)
                           /\ job' = [job EXCEPT ![h].at = "store", ![h].pic = disk[p]]
    BY <1>11
  <2> QED BY <1>2, <1>7, <2>1 DEF RenderJob
<1> QED BY <1>5, <1>8, <1>9, <1>10, <1>11

LEMMA EmptiedType == Emptied \in [Names -> 0..Default]
BY NumbersType DEF Emptied

LEMMA OnDiskType == OnDisk \subseteq Paths
BY DEF OnDisk

\* The steps that write to the disk or the rows.
LEMMA SaveTypes ==
    ASSUME TypeInv, NEW h \in Handlers, Save(h)
    PROVE  TypeInv'
<1>1. job[h].at = "save" /\ UploadJob(job[h])
  BY AtStep DEF Save
<1> DEFINE p0 == <<job[h].dir, job[h].name>>
           i  == job[h].pic
<1>2. p0 \in Paths /\ i \in Uploads /\ Uploading(h)
  BY <1>1, PathsType DEF UploadJob, Dirs, Uploading
<1>3. /\ disk' = [disk EXCEPT ![p0] = i] /\ saved' = saved \cup {i}
      /\ by' = by /\ rows' = rows /\ tabs' = tabs /\ listed' = listed
      /\ renderer' = renderer /\ cached' = cached /\ warm' = warm /\ marred' = marred
      /\ Go(h, "register")
  BY DEF Save
<1>4. /\ job' \in [Handlers -> Jobs] /\ \A g \in Handlers : JobOK(job'[g])
      /\ \A g \in Handlers \ {h} : job'[g] = job[g]
      /\ job'[h].at = "register" /\ job'[h].op = "upload" /\ job'[h].client = job[h].client
      /\ job'[h].name = job[h].name /\ job'[h].dir = job[h].dir /\ job'[h].pic = i
  BY <1>1, <1>3, NextStep DEF UploadJob
<1>5. \A p \in Paths : disk'[p] = IF p = p0 THEN i ELSE disk[p]
  BY <1>3 DEF TypeInv, TypeOK
<1>6. /\ i <= Len(by) /\ job[h].name <= Len(by)
      /\ \A g \in Handlers : job[g].op = "upload" /\ job[g].pic = i => g = h
  BY <1>2 DEF TypeInv, Numbered, Uploading
<1>7. p0[2] = job[h].name
  OBVIOUS
<1>8. i \in Nat \ {0} /\ Len(by) \in Nat
  <2>1. Len(by) \in Nat
    BY DEF TypeInv, TypeOK
  <2> QED BY <1>2, <2>1, NumbersType
<1> HIDE DEF p0
<1>9. TypeOK'
  BY <1>2, <1>3, <1>4 DEF TypeInv, TypeOK
<1>10. \A p \in Paths : disk'[p] <= Len(by') /\ (disk'[p] # NoFile => p[2] <= Len(by'))
  BY <1>3, <1>5, <1>6, <1>7 DEF TypeInv, Numbered
<1>11. (\A r \in rows' : r[2] <= Len(by') /\ by' # <<>>) /\ saved' \subseteq 1..Len(by')
  <2>1. i \in 1..Len(by)
    BY <1>6, <1>8
  <2> HIDE DEF i
  <2> QED BY <1>3, <2>1 DEF TypeInv, Numbered
<1>12. ASSUME NEW g \in Handlers, job'[g].op = "upload"
       PROVE  /\ job'[g].pic <= Len(by') /\ job'[g].name <= Len(by')
              /\ by'[job'[g].pic] = job'[g].client
              /\ job'[g].at = "save" => job'[g].pic \notin saved'
              /\ \A k \in Handlers : job'[k].op = "upload" /\ job'[k].pic = job'[g].pic => k = g
              /\ \A p \in Paths : disk'[p] = job'[g].pic => p = <<job'[g].dir, job'[g].name>>
  <2>1. /\ job[g].op = "upload" /\ job'[g].pic = job[g].pic /\ job'[g].name = job[g].name
        /\ job'[g].client = job[g].client /\ job'[g].dir = job[g].dir
        /\ job'[g].at = "save" => job[g].at = "save" /\ g # h
    BY <1>1, <1>4, <1>12 DEF UploadJob
  <2>2. /\ job[g].pic <= Len(by) /\ job[g].name <= Len(by)
        /\ by[job[g].pic] = job[g].client
        /\ job[g].at = "save" => job[g].pic \notin saved
        /\ \A k \in Handlers : job[k].op = "upload" /\ job[k].pic = job[g].pic => k = g
        /\ \A p \in Paths : disk[p] = job[g].pic => p = <<job[g].dir, job[g].name>>
    BY <2>1 DEF TypeInv, Numbered, Uploading
  <2>3. \A k \in Handlers : job'[k].op = "upload" => job[k].op = "upload" /\ job'[k].pic = job[k].pic
    BY <1>1, <1>4 DEF UploadJob
  <2>4. job'[g].at = "save" => job'[g].pic \notin saved'
    BY <1>3, <1>6, <2>1, <2>2
  <2>5. \A p \in Paths : disk'[p] = job'[g].pic => p = <<job'[g].dir, job'[g].name>>
    BY <1>5, <1>6, <2>1, <2>2 DEF p0
  <2> QED BY <1>3, <2>1, <2>2, <2>3, <2>4, <2>5
<1>13. Numbered'
  BY <1>10, <1>11, <1>12 DEF Numbered, Uploading
<1> QED BY <1>4, <1>9, <1>13 DEF TypeInv

LEMMA RegisterTypes ==
    ASSUME TypeInv, NEW h \in Handlers, Register(h)
    PROVE  TypeInv'
<1> DEFINE s == Cookie[job[h].client]
           n == job[h].name
<1>1. job[h].at = "register" /\ UploadJob(job[h]) /\ Uploading(h)
  BY AtStep DEF Register, UploadJob, Uploading
<1>2. /\ by' = by /\ saved' = saved /\ disk' = disk /\ tabs' = tabs /\ listed' = listed
      /\ renderer' = renderer /\ cached' = cached /\ warm' = warm /\ marred' = marred
      /\ Go(h, "relist")
  BY DEF Register
<1>3. rows' = rows \/ (s # None /\ rows' = rows \cup {<<s, n>>})
  BY DEF Register
<1>4. s \in Sessions \cup {None} /\ n \in Names
  BY <1>1, StoreAssumption DEF UploadJob
<1>5. /\ job' \in [Handlers -> Jobs] /\ \A g \in Handlers : JobOK(job'[g])
      /\ \A g \in Handlers \ {h} : job'[g] = job[g]
      /\ job'[h].at = "relist" /\ job'[h].op = job[h].op /\ job'[h].client = job[h].client
      /\ job'[h].name = job[h].name /\ job'[h].dir = job[h].dir /\ job'[h].pic = job[h].pic
  BY <1>1, <1>2, NextStep DEF UploadJob
<1>6. n <= Len(by) /\ by # <<>>
  <2>1. job[h].pic <= Len(by) /\ n <= Len(by)
    BY <1>1 DEF TypeInv, Numbered
  <2>2. job[h].pic \in Nat \ {0}
    BY <1>1, NumbersType DEF UploadJob
  <2>3. by # <<>>
    <3>1. Len(by) \in Nat
      BY DEF TypeInv, TypeOK
    <3> QED BY <2>1, <2>2, <3>1
  <2> QED BY <2>1, <2>3
<1> HIDE DEF s, n
<1>7. \A r \in rows' : r[2] <= Len(by') /\ by' # <<>>
  <2>1. \A r \in rows : r[2] <= Len(by)
    BY DEF TypeInv, Numbered
  <2> QED BY <1>2, <1>3, <1>6, <2>1
<1>8. TypeOK'
  BY <1>2, <1>3, <1>4, <1>5 DEF TypeInv, TypeOK
<1>9. \A g \in Handlers :
         /\ job'[g].op = job[g].op /\ job'[g].pic = job[g].pic /\ job'[g].name = job[g].name
         /\ job'[g].client = job[g].client /\ job'[g].dir = job[g].dir
         /\ job'[g].at = "save" => job[g].at = "save"
  BY <1>5
<1>10. Numbered'
  <2> USE <1>2, <1>9
  <2>1. \A p \in Paths : disk'[p] <= Len(by') /\ (disk'[p] # NoFile => p[2] <= Len(by'))
    BY DEF TypeInv, Numbered
  <2>2. saved' \subseteq 1..Len(by')
    BY DEF TypeInv, Numbered
  <2>3. ASSUME NEW g \in Handlers, job'[g].op = "upload"
        PROVE  /\ job'[g].pic <= Len(by') /\ job'[g].name <= Len(by')
               /\ by'[job'[g].pic] = job'[g].client
               /\ job'[g].at = "save" => job'[g].pic \notin saved'
               /\ \A k \in Handlers : job'[k].op = "upload" /\ job'[k].pic = job'[g].pic => k = g
               /\ \A p \in Paths : disk'[p] = job'[g].pic => p = <<job'[g].dir, job'[g].name>>
    BY <2>3 DEF TypeInv, Numbered, Uploading
  <2> QED BY <1>7, <2>1, <2>2, <2>3 DEF Numbered, Uploading
<1> QED BY <1>5, <1>8, <1>10 DEF TypeInv

\* The other steps of an upload.
LEMMA UploadTypes ==
    ASSUME TypeInv, NEW h \in Handlers,
           SaveFails(h) \/ Relist(h) \/ Publish(h) \/ RegisterTab(h)
    PROVE  TypeInv'
<1>1. CASE SaveFails(h)
  BY <1>1, DoneStep, IdleHasNothing, QuietTypes DEF SaveFails, TypeInv, TypeOK
<1>2. CASE Relist(h)
  <2>1. UploadJob(job[h])
    BY <1>2, AtStep DEF Relist
  <2>2. /\ job' \in [Handlers -> Jobs] /\ \A g \in Handlers : JobOK(job'[g])
        /\ \A g \in Handlers \ {h} : job'[g] = job[g]
        /\ job'[h].at = "publish" /\ job'[h].op = job[h].op /\ job'[h].client = job[h].client
        /\ job'[h].name = job[h].name /\ job'[h].dir = job[h].dir /\ job'[h].pic = job[h].pic
    BY <1>2, <2>1, NextStep DEF Relist, UploadJob
  <2> QED BY <1>2, <2>1, <2>2, OnDiskType, QuietTypes DEF Relist, UploadJob, TypeInv, TypeOK
<1>3. CASE Publish(h)
  <2>1. UploadJob(job[h]) /\ <<job[h].dir, job[h].name>> \in Paths
    BY <1>3, AtStep, PathsType DEF Publish, UploadJob, Dirs
  <2>2. /\ job' \in [Handlers -> Jobs] /\ \A g \in Handlers : JobOK(job'[g])
        /\ \A g \in Handlers \ {h} : job'[g] = job[g]
        /\ \/ job'[h] = Idle
           \/ /\ job'[h].at = "tab" /\ job'[h].op = job[h].op /\ job'[h].client = job[h].client
              /\ job'[h].name = job[h].name /\ job'[h].dir = job[h].dir /\ job'[h].pic = job[h].pic
    BY <1>3, <2>1, NextStep, DoneStep DEF Publish, UploadJob
  <2> QED BY <1>3, <2>1, <2>2, EmptiedType, IdleHasNothing, QuietTypes DEF Publish, UploadJob, TypeInv, TypeOK
<1>4. CASE RegisterTab(h)
  <2>1. UploadJob(job[h])
    BY <1>4, AtStep DEF RegisterTab
  <2>2. /\ by' = by /\ saved' = saved /\ disk' = disk /\ rows' = rows /\ listed' = listed
        /\ renderer' = renderer /\ cached' = cached /\ warm' = warm /\ marred' = marred
        /\ tabs' = [tabs EXCEPT ![job[h].client] = @ \cup {job[h].name}] /\ Done(h)
    BY <1>4 DEF RegisterTab
  <2>3. tabs' \in [Clients -> SUBSET Names]
    BY <2>1, <2>2 DEF UploadJob, TypeInv, TypeOK
  <2>4. /\ job' \in [Handlers -> Jobs] /\ \A g \in Handlers : JobOK(job'[g])
        /\ job'[h] = Idle /\ \A g \in Handlers \ {h} : job'[g] = job[g]
    BY <2>2, DoneStep
  <2>5. Numbered'
    BY <2>2, <2>4, IdleHasNothing, NumberedKept
  <2> QED BY <2>2, <2>3, <2>4, <2>5 DEF TypeInv, TypeOK
<1> QED BY <1>1, <1>2, <1>3, <1>4

\* The steps of a removal.
LEMMA RemovalTypes ==
    ASSUME TypeInv, NEW h \in Handlers,
           \/ \E c \in Clients, n \in Names : FindOwned(h, c, n)
           \/ \E n \in Names : UnlinkFails(h, n)
           \/ ForgetFails(h) \/ DropRenderers(h) \/ ClearCaches(h)
    PROVE  TypeInv'
<1>1. ASSUME NEW c \in Clients, NEW n \in Names, FindOwned(h, c, n) PROVE TypeInv'
  <2>1. marred' \subseteq Names /\ UNCHANGED <<store, listed, renderer, cached, warm>>
    BY <1>1 DEF FindOwned, Mark, TypeInv, TypeOK
  <2> QED BY <1>1, <2>1, FindOwnedJob, QuietTypes DEF TypeInv, TypeOK
<1>2. ASSUME NEW n \in Names, UnlinkFails(h, n) PROVE TypeInv'
  <2>1. marred' \subseteq Names /\ UNCHANGED <<store, listed, renderer, cached, warm>>
    BY <1>2 DEF UnlinkFails, Mark, TypeInv, TypeOK
  <2>2. /\ job' \in [Handlers -> Jobs] /\ \A g \in Handlers : JobOK(job'[g])
        /\ \A g \in Handlers \ {h} : job'[g] = job[g]
        /\ job'[h].op # "upload"
    BY <1>2, UnlinkFailsJob, IdleHasNothing
  <2> QED BY <2>1, <2>2, QuietTypes DEF TypeInv, TypeOK
<1>3. CASE ForgetFails(h)
  <2>1. job[h] \in Jobs
    BY DEF TypeInv, TypeOK
  <2>2. marred' \subseteq Names /\ UNCHANGED <<store, listed, renderer, cached, warm>> /\ Done(h)
    BY <1>3, <2>1 DEF ForgetFails, Mark, TypeInv, TypeOK, Jobs
  <2> QED BY <2>2, DoneStep, IdleHasNothing, QuietTypes DEF TypeInv, TypeOK
<1>4. CASE DropRenderers(h)
  <2>1. DeleteJob(job[h]) \/ CleanupJob(job[h])
    BY <1>4, AtStep DEF DropRenderers
  <2>2. /\ job' \in [Handlers -> Jobs] /\ \A g \in Handlers : JobOK(job'[g])
        /\ \A g \in Handlers \ {h} : job'[g] = job[g]
        /\ job'[h].op = job[h].op
    BY <1>4, <2>1, NextStep DEF DropRenderers, DeleteJob, CleanupJob
  <2>3. job'[h].op # "upload"
    <3>1. job[h].op # "upload"
      BY <2>1 DEF DeleteJob, CleanupJob
    <3> QED BY <2>2, <3>1
  <2>4. renderer' \in [Paths -> {NoFile} \cup Uploads]
    <3>1. renderer' = Forgotten(job[h].gone)
      BY <1>4 DEF DropRenderers
    <3> QED BY <3>1 DEF Forgotten, TypeInv, TypeOK
  <2>5. UNCHANGED <<store, cached, warm, marred>> /\ listed' = OnDisk
    BY <1>4 DEF DropRenderers
  <2> QED BY <2>2, <2>3, <2>4, <2>5, OnDiskType, QuietTypes DEF TypeInv, TypeOK
<1>5. CASE ClearCaches(h)
  BY <1>5, DoneStep, IdleHasNothing, EmptiedType, QuietTypes DEF ClearCaches, TypeInv, TypeOK
<1> QED BY <1>1, <1>2, <1>3, <1>4, <1>5

LEMMA TakeAwayTypes ==
    ASSUME TypeInv, NEW h \in Handlers,
           \/ \E c \in Clients : PopTab(h, c)
           \/ \E n \in Names : Unlink(h, n)
           \/ Forget(h) \/ Untab(h)
    PROVE  TypeInv'
<1>1. ASSUME NEW c \in Clients, PopTab(h, c) PROVE TypeInv'
  <2>1. /\ by' = by /\ saved' = saved /\ disk' = disk /\ rows' = rows /\ listed' = listed
        /\ renderer' = renderer /\ cached' = cached /\ warm' = warm
        /\ tabs' \in [Clients -> SUBSET Names] /\ marred' \subseteq Names
    BY <1>1 DEF PopTab, Mark, TypeInv, TypeOK
  <2>2. Numbered'
    BY <1>1, <2>1, PopTabJob, NumberedKept
  <2> QED BY <1>1, <2>1, <2>2, PopTabJob DEF TypeInv, TypeOK
<1>2. ASSUME NEW n \in Names, Unlink(h, n) PROVE TypeInv'
  <2>1. /\ by' = by /\ saved' = saved /\ tabs' = tabs /\ rows' = rows /\ listed' = listed
        /\ renderer' = renderer /\ cached' = cached /\ warm' = warm
        /\ disk' = [disk EXCEPT ![Upload(n)] = NoFile]
    BY <1>2 DEF Unlink
  <2>2. disk' \in [Paths -> {NoFile} \cup Uploads] /\ \A p \in Paths : disk'[p] \in {disk[p], NoFile}
    BY <2>1 DEF TypeInv, TypeOK
  <2>3. marred' \subseteq Names
    BY <1>2 DEF Unlink, Mark, TypeInv, TypeOK
  <2>4. /\ job' \in [Handlers -> Jobs] /\ \A g \in Handlers : JobOK(job'[g])
        /\ \A g \in Handlers \ {h} : job'[g] = job[g]
        /\ job'[h].op # "upload"
    BY <1>2, UnlinkJob
  <2>5. Numbered'
    <3>1. \A g \in Handlers : job'[g].op = "upload" => job'[g] = job[g]
      BY <2>4
    <3>2. rows' \subseteq rows
      BY <2>1
    <3> QED BY <2>1, <2>2, <3>1, <3>2, NumberedKept
  <2> QED BY <2>1, <2>2, <2>3, <2>4, <2>5 DEF TypeInv, TypeOK
<1>3. CASE Forget(h) \/ Untab(h)
  <2>1. /\ by' = by /\ saved' = saved /\ disk' = disk /\ rows' \subseteq rows /\ listed' = listed
        /\ renderer' = renderer /\ cached' = cached /\ warm' = warm /\ marred' = marred
        /\ tabs' \in [Clients -> SUBSET Names]
    BY <1>3 DEF Forget, Untab, TypeInv, TypeOK
  <2>2. DeleteJob(job[h]) \/ CleanupJob(job[h])
    BY <1>3, AtStep DEF Forget, Untab
  <2>3. /\ job' \in [Handlers -> Jobs] /\ \A g \in Handlers : JobOK(job'[g])
        /\ \A g \in Handlers \ {h} : job'[g] = job[g]
        /\ job'[h].op = job[h].op
    <3>1. CASE Forget(h)
      BY <2>2, <3>1, NextStep DEF Forget, DeleteJob, CleanupJob
    <3>2. CASE Untab(h)
      <4>1. DeleteJob(job[h])
        BY <3>2, AtStep DEF Untab
      <4> QED BY <3>2, <4>1, NextStep DEF Untab, DeleteJob
    <3> QED BY <1>3, <3>1, <3>2
  <2>4. job'[h].op # "upload"
    <3>1. job[h].op # "upload"
      BY <2>2 DEF DeleteJob, CleanupJob
    <3> QED BY <2>3, <3>1
  <2>5. Numbered'
    BY <2>1, <2>3, <2>4, NumberedKept
  <2> QED BY <2>1, <2>3, <2>5 DEF TypeInv, TypeOK
<1> QED BY <1>1, <1>2, <1>3

\* The steps of a rendering.
LEMMA RenderTypes ==
    ASSUME TypeInv, NEW h \in Handlers,
           \/ \E c \in Clients, n \in Names : LookUp(h, c, n)
           \/ Recheck(h) \/ Build(h) \/ Store(h)
    PROVE  TypeInv'
<1>1. ASSUME NEW c \in Clients, NEW n \in Names, LookUp(h, c, n) PROVE TypeInv'
  <2>1. marred' \subseteq Names /\ UNCHANGED <<store, listed, renderer, cached, warm>>
    BY <1>1 DEF LookUp, Mark, TypeInv, TypeOK
  <2> QED BY <1>1, <2>1, LookUpJob, QuietTypes DEF TypeInv, TypeOK
<1>2. CASE Recheck(h)
  <2>1. RenderJob(job[h])
    BY <1>2, AtStep DEF Recheck
  <2>2. /\ job' \in [Handlers -> Jobs] /\ \A g \in Handlers : JobOK(job'[g])
        /\ \A g \in Handlers \ {h} : job'[g] = job[g]
        /\ job'[h].op # "upload"
    BY <1>2, <2>1, NextStep, DoneStep, IdleHasNothing DEF Recheck, RenderJob
  <2> QED BY <1>2, <2>2, QuietTypes DEF Recheck, TypeInv, TypeOK
<1>3. CASE Build(h)
  <2>1. renderer' \in [Paths -> {NoFile} \cup Uploads]
    <3>1. renderer' = renderer \/ \E p \in Paths : Made(p)
      BY <1>3, BuildJob DEF TypeInv, TypeOK
    <3> QED BY <3>1, KeptOrMade DEF TypeInv, TypeOK
  <2>2. UNCHANGED <<store, listed, cached, warm, marred>>
    BY <1>3 DEF Build
  <2>3. job'[h].op # "upload"
    BY <1>3, BuildJob, IdleHasNothing
  <2> QED BY <1>3, <2>1, <2>2, <2>3, BuildJob, QuietTypes DEF TypeInv, TypeOK
<1>4. CASE Store(h)
  <2>1. job[h] \in Jobs
    BY DEF TypeInv, TypeOK
  <2>2. cached' \in [Names -> 0..Default]
    BY <1>4, <2>1 DEF Store, Jobs, TypeInv, TypeOK
  <2> QED BY <1>4, <2>2, DoneStep, IdleHasNothing, QuietTypes DEF Store, TypeInv, TypeOK
<1> QED BY <1>1, <1>2, <1>3, <1>4

\* The rest of the process.
LEMMA ProcessTypes ==
    ASSUME TypeInv, (\E p \in Paths : Warm(p)) \/ Poll \/ Restart
    PROVE  TypeInv'
<1>1. ASSUME NEW p \in Paths, Warm(p) PROVE TypeInv'
  <2>1. /\ by' = by /\ saved' = saved /\ disk' = disk /\ rows' = rows /\ tabs' = tabs
        /\ listed' = listed /\ cached' = cached /\ job' = job /\ marred' = marred
        /\ warm' \subseteq warm /\ (renderer' = renderer \/ Made(p))
    BY <1>1 DEF Warm, store
  <2>2. renderer' \in [Paths -> {NoFile} \cup Uploads]
    BY <2>1, KeptOrMade
  <2>3. Numbered'
    BY <2>1, NumberedKept
  <2> QED BY <2>1, <2>2, <2>3 DEF TypeInv, TypeOK
<1>2. CASE Poll
  <2>1. UNCHANGED <<store, renderer, cached, warm, job, marred>> /\ listed' = OnDisk
    BY <1>2 DEF Poll
  <2>2. /\ by' = by /\ saved' = saved /\ disk' = disk /\ rows' = rows /\ tabs' = tabs
    BY <2>1 DEF store
  <2>3. Numbered'
    BY <2>1, <2>2, NumberedKept
  <2> QED BY <2>1, <2>2, <2>3, OnDiskType DEF TypeInv, TypeOK
<1>3. CASE Restart
  <2>1. /\ by' = by /\ saved' = saved /\ marred' = marred /\ rows' \subseteq rows
        /\ disk' = [p \in Paths |-> IF p \in Orphans THEN NoFile ELSE disk[p]]
        /\ listed' \subseteq Paths /\ warm' \subseteq Paths
        /\ tabs' = [c \in Clients |-> {}] /\ renderer' = [p \in Paths |-> NoFile]
        /\ cached' = Emptied /\ job' = [g \in Handlers |-> Idle]
    BY <1>3, OnDiskType DEF Restart
  <2>2. disk' \in [Paths -> {NoFile} \cup Uploads] /\ \A p \in Paths : disk'[p] \in {disk[p], NoFile}
    BY <2>1 DEF TypeInv, TypeOK
  <2>3. /\ job' \in [Handlers -> Jobs] /\ \A g \in Handlers : JobOK(job'[g])
        /\ \A g \in Handlers : job'[g].op # "upload"
    BY <2>1, IdleType, IdleHasNothing
  <2>4. Numbered'
    BY <2>1, <2>2, <2>3, NumberedKept
  <2>5. TypeOK'
    BY <2>1, <2>2, <2>3, EmptiedType DEF TypeInv, TypeOK
  <2> QED BY <2>3, <2>4, <2>5 DEF TypeInv
<1> QED BY <1>1, <1>2, <1>3

LEMMA StepKeepsTypes == TypeInv /\ [Next]_vars => TypeInv'
<1> SUFFICES ASSUME TypeInv, [Next]_vars PROVE TypeInv'
  OBVIOUS
<1>1. ASSUME NEW h \in Handlers, NEW c \in Clients, Claim(h, c) PROVE TypeInv'
  BY <1>1, ClaimTypes
<1>2. ASSUME NEW h \in Handlers,
             \/ Save(h) \/ Register(h)
             \/ SaveFails(h) \/ Relist(h) \/ Publish(h) \/ RegisterTab(h)
      PROVE  TypeInv'
  BY <1>2, SaveTypes, RegisterTypes, UploadTypes
<1>3. ASSUME NEW h \in Handlers,
             \/ \E c \in Clients, n \in Names : FindOwned(h, c, n)
             \/ \E n \in Names : UnlinkFails(h, n)
             \/ ForgetFails(h) \/ DropRenderers(h) \/ ClearCaches(h)
      PROVE  TypeInv'
  BY <1>3, RemovalTypes
<1>4. ASSUME NEW h \in Handlers,
             \/ \E c \in Clients : PopTab(h, c)
             \/ \E n \in Names : Unlink(h, n)
             \/ Forget(h) \/ Untab(h)
      PROVE  TypeInv'
  BY <1>4, TakeAwayTypes
<1>5. ASSUME NEW h \in Handlers,
             \/ \E c \in Clients, n \in Names : LookUp(h, c, n)
             \/ Recheck(h) \/ Build(h) \/ Store(h)
      PROVE  TypeInv'
  BY <1>5, RenderTypes
<1>6. CASE (\E p \in Paths : Warm(p)) \/ Poll \/ Restart
  BY <1>6, ProcessTypes
<1>7. CASE UNCHANGED vars
  <2>1. /\ by' = by /\ saved' = saved /\ disk' = disk /\ rows' = rows /\ tabs' = tabs
        /\ listed' = listed /\ renderer' = renderer /\ cached' = cached /\ warm' = warm
        /\ job' = job /\ marred' = marred
    BY <1>7 DEF vars, store
  <2>2. Numbered'
    BY <2>1, NumberedKept
  <2> QED BY <2>1, <2>2 DEF TypeInv, TypeOK
<1> QED BY <1>1, <1>2, <1>3, <1>4, <1>5, <1>6, <1>7 DEF Next

LEMMA InitTypes == Init => TypeInv
<1> SUFFICES ASSUME Init PROVE TypeInv
  OBVIOUS
<1>1. TypeOK
  BY NumbersType, IdleType DEF Init, TypeOK
<1>2. \A h \in Handlers : JobOK(job[h]) /\ ~Uploading(h)
  BY IdleType, IdleHasNothing DEF Init, Uploading
<1>3. \A p \in Paths : disk[p] = 0 /\ Len(by) = 0
  BY NumbersType DEF Init
<1>4. Numbered
  BY <1>2, <1>3, NumbersType DEF Numbered, Init
<1> QED BY <1>1, <1>2, <1>4 DEF TypeInv

-----------------------------------------------------------------------------
(* What a step may change without disturbing a name *)

InHand(j, n) == n = j.name \/ n \in j.todo \/ n \in j.gone

\* A request that goes from j to k sends, and cleans up, the same of name n,
SameHold(j, k, n) ==
    /\ (k.op = "upload" /\ k.name = n) <=> (j.op = "upload" /\ j.name = n)
    /\ j.op = "upload" /\ j.name = n => k.dir = j.dir /\ k.pic = j.pic
    /\ (k.op = "cleanup" /\ n \in k.todo) <=> (j.op = "cleanup" /\ n \in j.todo)
\* has the same of it in hand and is no further in removing it,
SameAway(j, k, n) ==
    /\ InHand(k, n) <=> InHand(j, n)
    /\ n \in k.gone <=> n \in j.gone
    /\ n \in j.gone => k.op = j.op /\ (k.at = j.at \/ k.at \in {"unlink", "forget"})
\* and renders no more of it.
SameRender(j, k, n) ==
    k.op = "render" /\ k.name = n =>
        /\ j.op = "render" /\ j.name = n
        /\ k.at = "store" => j.at = "store" /\ k.pic = j.pic

SameWork(j, k, n) == SameHold(j, k, n) /\ SameAway(j, k, n) /\ SameRender(j, k, n)

LEMMA AboutInHand ==
    ASSUME NEW h, NEW n
    PROVE  /\ About(h, n) <=> InHand(job[h], n)
           /\ About(h, n)' <=> InHand(job'[h], n)
BY DEF About, InHand

LEMMA SameJob == ASSUME NEW j, NEW n PROVE SameWork(j, j, n)
BY DEF SameWork, SameHold, SameAway, SameRender

LEMMA OtherName ==
    ASSUME NEW j, NEW k, NEW n, ~InHand(j, n), ~InHand(k, n)
    PROVE  SameWork(j, k, n)
BY DEF SameWork, SameHold, SameAway, SameRender, InHand

\* The files of n, and whose they are, stay as they were.
SameFiles(n) ==
    /\ disk'[Upload(n)] = disk[Upload(n)] /\ disk'[<<"models", n>>] = disk[<<"models", n>>]
    /\ There(n) => by'[disk[Upload(n)]] = by[disk[Upload(n)]]
SameRows(n) == \A s \in Sessions : <<s, n>> \in rows' <=> <<s, n>> \in rows
SameTabs(n) == \A c \in Clients : n \in tabs'[c] <=> n \in tabs[c]
SavedInHand(n) ==
    There(n) /\ disk[Upload(n)] \in saved' =>
        disk[Upload(n)] \in saved \/ \E g \in Handlers : job[g].op = "upload" /\ job[g].name = n
\* What is kept of n is what was kept, or is made from its file.
SameKept(n) ==
    /\ cached'[n] \in {NoFile, cached[n]}
    /\ renderer'[Upload(n)] \in {NoFile, renderer[Upload(n)], disk[Upload(n)]}
    /\ There(n) /\ Upload(n) \in listed => Upload(n) \in listed'

LEMMA FilesKept ==
    ASSUME TypeInv, NEW n \in Names, NameInv(n), SameFiles(n), SameRows(n), SameTabs(n), SavedInHand(n),
           \A g \in Handlers : SameHold(job[g], job'[g], n)
    PROVE  OneFile(n)' /\ Held(n)' /\ OneTab(n)' /\ SenderOnly(n)' /\ HasOwner(n)'
<1>1. There(n)' <=> There(n)
  BY DEF SameFiles, There
<1>2. Published(n)' <=> Published(n)
  BY DEF SameFiles, Published
<1>3. (HasRow(n)' <=> HasRow(n)) /\ (HasTab(n)' <=> HasTab(n))
  BY DEF SameRows, SameTabs, HasRow, HasTab
<1>4. OneFile(n)'
  BY <1>1, <1>2 DEF NameInv, OneFile
<1>5. Held(n)'
  <2> SUFFICES ASSUME NEW h \in Handlers, job'[h].op = "upload", job'[h].name = n
               PROVE  disk'[<<job'[h].dir, n>>] = job'[h].pic
    BY DEF Held, Uploading
  <2>1. /\ job[h].op = "upload" /\ job[h].name = n
        /\ job'[h].dir = job[h].dir /\ job'[h].pic = job[h].pic
    BY DEF SameHold
  <2>2. disk[<<job[h].dir, n>>] = job[h].pic
    BY <2>1 DEF NameInv, Held, Uploading
  <2>3. job[h].dir = "uploads" \/ job[h].dir = "models"
    BY <2>1, AtStep DEF UploadJob
  <2> QED BY <2>1, <2>2, <2>3 DEF SameFiles, Upload
<1>6. OneTab(n)'
  <2>1. \A c, d \in Clients : n \in tabs'[c] /\ n \in tabs'[d] => c = d
    BY DEF NameInv, OneTab, SameTabs
  <2>2. ASSUME NEW h \in Handlers, job'[h].op = "upload", job'[h].name = n
        PROVE  /\ ~HasTab(n)'
               /\ \A g \in Handlers : job'[g].op = "cleanup" => n \notin job'[g].todo
    <3>1. job[h].op = "upload" /\ job[h].name = n
      BY <2>2 DEF SameHold
    <3>2. ~HasTab(n) /\ \A g \in Handlers : job[g].op = "cleanup" => n \notin job[g].todo
      BY <3>1 DEF NameInv, OneTab, Uploading, CleaningUp
    <3> QED BY <1>3, <3>2 DEF SameHold
  <2>3. \A g \in Handlers : job'[g].op = "cleanup" /\ n \in job'[g].todo => ~HasTab(n)'
    BY <1>3 DEF NameInv, OneTab, CleaningUp, SameHold
  <2> QED BY <2>1, <2>2, <2>3 DEF OneTab, Uploading, CleaningUp
<1>7. SenderOnly(n)'
  <2>1. There(n) => by'[disk'[Upload(n)]] = by[disk[Upload(n)]]
    BY DEF SameFiles
  <2> QED BY <1>1, <2>1 DEF NameInv, SenderOnly, SameRows, SameTabs
<1>8. HasOwner(n)'
  <2> SUFFICES ASSUME There(n)', disk'[Upload(n)] \in saved'
               PROVE  \/ HasRow(n)' \/ HasTab(n)'
                      \/ \E h \in Handlers : job'[h].op = "upload" /\ job'[h].name = n
                      \/ \E g \in Handlers : job'[g].op = "cleanup" /\ n \in job'[g].todo
    BY DEF HasOwner, Uploading, CleaningUp
  <2>1. \/ HasRow(n) \/ HasTab(n)
        \/ \E h \in Handlers : job[h].op = "upload" /\ job[h].name = n
        \/ \E g \in Handlers : job[g].op = "cleanup" /\ n \in job[g].todo
    BY <1>1 DEF NameInv, HasOwner, Uploading, CleaningUp, SavedInHand, SameFiles
  <2> QED BY <1>3, <2>1 DEF SameHold
<1> QED BY <1>4, <1>5, <1>6, <1>7, <1>8

LEMMA AwayKept ==
    ASSUME NEW n \in Names, Removed(n), Clean(n), SameFiles(n), SameRows(n), SameTabs(n), SameKept(n),
           \A g \in Handlers : SameAway(job[g], job'[g], n)
    PROVE  Removed(n)' /\ Clean(n)'
<1>1. /\ There(n)' <=> There(n)
      /\ Published(n)' <=> Published(n)
  BY DEF SameFiles, There, Published
<1>2. (HasRow(n)' <=> HasRow(n)) /\ (HasTab(n)' <=> HasTab(n))
  BY DEF SameRows, SameTabs, HasRow, HasTab
<1>3. \A g \in Handlers : About(g, n)' <=> About(g, n)
  BY AboutInHand DEF SameAway
<1>4. Removing(n)' <=> Removing(n)
  BY DEF Removing, SameAway
<1>5. ~There(n) /\ renderer[Upload(n)] = NoFile => renderer'[Upload(n)] = NoFile
  BY DEF SameKept, There
<1>6. Removed(n)'
  <2> SUFFICES ASSUME NEW g \in Handlers, n \in job'[g].gone
               PROVE  /\ ~There(n)'
                      /\ \A h \in Handlers \ {g} : ~About(h, n)'
                      /\ job'[g].at \in {"untab", "drop", "clear"} => ~HasRow(n)'
                      /\ job'[g].op = "cleanup" \/ job'[g].at \in {"drop", "clear"} => ~HasTab(n)'
                      /\ job'[g].at = "clear" => renderer'[Upload(n)] = NoFile
    BY DEF Removed, CleaningUp
  <2>1. /\ n \in job[g].gone /\ job'[g].op = job[g].op
        /\ job'[g].at = job[g].at \/ job'[g].at \in {"unlink", "forget"}
    BY DEF SameAway
  <2>2. /\ ~There(n)
        /\ \A h \in Handlers \ {g} : ~About(h, n)
        /\ job[g].at \in {"untab", "drop", "clear"} => ~HasRow(n)
        /\ job[g].op = "cleanup" \/ job[g].at \in {"drop", "clear"} => ~HasTab(n)
        /\ job[g].at = "clear" => renderer[Upload(n)] = NoFile
    BY <2>1 DEF Removed, CleaningUp
  <2> QED BY <1>1, <1>2, <1>3, <1>5, <2>1, <2>2
<1>7. Clean(n)'
  <2> SUFFICES ASSUME ~There(n)', ~Published(n)', ~HasRow(n)', ~Removing(n)'
               PROVE  /\ \A h \in Handlers : ~About(h, n)'
                      /\ ~HasTab(n)'
                      /\ cached'[n] = NoFile /\ renderer'[Upload(n)] = NoFile
    BY DEF Clean
  <2>1. /\ \A h \in Handlers : ~About(h, n)
        /\ ~HasTab(n)
        /\ cached[n] = NoFile /\ renderer[Upload(n)] = NoFile
    BY <1>1, <1>2, <1>4 DEF Clean
  <2>2. cached'[n] = NoFile
    BY <2>1 DEF SameKept
  <2>3. renderer'[Upload(n)] = NoFile
    BY <1>1, <1>5, <2>1
  <2> QED BY <1>2, <1>3, <2>1, <2>2, <2>3
<1> QED BY <1>6, <1>7

LEMMA KeptKept ==
    ASSUME NEW n \in Names, Kept1(n), SameFiles(n), SameKept(n),
           \A g \in Handlers : SameRender(job[g], job'[g], n)
    PROVE  Kept1(n)'
<1> SUFFICES ASSUME There(n)'
             PROVE  /\ cached'[n] \in {NoFile, disk'[Upload(n)]}
                    /\ renderer'[Upload(n)] \in {NoFile, disk'[Upload(n)]}
                    /\ \A h \in Handlers : job'[h].op = "render" /\ job'[h].name = n =>
                          /\ Upload(n) \in listed'
                          /\ job'[h].at = "store" => job'[h].pic = disk'[Upload(n)]
  BY DEF Kept1, Rendering
<1>1. There(n) /\ disk'[Upload(n)] = disk[Upload(n)]
  BY DEF SameFiles, There
<1>2. /\ cached[n] \in {NoFile, disk[Upload(n)]}
      /\ renderer[Upload(n)] \in {NoFile, disk[Upload(n)]}
      /\ \A h \in Handlers : job[h].op = "render" /\ job[h].name = n =>
            /\ Upload(n) \in listed
            /\ job[h].at = "store" => job[h].pic = disk[Upload(n)]
  BY <1>1 DEF Kept1, Rendering
<1>3. cached'[n] \in {NoFile, disk'[Upload(n)]} /\ renderer'[Upload(n)] \in {NoFile, disk'[Upload(n)]}
  BY <1>1, <1>2 DEF SameKept
<1>4. ASSUME NEW h \in Handlers, job'[h].op = "render", job'[h].name = n
      PROVE  /\ Upload(n) \in listed'
             /\ job'[h].at = "store" => job'[h].pic = disk'[Upload(n)]
  <2>1. /\ job[h].op = "render" /\ job[h].name = n
        /\ job'[h].at = "store" => job[h].at = "store" /\ job'[h].pic = job[h].pic
    BY <1>4 DEF SameRender
  <2> QED BY <1>1, <1>2, <2>1 DEF SameKept
<1> QED BY <1>3, <1>4

\* A step that has nothing to do with n leaves all of it as it was.
LEMMA NothingOfName ==
    ASSUME TypeInv, NEW n \in Names, NameInv(n), SameFiles(n), SameRows(n), SameTabs(n),
           SavedInHand(n), SameKept(n), \A g \in Handlers : SameWork(job[g], job'[g], n)
    PROVE  NameInv(n)'
<1>1. \A g \in Handlers : /\ SameHold(job[g], job'[g], n) /\ SameAway(job[g], job'[g], n)
                          /\ SameRender(job[g], job'[g], n)
  BY DEF SameWork
<1>2. OneFile(n)' /\ Held(n)' /\ OneTab(n)' /\ SenderOnly(n)' /\ HasOwner(n)'
  BY <1>1, FilesKept
<1>3. Removed(n)' /\ Clean(n)'
  BY <1>1, AwayKept DEF NameInv
<1>4. Kept1(n)'
  BY <1>1, KeptKept DEF NameInv
<1> QED BY <1>2, <1>3, <1>4 DEF NameInv

\* One request takes a step that has nothing to do with n.
LEMMA OneStep ==
    ASSUME NEW h \in Handlers, NEW n, \A g \in Handlers \ {h} : job'[g] = job[g],
           SameWork(job[h], job'[h], n)
    PROVE  \A g \in Handlers : SameWork(job[g], job'[g], n)
<1> SUFFICES ASSUME NEW g \in Handlers PROVE SameWork(job[g], job'[g], n)
  OBVIOUS
<1>1. CASE g = h
  BY <1>1
<1>2. CASE g # h
  BY <1>2, SameJob
<1> QED BY <1>1, <1>2

\* What a removal that has taken the file of n away means for every other request.
LEMMA RemoverIsAlone ==
    ASSUME NEW n \in Names, Removed(n), NEW g \in Handlers, NEW h \in Handlers,
           n \in job[g].gone, InHand(job[h], n)
    PROVE  g = h
BY AboutInHand DEF Removed

LEMMA StoreSame ==
    ASSUME UNCHANGED store, NEW n \in Names
    PROVE  SameFiles(n) /\ SameRows(n) /\ SameTabs(n) /\ SavedInHand(n)
BY DEF store, SameFiles, SameRows, SameTabs, SavedInHand

LEMMA RelistKeeps ==
    ASSUME NEW n \in Names, listed' = OnDisk \/ listed' = listed
    PROVE  There(n) /\ Upload(n) \in listed => Upload(n) \in listed'
<1>1. There(n) => Upload(n) \in OnDisk
  BY PathsType DEF There, OnDisk
<1> QED BY <1>1

-----------------------------------------------------------------------------
(* The steps of an upload *)

\* An upload under way has the file of its name, and nobody else's is.
LEMMA UploadHasFile ==
    ASSUME TypeInv, NEW n \in Names, NameInv(n), NEW h \in Handlers,
           UploadJob(job[h]), job[h].name = n
    PROVE  /\ disk[<<job[h].dir, n>>] = job[h].pic /\ job[h].pic # NoFile
           /\ There(n) \/ Published(n)
           /\ job[h].dir = "uploads" =>
                 There(n) /\ disk[Upload(n)] = job[h].pic /\ by[disk[Upload(n)]] = job[h].client
           /\ job[h].dir = "models" => ~There(n)
           /\ \A g \in Handlers : job[g].op = "upload" /\ job[g].name = n => g = h
           /\ \A g \in Handlers : n \notin job[g].gone
           /\ ~HasTab(n) /\ \A g \in Handlers : job[g].op = "cleanup" => n \notin job[g].todo
<1>1. job[h].op = "upload" /\ Uploading(h) /\ job[h].dir \in {"uploads", "models"}
  BY DEF UploadJob, Uploading
<1>2. disk[<<job[h].dir, n>>] = job[h].pic
  BY <1>1 DEF NameInv, Held
<1>3. job[h].pic # NoFile
  BY NumbersType DEF UploadJob
<1>4. /\ job[h].dir = "uploads" => There(n) /\ disk[Upload(n)] = job[h].pic
      /\ job[h].dir = "models" => Published(n)
  BY <1>2, <1>3 DEF There, Published, Upload
<1>5. by[job[h].pic] = job[h].client
  BY <1>1 DEF TypeInv, Numbered
<1>6. job[h].dir = "models" => ~There(n)
  BY <1>4 DEF NameInv, OneFile
<1>7. ASSUME NEW g \in Handlers, job[g].op = "upload", job[g].name = n PROVE g = h
  <2>1. UploadJob(job[g]) /\ Uploading(g)
    BY <1>7, AtStep DEF Uploading
  <2>2. disk[<<job[g].dir, n>>] = job[g].pic /\ job[g].dir \in {"uploads", "models"}
    BY <1>7, <2>1 DEF NameInv, Held, UploadJob
  <2>3. job[g].pic # NoFile
    BY <2>1, NumbersType DEF UploadJob
  <2>4. job[g].dir = job[h].dir
    BY <1>1, <1>4, <2>2, <2>3 DEF NameInv, OneFile, There, Published, Upload
  <2>5. job[g].pic = job[h].pic
    BY <1>2, <2>2, <2>4
  <2> QED BY <1>1, <2>1, <2>5 DEF TypeInv, Numbered
<1>8. \A g \in Handlers : n \notin job[g].gone
  <2> SUFFICES ASSUME NEW g \in Handlers, n \in job[g].gone PROVE FALSE
    OBVIOUS
  <2>1. InHand(job[h], n)
    BY DEF InHand
  <2>2. g = h
    BY <2>1, RemoverIsAlone DEF NameInv
  <2> QED BY <2>2 DEF UploadJob
<1>9. ~HasTab(n) /\ \A g \in Handlers : job[g].op = "cleanup" => n \notin job[g].todo
  BY <1>1 DEF NameInv, OneTab, CleaningUp
<1> QED BY <1>1, <1>2, <1>3, <1>4, <1>5, <1>6, <1>7, <1>8, <1>9

\* A request of one name has no other in hand.
LEMMA HandOfOneName ==
    ASSUME NEW j, NEW n, n \in Names, UploadJob(j) \/ RenderJob(j) \/ j = Idle
    PROVE  /\ j = Idle => ~InHand(j, n)
           /\ InHand(j, n) => j.name = n
BY NumbersType, IdleHasNothing DEF InHand, UploadJob, RenderJob

\* An upload that is over leaves its file, with whom it belongs to.
LEMMA UploadEnds ==
    ASSUME TypeInv, NEW n \in Names, NameInv(n), NEW h \in Handlers,
           UploadJob(job[h]), job[h].name = n,
           job'[h] = Idle, \A g \in Handlers \ {h} : job'[g] = job[g],
           SameFiles(n), SameRows(n), SameKept(n),
           \A c \in Clients : n \in tabs'[c] =>
               n \in tabs[c] \/ (c = job[h].client /\ job[h].dir = "uploads"),
           HasOwner(n)'
    PROVE  NameInv(n)'
<1>1. /\ There(n) \/ Published(n)
      /\ job[h].dir = "uploads" => There(n) /\ by[disk[Upload(n)]] = job[h].client
      /\ \A g \in Handlers : job[g].op = "upload" /\ job[g].name = n => g = h
      /\ \A g \in Handlers : n \notin job[g].gone
      /\ ~HasTab(n) /\ \A g \in Handlers : job[g].op = "cleanup" => n \notin job[g].todo
  BY UploadHasFile
<1>2. (There(n)' <=> There(n)) /\ (Published(n)' <=> Published(n))
  BY DEF SameFiles, There, Published
<1>3. /\ \A g \in Handlers : ~(job'[g].op = "upload" /\ job'[g].name = n)
      /\ \A g \in Handlers : n \notin job'[g].gone
      /\ \A g \in Handlers : job'[g].op = "cleanup" => n \notin job'[g].todo
  BY <1>1, IdleHasNothing, NumbersType
<1>4. \A c \in Clients : n \in tabs'[c] => c = job[h].client /\ job[h].dir = "uploads"
  BY <1>1 DEF HasTab
<1>5. OneFile(n)' /\ Held(n)'
  BY <1>2, <1>3 DEF NameInv, OneFile, Held, Uploading
<1>6. OneTab(n)'
  BY <1>3, <1>4 DEF OneTab, Uploading, CleaningUp
<1>7. Removed(n)' /\ Clean(n)'
  BY <1>1, <1>2, <1>3 DEF Removed, Clean
<1>8. SenderOnly(n)'
  <2>1. There(n) => by'[disk'[Upload(n)]] = by[disk[Upload(n)]]
    BY DEF SameFiles
  <2> QED BY <1>1, <1>2, <1>4, <2>1 DEF NameInv, SenderOnly, SameRows
<1>9. Kept1(n)'
  <2>1. \A g \in Handlers : SameRender(job[g], job'[g], n)
    BY SameJob, IdleHasNothing DEF SameRender, SameWork
  <2> QED BY <2>1, KeptKept DEF NameInv
<1> QED BY <1>5, <1>6, <1>7, <1>8, <1>9 DEF NameInv

\* An upload that goes on to its next step leaves the name as it was.
LEMMA UploadGoesOn ==
    ASSUME TypeInv, NEW h \in Handlers, NEW at, Go(h, at), UploadJob(job[h]),
           at \in {"register", "relist", "publish"} \/ (at = "tab" /\ job[h].client \notin Ingesters),
           NEW n
    PROVE  \A g \in Handlers : SameWork(job[g], job'[g], n)
<1>1. job[h].op = "upload" /\ job[h].todo = {} /\ job[h].gone = {}
  BY DEF UploadJob
<1>2. /\ \A g \in Handlers \ {h} : job'[g] = job[g]
      /\ job'[h].op = job[h].op /\ job'[h].client = job[h].client
      /\ job'[h].name = job[h].name /\ job'[h].dir = job[h].dir /\ job'[h].pic = job[h].pic
      /\ job'[h].todo = job[h].todo /\ job'[h].gone = job[h].gone
  BY <1>1, NextStep
<1>3. SameWork(job[h], job'[h], n)
  BY <1>1, <1>2 DEF SameWork, SameHold, SameAway, SameRender, InHand
<1> QED BY <1>2, <1>3, OneStep

\* The end of another name's upload, or rendering, does too.
LEMMA OtherEnds ==
    ASSUME TypeInv, NEW h \in Handlers, Done(h), NEW n \in Names, ~InHand(job[h], n)
    PROVE  \A g \in Handlers : SameWork(job[g], job'[g], n)
<1>1. /\ job'[h] = Idle /\ \A g \in Handlers \ {h} : job'[g] = job[g]
  BY DoneStep
<1>2. ~InHand(job'[h], n)
  BY <1>1, HandOfOneName
<1> QED BY <1>1, <1>2, OtherName, OneStep

LEMMA ClaimKeeps ==
    ASSUME TypeInv, NEW h \in Handlers, NEW c \in Clients, Claim(h, c),
           NEW n \in Names, NameInv(n), n \notin marred'
    PROVE  NameInv(n)'
<1> DEFINE i == Len(by) + 1
           m == NameFor(i)
           d == IF c \in Ingesters THEN "models" ELSE "uploads"
           j == [Idle EXCEPT !.op = "upload", !.at = "save", !.client = c,
                             !.name = m, !.dir = d, !.pic = i]
<1>1. /\ job[h] = Idle /\ i <= MaxUploads /\ by' = Append(by, c) /\ disk' = [disk EXCEPT ![<<d, m>>] = i]
      /\ job' = [job EXCEPT ![h] = j] /\ marred' = marred \cup {k \in {m} : Removing(k)}
      /\ saved' = saved /\ rows' = rows /\ tabs' = tabs /\ listed' = listed
      /\ renderer' = renderer /\ cached' = cached /\ warm' = warm
  BY DEF Claim, Mark
<1>2. by \in Seq(Clients) /\ Len(by) \in Nat
  BY DEF TypeInv, TypeOK
<1>3. by'[i] = c /\ \A k \in 1..Len(by) : by'[k] = by[k]
  BY <1>1, <1>2
<1>4. /\ j.op = "upload" /\ j.at = "save" /\ j.client = c /\ j.name = m /\ j.dir = d /\ j.pic = i
      /\ j.todo = {} /\ j.gone = {}
  BY DEF Idle
<1>5. m \in Names /\ ~There(m) /\ ~Published(m) /\ ~HasRow(m)
  BY <1>1, NameIsFree
<1>6. d \in {"models", "uploads"} /\ i # NoFile
  BY <1>2, NumbersType
<1>7. saved \subseteq 1..Len(by) /\ i \notin saved
  <2>1. saved \subseteq 1..Len(by)
    BY DEF TypeInv, Numbered
  <2> QED BY <1>2, <2>1
<1>8. There(n) => by'[disk[Upload(n)]] = by[disk[Upload(n)]]
  <2>1. Upload(n) \in Paths
    BY PathsType
  <2>2. disk[Upload(n)] \in Nat /\ disk[Upload(n)] <= Len(by)
    BY <2>1, NumbersType DEF TypeInv, TypeOK, Numbered
  <2> QED BY <1>2, <1>3, <2>2, NumbersType DEF There
<1> HIDE DEF i, m, d, j
<1>9. job'[h] = j /\ \A g \in Handlers \ {h} : job'[g] = job[g]
  BY <1>1 DEF TypeInv, TypeOK
<1>10. /\ disk'[Upload(n)] = IF n = m /\ d = "uploads" THEN i ELSE disk[Upload(n)]
       /\ disk'[<<"models", n>>] = IF n = m /\ d = "models" THEN i ELSE disk[<<"models", n>>]
  BY <1>1, <1>5, <1>6, PathsType DEF Upload, TypeInv, TypeOK
<1>11. CASE n # m
  <2>1. ~InHand(job[h], n) /\ ~InHand(job'[h], n)
    BY <1>1, <1>4, <1>9, <1>11, HandOfOneName DEF InHand
  <2>2. \A g \in Handlers : SameWork(job[g], job'[g], n)
    BY <1>9, <2>1, OtherName, OneStep
  <2>3. SameFiles(n) /\ SameRows(n) /\ SameTabs(n) /\ SavedInHand(n) /\ SameKept(n)
    BY <1>1, <1>8, <1>10, <1>11 DEF SameFiles, SameRows, SameTabs, SavedInHand, SameKept
  <2> QED BY <2>2, <2>3, NothingOfName
<1>12. CASE n = m
  <2>1. ~Removing(n)
    BY <1>1, <1>12
  <2>2. /\ \A g \in Handlers : ~InHand(job[g], n)
        /\ ~HasTab(n) /\ cached[n] = NoFile /\ renderer[Upload(n)] = NoFile
    BY <1>5, <1>12, <2>1, AboutInHand DEF NameInv, Clean
  <2>3. /\ disk'[Upload(n)] = IF d = "uploads" THEN i ELSE NoFile
        /\ disk'[<<"models", n>>] = IF d = "models" THEN i ELSE NoFile
    BY <1>5, <1>10, <1>12 DEF There, Published
  <2>4. OneFile(n)'
    BY <1>6, <2>3 DEF OneFile, There, Published
  <2>5. Held(n)'
    <3> SUFFICES ASSUME NEW g \in Handlers, job'[g].op = "upload", job'[g].name = n
                 PROVE  disk'[<<job'[g].dir, n>>] = job'[g].pic
      BY DEF Held, Uploading
    <3>1. g = h
      BY <1>9, <2>2 DEF InHand
    <3> QED BY <1>4, <1>6, <1>9, <2>3, <3>1 DEF Upload
  <2>6. /\ \A g \in Handlers : n \notin job'[g].todo
        /\ \A g \in Handlers : n \notin job'[g].gone
    BY <1>4, <1>9, <2>2 DEF InHand
  <2>7. ~HasTab(n)' /\ ~HasRow(n)' /\ (There(n)' \/ Published(n)')
    BY <1>1, <1>5, <1>6, <1>12, <2>2, <2>3 DEF HasTab, HasRow, There, Published
  <2>8. OneTab(n)'
    BY <2>6, <2>7 DEF OneTab, HasTab, CleaningUp
  <2>9. Removed(n)' /\ Clean(n)'
    BY <2>6, <2>7 DEF Removed, Clean
  <2>10. SenderOnly(n)'
    BY <2>7 DEF SenderOnly, HasRow, HasTab
  <2>11. Kept1(n)'
    <3>1. \A g \in Handlers : ~(job'[g].op = "render" /\ job'[g].name = n)
      BY <1>4, <1>9, <2>2 DEF InHand
    <3> QED BY <1>1, <2>2, <3>1 DEF Kept1, Rendering
  <2>12. HasOwner(n)'
    BY <1>4, <1>9, <1>12 DEF HasOwner, Uploading
  <2> QED BY <2>4, <2>5, <2>8, <2>9, <2>10, <2>11, <2>12 DEF NameInv
<1> QED BY <1>11, <1>12

LEMMA SaveKeeps ==
    ASSUME TypeInv, NEW h \in Handlers, Save(h), NEW n \in Names, NameInv(n)
    PROVE  NameInv(n)'
<1> DEFINE m == job[h].name
           d == job[h].dir
           i == job[h].pic
<1>1. job[h].at = "save" /\ UploadJob(job[h])
  BY AtStep DEF Save
<1>2. /\ disk' = [disk EXCEPT ![<<d, m>>] = i] /\ saved' = saved \cup {i}
      /\ by' = by /\ rows' = rows /\ tabs' = tabs /\ listed' = listed
      /\ renderer' = renderer /\ cached' = cached /\ Go(h, "register")
  BY DEF Save
<1>3. \A g \in Handlers : SameWork(job[g], job'[g], n)
  BY <1>1, <1>2, UploadGoesOn
<1>4. m \in Names /\ job[h].op = "upload" /\ Uploading(h)
  BY <1>1 DEF UploadJob, Uploading
<1>5. \A p \in Paths : disk[p] = i => p = <<d, m>>
  BY <1>4 DEF TypeInv, Numbered
<1>6. n = m => disk[<<d, n>>] = i
  BY <1>1, UploadHasFile
<1>7. Upload(n) \in Paths /\ <<"models", n>> \in Paths
  BY PathsType
<1> HIDE DEF d, m, i
<1>8. disk'[Upload(n)] = disk[Upload(n)] /\ disk'[<<"models", n>>] = disk[<<"models", n>>]
  BY <1>2, <1>6, <1>7 DEF Upload, TypeInv, TypeOK
<1>9. There(n) /\ disk[Upload(n)] \in saved' =>
        disk[Upload(n)] \in saved \/ \E g \in Handlers : job[g].op = "upload" /\ job[g].name = n
  <2>1. disk[Upload(n)] = i => n = m
    BY <1>5, <1>7 DEF Upload
  <2> QED BY <1>2, <1>4, <2>1 DEF m
<1>10. SameFiles(n) /\ SameRows(n) /\ SameTabs(n) /\ SavedInHand(n) /\ SameKept(n)
  BY <1>2, <1>8, <1>9 DEF SameFiles, SameRows, SameTabs, SavedInHand, SameKept
<1> QED BY <1>3, <1>10, NothingOfName

LEMMA SaveFailsKeeps ==
    ASSUME TypeInv, NEW h \in Handlers, SaveFails(h), NEW n \in Names, NameInv(n)
    PROVE  NameInv(n)'
<1>1. job[h].at = "save" /\ UploadJob(job[h]) /\ Done(h)
  BY AtStep DEF SaveFails
<1>2. UNCHANGED <<store, listed, renderer, cached>>
  BY DEF SaveFails
<1>3. SameFiles(n) /\ SameRows(n) /\ SameTabs(n) /\ SavedInHand(n) /\ SameKept(n)
  BY <1>2, StoreSame DEF SameKept
<1>4. CASE job[h].name # n
  <2>1. ~InHand(job[h], n)
    BY <1>1, <1>4, HandOfOneName
  <2> QED BY <1>1, <1>3, <2>1, OtherEnds, NothingOfName
<1>5. CASE job[h].name = n
  <2>1. HasOwner(n)'
    <3>1. There(n) => disk[Upload(n)] = job[h].pic
      BY <1>1, <1>5, UploadHasFile DEF UploadJob
    <3>2. job[h].pic \notin saved
      BY <1>1 DEF TypeInv, Numbered, Uploading, UploadJob
    <3> QED BY <1>2, <3>1, <3>2 DEF HasOwner, There, store
  <2> QED BY <1>1, <1>3, <1>5, <2>1, DoneStep, UploadEnds DEF SameTabs
<1> QED BY <1>4, <1>5

LEMMA RegisterKeeps ==
    ASSUME TypeInv, NEW h \in Handlers, Register(h), NEW n \in Names, NameInv(n)
    PROVE  NameInv(n)'
<1> DEFINE s == Cookie[job[h].client]
<1>1. job[h].at = "register" /\ UploadJob(job[h])
  BY AtStep DEF Register
<1>2. /\ by' = by /\ saved' = saved /\ disk' = disk /\ tabs' = tabs /\ listed' = listed
      /\ renderer' = renderer /\ cached' = cached /\ Go(h, "relist")
      /\ rows' = rows \/ rows' = rows \cup {<<s, job[h].name>>}
  BY DEF Register
<1>3. \A g \in Handlers : SameWork(job[g], job'[g], n)
  BY <1>1, <1>2, UploadGoesOn
<1>4. SameFiles(n) /\ SameTabs(n) /\ SavedInHand(n) /\ SameKept(n)
  BY <1>2 DEF SameFiles, SameTabs, SavedInHand, SameKept
<1>5. CASE SameRows(n)
  BY <1>3, <1>4, <1>5, NothingOfName
<1>6. CASE ~SameRows(n)
  <2>1. job[h].name = n
    BY <1>2, <1>6 DEF SameRows
  <2>2. /\ There(n) \/ Published(n)
        /\ There(n) => by[disk[Upload(n)]] = job[h].client
        /\ \A g \in Handlers : n \notin job[g].gone
        /\ job[h].op = "upload"
    BY <1>1, <2>1, UploadHasFile DEF UploadJob
  <2>3. \A g \in Handlers : /\ SameHold(job[g], job'[g], n) /\ SameAway(job[g], job'[g], n)
                            /\ SameRender(job[g], job'[g], n)
    BY <1>3 DEF SameWork
  <2>4. \A g \in Handlers : /\ job'[g].op = "upload" /\ job'[g].name = n <=> job[g].op = "upload" /\ job[g].name = n
                            /\ job[g].op = "upload" /\ job[g].name = n => job'[g].dir = job[g].dir /\ job'[g].pic = job[g].pic
                            /\ job'[g].op = "cleanup" /\ n \in job'[g].todo <=> job[g].op = "cleanup" /\ n \in job[g].todo
                            /\ n \notin job'[g].gone
    BY <2>2, <2>3 DEF SameHold, SameAway
  <2>5. OneFile(n)' /\ Held(n)'
    BY <1>2, <2>4 DEF NameInv, OneFile, Held, There, Published, Uploading
  <2>6. OneTab(n)'
    BY <1>2, <2>4 DEF NameInv, OneTab, HasTab, Uploading, CleaningUp
  <2>7. Removed(n)' /\ Clean(n)'
    BY <1>2, <2>2, <2>4 DEF Removed, Clean, There, Published
  <2>8. SenderOnly(n)'
    BY <1>2, <2>2 DEF NameInv, SenderOnly, There
  <2>9. Kept1(n)'
    BY <1>4, <2>3, KeptKept DEF NameInv
  <2>10. HasOwner(n)'
    BY <2>1, <2>2, <2>4 DEF HasOwner, Uploading
  <2> QED BY <2>5, <2>6, <2>7, <2>8, <2>9, <2>10 DEF NameInv
<1> QED BY <1>5, <1>6

LEMMA RelistPublishKeep ==
    ASSUME TypeInv, NEW h \in Handlers, Relist(h) \/ Publish(h), NEW n \in Names, NameInv(n)
    PROVE  NameInv(n)'
<1>1. UploadJob(job[h]) /\ UNCHANGED store /\ UNCHANGED renderer
  BY AtStep DEF Relist, Publish
<1>2. listed' \in {listed, OnDisk} /\ cached'[n] \in {NoFile, cached[n]}
  BY DEF Relist, Publish, Emptied
<1>3. SameFiles(n) /\ SameRows(n) /\ SameTabs(n) /\ SavedInHand(n) /\ SameKept(n)
  BY <1>1, <1>2, StoreSame, RelistKeeps DEF SameKept
<1>4. \/ Go(h, "publish")
      \/ Go(h, "tab") /\ job[h].client \notin Ingesters
      \/ Done(h) /\ job[h].client \in Ingesters
  BY DEF Relist, Publish
<1>5. CASE Go(h, "publish") \/ (Go(h, "tab") /\ job[h].client \notin Ingesters)
  BY <1>1, <1>3, <1>5, UploadGoesOn, NothingOfName
<1>6. CASE Done(h) /\ job[h].client \in Ingesters /\ job[h].name # n
  <2>1. ~InHand(job[h], n)
    BY <1>1, <1>6, HandOfOneName
  <2> QED BY <1>3, <1>6, <2>1, OtherEnds, NothingOfName
<1>7. CASE Done(h) /\ job[h].client \in Ingesters /\ job[h].name = n
  <2>1. ~There(n)
    BY <1>1, <1>7, UploadHasFile DEF UploadJob
  <2>2. HasOwner(n)'
    BY <1>1, <2>1 DEF HasOwner, There, store
  <2> QED BY <1>1, <1>3, <1>7, <2>2, DoneStep, UploadEnds DEF SameTabs
<1> QED BY <1>4, <1>5, <1>6, <1>7

LEMMA RegisterTabKeeps ==
    ASSUME TypeInv, NEW h \in Handlers, RegisterTab(h), NEW n \in Names, NameInv(n)
    PROVE  NameInv(n)'
<1>1. job[h].at = "tab" /\ UploadJob(job[h]) /\ Done(h)
  BY AtStep DEF RegisterTab
<1>2. /\ by' = by /\ saved' = saved /\ disk' = disk /\ rows' = rows /\ listed' = listed
      /\ renderer' = renderer /\ cached' = cached
      /\ tabs' = [tabs EXCEPT ![job[h].client] = @ \cup {job[h].name}]
  BY DEF RegisterTab
<1>3. /\ job[h].client \in Clients /\ job[h].dir = "uploads"
      /\ tabs \in [Clients -> SUBSET Names]
  BY <1>1 DEF UploadJob, TypeInv, TypeOK
<1>4. SameFiles(n) /\ SameRows(n) /\ SavedInHand(n) /\ SameKept(n)
  BY <1>2 DEF SameFiles, SameRows, SavedInHand, SameKept
<1>5. CASE job[h].name # n
  <2>1. ~InHand(job[h], n)
    BY <1>1, <1>5, HandOfOneName
  <2>2. SameTabs(n)
    BY <1>2, <1>3, <1>5 DEF SameTabs
  <2> QED BY <1>1, <1>4, <2>1, <2>2, OtherEnds, NothingOfName
<1>6. CASE job[h].name = n
  <2>1. HasOwner(n)'
    BY <1>2, <1>3, <1>6 DEF HasOwner, HasTab
  <2>2. \A c \in Clients : n \in tabs'[c] => n \in tabs[c] \/ (c = job[h].client /\ job[h].dir = "uploads")
    BY <1>2, <1>3
  <2> QED BY <1>1, <1>4, <1>6, <2>1, <2>2, DoneStep, UploadEnds
<1> QED BY <1>5, <1>6

-----------------------------------------------------------------------------
(* The steps of a removal *)

LEMMA FindOwnedKeeps ==
    ASSUME TypeInv, NEW h \in Handlers, NEW c \in Clients, NEW m \in Names, FindOwned(h, c, m),
           NEW n \in Names, NameInv(n), n \notin marred'
    PROVE  NameInv(n)'
<1>1. /\ job[h] = Idle /\ <<Cookie[c], m>> \in rows
      /\ UNCHANGED <<store, listed, renderer, cached>>
      /\ marred' = marred \cup {k \in {m} : Removing(k)}
  BY DEF FindOwned, Mark
<1>2. /\ \A g \in Handlers \ {h} : job'[g] = job[g]
      /\ job'[h].op = "delete" /\ job'[h].at = "unlink" /\ job'[h].name = None
      /\ job'[h].todo = {m} /\ job'[h].gone = {}
  BY FindOwnedJob
<1>3. SameFiles(n) /\ SameRows(n) /\ SameTabs(n) /\ SavedInHand(n) /\ SameKept(n)
  BY <1>1, StoreSame DEF SameKept
<1>4. ~InHand(job[h], n)
  BY <1>1, HandOfOneName
<1>5. CASE n # m
  <2>1. ~InHand(job'[h], n)
    BY <1>2, <1>5, NumbersType DEF InHand
  <2> QED BY <1>2, <1>3, <1>4, <2>1, OtherName, OneStep, NothingOfName
<1>6. CASE n = m
  <2>1. HasRow(n)
    BY <1>1, <1>6 DEF TypeInv, TypeOK, HasRow
  <2>2. \A g \in Handlers : n \notin job'[g].gone
    BY <1>1, <1>2, <1>6 DEF Removing
  <2>3. \A g \in Handlers : SameHold(job[g], job'[g], n) /\ SameRender(job[g], job'[g], n)
    <3> SUFFICES ASSUME NEW g \in Handlers
                 PROVE  SameHold(job[g], job'[g], n) /\ SameRender(job[g], job'[g], n)
      OBVIOUS
    <3>1. CASE g = h
      BY <1>1, <1>2, <3>1, IdleHasNothing DEF SameHold, SameRender
    <3>2. CASE g # h
      BY <1>2, <3>2, SameJob DEF SameWork
    <3> QED BY <3>1, <3>2
  <2>4. OneFile(n)' /\ Held(n)' /\ OneTab(n)' /\ SenderOnly(n)' /\ HasOwner(n)'
    BY <1>3, <2>3, FilesKept
  <2>5. Removed(n)' /\ Clean(n)'
    BY <1>3, <2>1, <2>2 DEF Removed, Clean, SameRows, HasRow
  <2>6. Kept1(n)'
    BY <1>3, <2>3, KeptKept DEF NameInv
  <2> QED BY <2>4, <2>5, <2>6 DEF NameInv
<1> QED BY <1>5, <1>6

LEMMA PopTabKeeps ==
    ASSUME TypeInv, NEW h \in Handlers, NEW c \in Clients, PopTab(h, c),
           NEW n \in Names, NameInv(n), n \notin marred'
    PROVE  NameInv(n)'
<1>1. /\ job[h] = Idle /\ tabs' = [tabs EXCEPT ![c] = {}]
      /\ by' = by /\ saved' = saved /\ disk' = disk /\ rows' = rows /\ listed' = listed
      /\ renderer' = renderer /\ cached' = cached
      /\ marred' = marred \cup {k \in tabs[c] : Removing(k)}
  BY DEF PopTab, Mark
<1>2. /\ \A g \in Handlers \ {h} : job'[g] = job[g]
      /\ job'[h].op = "cleanup" /\ job'[h].at = "unlink" /\ job'[h].name = None
      /\ job'[h].todo = tabs[c] /\ job'[h].gone = {}
  BY PopTabJob
<1>3. SameFiles(n) /\ SameRows(n) /\ SavedInHand(n) /\ SameKept(n)
  BY <1>1 DEF SameFiles, SameRows, SavedInHand, SameKept
<1>4. ~InHand(job[h], n) /\ job[h].op = "none"
  BY <1>1, HandOfOneName, IdleHasNothing
<1>5. \A e \in Clients : tabs'[e] = IF e = c THEN {} ELSE tabs[e]
  BY <1>1 DEF TypeInv, TypeOK
<1>6. CASE n \notin tabs[c]
  <2>1. ~InHand(job'[h], n)
    BY <1>2, <1>6, NumbersType DEF InHand
  <2>2. SameTabs(n)
    BY <1>5, <1>6 DEF SameTabs
  <2> QED BY <1>2, <1>3, <1>4, <2>1, <2>2, OtherName, OneStep, NothingOfName
<1>7. CASE n \in tabs[c]
  <2>1. \A g \in Handlers : n \notin job'[g].gone
    BY <1>1, <1>2, <1>7 DEF Removing
  <2>2. ~HasTab(n)'
    BY <1>5, <1>7 DEF NameInv, OneTab, HasTab
  <2>3. /\ HasTab(n)
        /\ \A g \in Handlers : ~(job[g].op = "upload" /\ job[g].name = n)
    BY <1>7 DEF NameInv, OneTab, HasTab, Uploading
  <2>4. \A g \in Handlers : ~(job'[g].op = "upload" /\ job'[g].name = n)
    BY <1>2, <2>3
  <2>5. OneFile(n)' /\ Held(n)'
    BY <1>1, <2>4 DEF NameInv, OneFile, Held, There, Published, Uploading
  <2>6. OneTab(n)'
    BY <2>2, <2>4 DEF OneTab, HasTab, Uploading
  <2>7. Removed(n)'
    BY <2>1 DEF Removed
  <2>8. Clean(n)'
    <3>1. ~Removing(n)
      BY <1>2, <1>4, <2>1 DEF Removing, InHand
    <3> QED BY <1>1, <2>3, <3>1 DEF NameInv, Clean, There, Published, HasRow
  <2>9. SenderOnly(n)'
    BY <1>1, <1>5 DEF NameInv, SenderOnly, There
  <2>10. Kept1(n)'
    <3>1. \A g \in Handlers : SameRender(job[g], job'[g], n)
      BY <1>2, SameJob DEF SameRender, SameWork
    <3> QED BY <1>3, <3>1, KeptKept DEF NameInv
  <2>11. HasOwner(n)'
    BY <1>2, <1>7 DEF HasOwner, CleaningUp
  <2> QED BY <2>5, <2>6, <2>7, <2>8, <2>9, <2>10, <2>11 DEF NameInv
<1> QED BY <1>6, <1>7

LEMMA UnlinkKeeps ==
    ASSUME TypeInv, NEW h \in Handlers, NEW m \in Names, Unlink(h, m),
           NEW n \in Names, NameInv(n), n \notin marred'
    PROVE  NameInv(n)'
<1>1. /\ disk' = [disk EXCEPT ![Upload(m)] = NoFile]
      /\ by' = by /\ saved' = saved /\ rows' = rows /\ tabs' = tabs /\ listed' = listed
      /\ renderer' = renderer /\ cached' = cached
  BY DEF Unlink
<1>2. /\ \A g \in Handlers \ {h} : job'[g] = job[g]
      /\ job'[h].op = job[h].op /\ job'[h].at \in {"unlink", "forget"}
      /\ job[h].op \in {"delete", "cleanup"}
      /\ job[h].name = None /\ job'[h].name = None
      /\ m \in job[h].todo /\ m \notin job[h].gone
      /\ job'[h].todo = job[h].todo \ {m}
      /\ job'[h].gone = job[h].gone \cup {k \in {m} : There(m) \/ job[h].op = "delete"}
  BY UnlinkJob
<1>3. /\ disk'[Upload(n)] = IF n = m THEN NoFile ELSE disk[Upload(n)]
      /\ disk'[<<"models", n>>] = disk[<<"models", n>>]
  BY <1>1, PathsType DEF TypeInv, TypeOK
<1>4. CASE n # m
  <2>1. SameWork(job[h], job'[h], n)
    BY <1>2, <1>4 DEF SameWork, SameHold, SameAway, SameRender, InHand
  <2>2. SameFiles(n) /\ SameRows(n) /\ SameTabs(n) /\ SavedInHand(n) /\ SameKept(n)
    BY <1>1, <1>3, <1>4 DEF SameFiles, SameRows, SameTabs, SavedInHand, SameKept
  <2> QED BY <1>2, <2>1, <2>2, OneStep, NothingOfName
<1>5. CASE n = m
  <2>1. \A g \in Handlers : n \notin job[g].gone
    <3> SUFFICES ASSUME NEW g \in Handlers, n \in job[g].gone PROVE FALSE
      OBVIOUS
    <3>1. InHand(job[h], n)
      BY <1>2, <1>5 DEF InHand
    <3>2. g = h
      BY <3>1, RemoverIsAlone DEF NameInv
    <3> QED BY <1>2, <1>5, <3>2
  <2>2. ~There(n)'
    BY <1>3, <1>5 DEF There
  <2>3. SenderOnly(n)' /\ Kept1(n)' /\ HasOwner(n)' /\ OneFile(n)'
    BY <2>2 DEF SenderOnly, Kept1, HasOwner, OneFile
  <2>4. CASE There(n) \/ job[h].op = "delete"
    <3>1. n \in job'[h].gone
      BY <1>2, <1>5, <2>4
    <3>2. \A g \in Handlers \ {h} : ~InHand(job[g], n)
      <4>1. marred' = marred \cup {k \in (job[h].gone \cup {x \in {m} : There(m) \/ job[h].op = "delete"}) \ job[h].gone : Crossing(h, k)}
        BY DEF Unlink, Mark, There
      <4>2. ~Crossing(h, n)
        BY <1>2, <1>5, <2>1, <2>4, <4>1
      <4> QED BY <4>2, AboutInHand DEF Crossing
    <3>3. \A g \in Handlers \ {h} : ~InHand(job'[g], n)
      BY <1>2, <3>2
    <3>4. Held(n)' /\ OneTab(n)'
      <4>1. \A g \in Handlers : ~(job'[g].op = "upload" /\ job'[g].name = n)
        BY <1>2, <3>3 DEF InHand
      <4>2. \A g \in Handlers : ~(job'[g].op = "cleanup" /\ n \in job'[g].todo)
        BY <1>2, <1>5, <3>3 DEF InHand
      <4>3. \A d, e \in Clients : n \in tabs'[d] /\ n \in tabs'[e] => d = e
        BY <1>1 DEF NameInv, OneTab
      <4> QED BY <4>1, <4>2, <4>3 DEF Held, OneTab, Uploading, CleaningUp
    <3>5. Removed(n)'
      <4> SUFFICES ASSUME NEW g \in Handlers, n \in job'[g].gone
                   PROVE  /\ ~There(n)'
                          /\ \A k \in Handlers \ {g} : ~About(k, n)'
                          /\ job'[g].at \in {"untab", "drop", "clear"} => ~HasRow(n)'
                          /\ job'[g].op = "cleanup" \/ job'[g].at \in {"drop", "clear"} => ~HasTab(n)'
                          /\ job'[g].at = "clear" => renderer'[Upload(n)] = NoFile
        BY DEF Removed, CleaningUp
      <4>1. g = h
        BY <3>3 DEF InHand
      <4>2. job[h].op = "cleanup" => ~HasTab(n)
        BY <1>2, <1>5 DEF NameInv, OneTab, CleaningUp
      <4> QED BY <1>1, <1>2, <2>2, <3>3, <4>1, <4>2, AboutInHand DEF HasTab
    <3>6. Clean(n)'
      BY <3>1 DEF Clean, Removing
    <3> QED BY <2>3, <3>4, <3>5, <3>6 DEF NameInv
  <2>5. CASE ~There(n) /\ job[h].op # "delete"
    <3>1. disk'[Upload(n)] = disk[Upload(n)]
      BY <1>3, <1>5, <2>5 DEF There
    <3>2. \A g \in Handlers : n \notin job'[g].gone
      BY <1>2, <1>5, <2>1, <2>5
    <3>3. /\ There(n)' <=> There(n)
          /\ Published(n)' <=> Published(n)
          /\ HasRow(n)' <=> HasRow(n)
          /\ HasTab(n)' <=> HasTab(n)
      BY <1>1, <1>3, <3>1 DEF There, Published, HasRow, HasTab
    <3>4. \A g \in Handlers : /\ job'[g].op = job[g].op /\ job'[g].name = job[g].name
                              /\ n \in job'[g].todo => n \in job[g].todo
                              /\ job[g].op = "upload" => job'[g] = job[g]
      BY <1>2
    <3>5. Held(n)'
      BY <1>3, <3>1, <3>4, AtStep DEF NameInv, Held, Uploading, UploadJob, Upload
    <3>6. OneTab(n)'
      BY <1>1, <3>3, <3>4 DEF NameInv, OneTab, Uploading, CleaningUp
    <3>7. Removed(n)' /\ Clean(n)'
      <4>1. Removing(n) <=> FALSE
        BY <2>1 DEF Removing
      <4>2. InHand(job[h], n)
        BY <1>2, <1>5 DEF InHand
      <4>3. There(n) \/ Published(n) \/ HasRow(n)
        BY <4>1, <4>2, AboutInHand DEF NameInv, Clean
      <4> QED BY <3>2, <3>3, <4>3 DEF Removed, Clean
    <3> QED BY <2>3, <3>5, <3>6, <3>7 DEF NameInv
  <2> QED BY <2>4, <2>5
<1> QED BY <1>4, <1>5

LEMMA UnlinkFailsKeeps ==
    ASSUME TypeInv, NEW h \in Handlers, NEW m \in Names, UnlinkFails(h, m),
           NEW n \in Names, NameInv(n), n \notin marred'
    PROVE  NameInv(n)'
<1>1. /\ UNCHANGED <<store, listed, renderer, cached>> /\ There(m)
      /\ job[h].at = "unlink" /\ marred' = marred \cup {k \in {m} : job[h].op = "cleanup"}
  BY DEF UnlinkFails, Mark, There
<1>2. /\ \A g \in Handlers \ {h} : job'[g] = job[g]
      /\ m \in job[h].todo /\ job[h].name = None /\ job'[h].name = None
      /\ \/ job[h].op = "delete" /\ job[h].gone = {} /\ job'[h] = Idle
         \/ /\ job[h].op = "cleanup" /\ job'[h].op = "cleanup"
            /\ job'[h].at \in {"unlink", "forget"}
            /\ job'[h].todo = job[h].todo \ {m} /\ job'[h].gone = job[h].gone
  BY UnlinkFailsJob
<1>3. SameFiles(n) /\ SameRows(n) /\ SameTabs(n) /\ SavedInHand(n) /\ SameKept(n)
  BY <1>1, StoreSame DEF SameKept
<1>4. n # None
  BY NumbersType
<1>5. CASE job[h].op = "delete"
  <2>1. job'[h] = Idle /\ job[h].gone = {}
    BY <1>2, <1>5
  <2>2. \A k \in job[h].todo : k = m
    BY <1>1, <1>2, <1>5, AtStep DEF DeleteJob
  <2>3. CASE n # m
    <3>1. ~InHand(job[h], n) /\ ~InHand(job'[h], n)
      BY <1>2, <1>4, <2>1, <2>2, <2>3, IdleHasNothing DEF InHand
    <3> QED BY <1>2, <1>3, <3>1, OtherName, OneStep, NothingOfName
  <2>4. CASE n = m
    <3>1. There(n)
      BY <1>1, <2>4
    <3>2. SameHold(job[h], job'[h], n) /\ SameRender(job[h], job'[h], n)
      BY <1>5, <2>1, IdleHasNothing DEF SameHold, SameRender
    <3>3. \A g \in Handlers : SameHold(job[g], job'[g], n) /\ SameRender(job[g], job'[g], n)
      <4> SUFFICES ASSUME NEW g \in Handlers
                   PROVE  SameHold(job[g], job'[g], n) /\ SameRender(job[g], job'[g], n)
        OBVIOUS
      <4>1. CASE g = h
        BY <3>2, <4>1
      <4>2. CASE g # h
        BY <1>2, <4>2, SameJob DEF SameWork
      <4> QED BY <4>1, <4>2
    <3>4. OneFile(n)' /\ Held(n)' /\ OneTab(n)' /\ SenderOnly(n)' /\ HasOwner(n)' /\ Kept1(n)'
      BY <1>3, <3>3, FilesKept, KeptKept DEF NameInv
    <3>5. There(n)'
      BY <1>3, <3>1 DEF SameFiles, There
    <3>6. \A g \in Handlers : n \notin job'[g].gone
      BY <1>2, <2>1, <3>1, IdleHasNothing DEF NameInv, Removed
    <3>7. Removed(n)' /\ Clean(n)'
      BY <3>5, <3>6 DEF Removed, Clean
    <3> QED BY <3>4, <3>7 DEF NameInv
  <2> QED BY <2>3, <2>4
<1>6. CASE job[h].op = "cleanup"
  <2>1. n # m
    BY <1>1, <1>6
  <2>2. SameWork(job[h], job'[h], n)
    BY <1>2, <1>6, <2>1 DEF SameWork, SameHold, SameAway, SameRender, InHand
  <2> QED BY <1>2, <1>3, <2>2, OneStep, NothingOfName
<1> QED BY <1>2, <1>5, <1>6

\* What the request of a removal that has taken its files away has in hand.
LEMMA RemoverHand ==
    ASSUME TypeInv, NEW h \in Handlers, job[h].at \in {"forget", "untab", "drop", "clear"}
    PROVE  /\ job[h].op \in {"delete", "cleanup"} /\ job[h].todo = {} /\ job[h].name = None
           /\ job[h].at = "untab" => job[h].op = "delete"
           /\ \A n \in Names : InHand(job[h], n) <=> n \in job[h].gone
<1>1. DeleteJob(job[h]) \/ CleanupJob(job[h])
  BY AtStep
<1>2. job[h].op \in {"delete", "cleanup"} /\ job[h].todo = {} /\ job[h].name = None
  BY <1>1 DEF DeleteJob, CleanupJob
<1>3. job[h].at = "untab" => job[h].op = "delete"
  BY AtStep DEF DeleteJob
<1> QED BY <1>2, <1>3, NumbersType DEF InHand

\* The names it has not taken away are left as they were, whether it goes on or ends.
LEMMA RemovalOfOthers ==
    ASSUME TypeInv, NEW h \in Handlers, job[h].at \in {"forget", "untab", "drop", "clear"},
           NEW n \in Names, n \notin job[h].gone, job'[h] = Idle \/ job'[h].gone = job[h].gone,
           job'[h] = Idle \/ job'[h].todo = job[h].todo, job'[h].name = None,
           \A g \in Handlers \ {h} : job'[g] = job[g],
           NameInv(n), SameFiles(n), SameRows(n), SameTabs(n), SavedInHand(n), SameKept(n)
    PROVE  NameInv(n)'
<1>1. ~InHand(job[h], n) /\ job[h].todo = {}
  BY RemoverHand
<1>2. ~InHand(job'[h], n)
  BY <1>1, IdleHasNothing, NumbersType DEF InHand
<1> QED BY <1>1, <1>2, OtherName, OneStep, NothingOfName

\* A name whose file has been taken away: what is left to keep is that nothing is left.
LEMMA RemovalOfOwn ==
    ASSUME TypeInv, NEW h \in Handlers, job[h].at \in {"forget", "untab", "drop", "clear"},
           NEW n \in Names, n \in job[h].gone, NameInv(n),
           \A g \in Handlers \ {h} : job'[g] = job[g],
           job'[h].op \in {job[h].op, "none"}, job'[h].todo = {},
           disk' = disk, \A c \in Clients : n \in tabs'[c] => n \in tabs[c]
    PROVE  /\ ~There(n)' /\ (HasTab(n)' => HasTab(n))
           /\ \A g \in Handlers \ {h} : ~About(g, n) /\ ~About(g, n)'
           /\ OneFile(n)' /\ Held(n)' /\ OneTab(n)' /\ SenderOnly(n)' /\ Kept1(n)' /\ HasOwner(n)'
<1>1. ~There(n) /\ \A g \in Handlers \ {h} : ~About(g, n)
  BY DEF NameInv, Removed
<1>2. ~There(n)' /\ (HasTab(n)' => HasTab(n))
  BY <1>1 DEF There, HasTab
<1>3. \A g \in Handlers \ {h} : ~About(g, n)'
  BY <1>1, AboutInHand
<1>4. job[h].op \in {"delete", "cleanup"}
  BY RemoverHand
<1>5. \A g \in Handlers : ~(job'[g].op = "upload" /\ job'[g].name = n)
  <2>1. job'[h].op # "upload"
    BY <1>4
  <2>2. \A g \in Handlers \ {h} : job'[g].name # n
    BY <1>3, AboutInHand DEF InHand
  <2> QED BY <2>1, <2>2
<1>6. \A g \in Handlers : n \notin job'[g].todo
  <2>1. \A g \in Handlers \ {h} : n \notin job'[g].todo
    BY <1>3, AboutInHand DEF InHand
  <2> QED BY <2>1
<1>7. OneTab(n)'
  BY <1>5, <1>6 DEF NameInv, OneTab, Uploading
<1> QED BY <1>1, <1>2, <1>3, <1>5, <1>7 DEF OneFile, Held, SenderOnly, Kept1, HasOwner, Uploading

LEMMA ForgetKeeps ==
    ASSUME TypeInv, NEW h \in Handlers, Forget(h), NEW n \in Names, NameInv(n)
    PROVE  NameInv(n)'
<1>1. /\ job[h].at = "forget" /\ rows' = {r \in rows : r[2] \notin job[h].gone}
      /\ by' = by /\ saved' = saved /\ disk' = disk /\ tabs' = tabs /\ listed' = listed
      /\ renderer' = renderer /\ cached' = cached
      /\ Go(h, IF job[h].op = "delete" THEN "untab" ELSE "drop")
  BY DEF Forget
<1>2. job[h].op \in {"delete", "cleanup"} /\ job[h].todo = {} /\ job[h].name = None
  BY <1>1, RemoverHand
<1>3. /\ \A g \in Handlers \ {h} : job'[g] = job[g]
      /\ job'[h].at = IF job[h].op = "delete" THEN "untab" ELSE "drop"
      /\ job'[h].op = job[h].op /\ job'[h].name = None
      /\ job'[h].todo = {} /\ job'[h].gone = job[h].gone
  BY <1>1, <1>2, NextStep
<1>4. CASE n \notin job[h].gone
  <2>1. SameFiles(n) /\ SameRows(n) /\ SameTabs(n) /\ SavedInHand(n) /\ SameKept(n)
    BY <1>1, <1>4 DEF SameFiles, SameRows, SameTabs, SavedInHand, SameKept
  <2> QED BY <1>1, <1>2, <1>3, <1>4, <2>1, RemovalOfOthers
<1>5. CASE n \in job[h].gone
  <2>1. /\ ~There(n)' /\ (HasTab(n)' => HasTab(n))
        /\ \A g \in Handlers \ {h} : ~About(g, n) /\ ~About(g, n)'
        /\ OneFile(n)' /\ Held(n)' /\ OneTab(n)' /\ SenderOnly(n)' /\ Kept1(n)' /\ HasOwner(n)'
    BY <1>1, <1>3, <1>5, RemovalOfOwn
  <2>2. ~HasRow(n)'
    BY <1>1, <1>5 DEF HasRow
  <2>3. job[h].op = "cleanup" => ~HasTab(n)
    BY <1>5 DEF NameInv, Removed, CleaningUp
  <2>4. Removed(n)'
    <3> SUFFICES ASSUME NEW g \in Handlers, n \in job'[g].gone
                 PROVE  /\ ~There(n)'
                        /\ \A k \in Handlers \ {g} : ~About(k, n)'
                        /\ job'[g].at \in {"untab", "drop", "clear"} => ~HasRow(n)'
                        /\ job'[g].op = "cleanup" \/ job'[g].at \in {"drop", "clear"} => ~HasTab(n)'
                        /\ job'[g].at = "clear" => renderer'[Upload(n)] = NoFile
      BY DEF Removed, CleaningUp
    <3>1. g = h
      BY <2>1, AboutInHand DEF InHand
    <3> QED BY <1>2, <1>3, <2>1, <2>2, <2>3, <3>1
  <2>5. Clean(n)'
    BY <1>3, <1>5 DEF Clean, Removing
  <2> QED BY <2>1, <2>4, <2>5 DEF NameInv
<1> QED BY <1>4, <1>5

LEMMA ForgetFailsKeeps ==
    ASSUME TypeInv, NEW h \in Handlers, ForgetFails(h),
           NEW n \in Names, NameInv(n), n \notin marred'
    PROVE  NameInv(n)'
<1>1. /\ job[h].at = "forget" /\ Done(h) /\ UNCHANGED <<store, listed, renderer, cached>>
      /\ marred' = marred \cup {k \in job[h].gone : \A s \in Sessions : <<s, k>> \notin rows}
  BY DEF ForgetFails, Mark
<1>2. /\ job'[h] = Idle /\ \A g \in Handlers \ {h} : job'[g] = job[g]
  BY <1>1, DoneStep
<1>3. SameFiles(n) /\ SameRows(n) /\ SameTabs(n) /\ SavedInHand(n) /\ SameKept(n)
  BY <1>1, StoreSame DEF SameKept
<1>4. CASE n \notin job[h].gone
  BY <1>1, <1>2, <1>3, <1>4, IdleHasNothing, RemovalOfOthers
<1>5. CASE n \in job[h].gone
  <2>1. HasRow(n)'
    BY <1>1, <1>5 DEF HasRow, store
  <2>2. /\ \A g \in Handlers \ {h} : ~About(g, n)'
        /\ OneFile(n)' /\ Held(n)' /\ OneTab(n)' /\ SenderOnly(n)' /\ Kept1(n)' /\ HasOwner(n)'
    BY <1>1, <1>2, <1>5, IdleHasNothing, RemovalOfOwn DEF store
  <2>3. \A g \in Handlers : n \notin job'[g].gone
    <3>1. \A g \in Handlers \ {h} : n \notin job'[g].gone
      BY <2>2, AboutInHand DEF InHand
    <3> QED BY <1>2, <3>1, IdleHasNothing
  <2>4. Removed(n)' /\ Clean(n)'
    BY <2>1, <2>3 DEF Removed, Clean
  <2> QED BY <2>2, <2>4 DEF NameInv
<1> QED BY <1>4, <1>5

LEMMA UntabKeeps ==
    ASSUME TypeInv, NEW h \in Handlers, Untab(h), NEW n \in Names, NameInv(n)
    PROVE  NameInv(n)'
<1>1. /\ job[h].at = "untab" /\ tabs' = [c \in Clients |-> tabs[c] \ job[h].gone]
      /\ by' = by /\ saved' = saved /\ disk' = disk /\ rows' = rows /\ listed' = listed
      /\ renderer' = renderer /\ cached' = cached /\ Go(h, "drop")
  BY DEF Untab
<1>2. job[h].op = "delete" /\ job[h].todo = {} /\ job[h].name = None
  BY <1>1, RemoverHand
<1>3. /\ \A g \in Handlers \ {h} : job'[g] = job[g]
      /\ job'[h].at = "drop" /\ job'[h].op = job[h].op /\ job'[h].name = None
      /\ job'[h].todo = {} /\ job'[h].gone = job[h].gone
  BY <1>1, <1>2, NextStep
<1>4. CASE n \notin job[h].gone
  <2>1. SameFiles(n) /\ SameRows(n) /\ SameTabs(n) /\ SavedInHand(n) /\ SameKept(n)
    BY <1>1, <1>4 DEF SameFiles, SameRows, SameTabs, SavedInHand, SameKept
  <2> QED BY <1>1, <1>2, <1>3, <1>4, <2>1, RemovalOfOthers
<1>5. CASE n \in job[h].gone
  <2>1. /\ ~There(n)'
        /\ \A g \in Handlers \ {h} : ~About(g, n) /\ ~About(g, n)'
        /\ OneFile(n)' /\ Held(n)' /\ OneTab(n)' /\ SenderOnly(n)' /\ Kept1(n)' /\ HasOwner(n)'
    BY <1>1, <1>3, <1>5, RemovalOfOwn
  <2>2. ~HasTab(n)'
    BY <1>1, <1>5 DEF HasTab
  <2>3. ~HasRow(n)'
    BY <1>1, <1>5 DEF NameInv, Removed, HasRow
  <2>4. Removed(n)'
    <3> SUFFICES ASSUME NEW g \in Handlers, n \in job'[g].gone
                 PROVE  /\ ~There(n)'
                        /\ \A k \in Handlers \ {g} : ~About(k, n)'
                        /\ job'[g].at \in {"untab", "drop", "clear"} => ~HasRow(n)'
                        /\ job'[g].op = "cleanup" \/ job'[g].at \in {"drop", "clear"} => ~HasTab(n)'
                        /\ job'[g].at = "clear" => renderer'[Upload(n)] = NoFile
      BY DEF Removed, CleaningUp
    <3>1. g = h
      BY <2>1, AboutInHand DEF InHand
    <3> QED BY <1>3, <2>1, <2>2, <2>3, <3>1
  <2>5. Clean(n)'
    BY <1>3, <1>5 DEF Clean, Removing
  <2> QED BY <2>1, <2>4, <2>5 DEF NameInv
<1> QED BY <1>4, <1>5

LEMMA DropRenderersKeeps ==
    ASSUME TypeInv, NEW h \in Handlers, DropRenderers(h), NEW n \in Names, NameInv(n)
    PROVE  NameInv(n)'
<1>1. /\ job[h].at = "drop" /\ listed' = OnDisk /\ renderer' = Forgotten(job[h].gone)
      /\ UNCHANGED <<store, cached>> /\ Go(h, "clear")
  BY DEF DropRenderers
<1>2. job[h].op \in {"delete", "cleanup"} /\ job[h].todo = {} /\ job[h].name = None
  BY <1>1, RemoverHand
<1>3. /\ \A g \in Handlers \ {h} : job'[g] = job[g]
      /\ job'[h].at = "clear" /\ job'[h].op = job[h].op /\ job'[h].name = None
      /\ job'[h].todo = {} /\ job'[h].gone = job[h].gone
  BY <1>1, <1>2, NextStep
<1>4. renderer'[Upload(n)] = IF n \in job[h].gone THEN NoFile ELSE renderer[Upload(n)]
  <2>1. Upload(n) \in {Upload(k) : k \in job[h].gone} <=> n \in job[h].gone
    BY DEF Upload
  <2> QED BY <1>1, <2>1, PathsType DEF Forgotten
<1>5. SameFiles(n) /\ SameRows(n) /\ SameTabs(n) /\ SavedInHand(n) /\ SameKept(n)
  BY <1>1, <1>4, StoreSame, RelistKeeps DEF SameKept
<1>6. CASE n \notin job[h].gone
  BY <1>1, <1>2, <1>3, <1>5, <1>6, RemovalOfOthers
<1>7. CASE n \in job[h].gone
  <2>1. /\ ~There(n)' /\ (HasTab(n)' => HasTab(n))
        /\ \A g \in Handlers \ {h} : ~About(g, n) /\ ~About(g, n)'
        /\ OneFile(n)' /\ Held(n)' /\ OneTab(n)' /\ SenderOnly(n)' /\ Kept1(n)' /\ HasOwner(n)'
    BY <1>1, <1>3, <1>7, RemovalOfOwn DEF store
  <2>2. ~HasTab(n)' /\ ~HasRow(n)'
    BY <1>1, <1>7, <2>1 DEF NameInv, Removed, HasRow, store
  <2>3. Removed(n)'
    <3> SUFFICES ASSUME NEW g \in Handlers, n \in job'[g].gone
                 PROVE  /\ ~There(n)'
                        /\ \A k \in Handlers \ {g} : ~About(k, n)'
                        /\ ~HasRow(n)' /\ ~HasTab(n)'
                        /\ renderer'[Upload(n)] = NoFile
      BY DEF Removed, CleaningUp
    <3>1. g = h
      BY <2>1, AboutInHand DEF InHand
    <3> QED BY <1>4, <1>7, <2>1, <2>2, <3>1
  <2>4. Clean(n)'
    BY <1>3, <1>7 DEF Clean, Removing
  <2> QED BY <2>1, <2>3, <2>4 DEF NameInv
<1> QED BY <1>6, <1>7

\* A removal that is over leaves a name as if it had never been used.
LEMMA ClearCachesKeeps ==
    ASSUME TypeInv, NEW h \in Handlers, ClearCaches(h), NEW n \in Names, NameInv(n)
    PROVE  NameInv(n)'
<1>1. /\ job[h].at = "clear" /\ Done(h) /\ UNCHANGED <<store, listed, renderer>>
      /\ cached'[n] = NoFile
  BY DEF ClearCaches, Emptied
<1>2. /\ job'[h] = Idle /\ \A g \in Handlers \ {h} : job'[g] = job[g]
  BY <1>1, DoneStep
<1>3. SameFiles(n) /\ SameRows(n) /\ SameTabs(n) /\ SavedInHand(n) /\ SameKept(n)
  BY <1>1, StoreSame DEF SameKept
<1>4. CASE n \notin job[h].gone
  BY <1>1, <1>2, <1>3, <1>4, IdleHasNothing, RemovalOfOthers
<1>5. CASE n \in job[h].gone
  <2>1. /\ ~There(n)' /\ (HasTab(n)' => HasTab(n))
        /\ \A g \in Handlers \ {h} : ~About(g, n)'
        /\ OneFile(n)' /\ Held(n)' /\ OneTab(n)' /\ SenderOnly(n)' /\ Kept1(n)' /\ HasOwner(n)'
    BY <1>1, <1>2, <1>5, IdleHasNothing, RemovalOfOwn DEF store
  <2>2. ~InHand(job'[h], n)
    BY <1>2, HandOfOneName
  <2>3. \A g \in Handlers : ~About(g, n)'
    BY <2>1, <2>2, AboutInHand
  <2>4. ~HasTab(n)' /\ renderer'[Upload(n)] = NoFile
    BY <1>1, <1>5, <2>1 DEF NameInv, Removed
  <2>5. Removed(n)'
    BY <2>3, AboutInHand DEF Removed, InHand
  <2>6. Clean(n)'
    BY <1>1, <2>3, <2>4 DEF Clean
  <2> QED BY <2>1, <2>5, <2>6 DEF NameInv
<1> QED BY <1>4, <1>5

-----------------------------------------------------------------------------
(* The steps of a rendering, of the warm-up and of a restart *)

\* What the list of models has of a name is its file, if it is among the uploads.
LEMMA ListedIsUpload ==
    ASSUME TypeInv, ListedInv, NEW n \in Names, NameInv(n), NEW p \in listed, p[2] = n
    PROVE  p = Upload(n) \/ (Published(n) /\ ~There(n))
<1>1. p \in Paths
  BY DEF TypeInv, TypeOK
<1>2. p = Upload(n) \/ p = <<"models", n>>
  BY <1>1, PathsType
<1>3. p = <<"models", n>> => Published(n)
  BY DEF ListedInv
<1> QED BY <1>2, <1>3 DEF NameInv, OneFile

LEMMA LookUpKeeps ==
    ASSUME TypeInv, ListedInv, NEW h \in Handlers, NEW c \in Clients, NEW m \in Names, LookUp(h, c, m),
           NEW n \in Names, NameInv(n), n \notin marred'
    PROVE  NameInv(n)'
<1>1. /\ job[h] = Idle /\ Visible(c, m) /\ UNCHANGED <<store, listed, renderer, cached>>
      /\ marred' = marred \cup {k \in {m} : Removing(k)}
  BY DEF LookUp, Mark
<1>2. /\ \A g \in Handlers \ {h} : job'[g] = job[g]
      /\ job'[h].op = "render" /\ job'[h].at = "recheck" /\ job'[h].name = m
      /\ job'[h].todo = {} /\ job'[h].gone = {}
  BY LookUpJob
<1>3. SameFiles(n) /\ SameRows(n) /\ SameTabs(n) /\ SavedInHand(n) /\ SameKept(n)
  BY <1>1, StoreSame DEF SameKept
<1>4. ~InHand(job[h], n) /\ job[h].op = "none"
  BY <1>1, HandOfOneName, IdleHasNothing
<1>5. CASE n # m
  <2>1. ~InHand(job'[h], n)
    BY <1>2, <1>5 DEF InHand
  <2> QED BY <1>2, <1>3, <1>4, <2>1, OtherName, OneStep, NothingOfName
<1>6. CASE n = m
  <2>1. \A g \in Handlers : n \notin job[g].gone /\ n \notin job'[g].gone
    BY <1>1, <1>2, <1>4, <1>6 DEF Removing, InHand
  <2>2. PICK p \in listed : p[2] = n /\ (p[1] = "models" \/ n \in Owned(c))
    BY <1>1, <1>6 DEF Visible
  <2>3. p = Upload(n) \/ (Published(n) /\ ~There(n))
    BY <2>2, ListedIsUpload
  <2>4. Upload(n)[1] = "uploads"
    BY DEF Upload
  <2>5. There(n) \/ Published(n) \/ HasRow(n)
    <3> SUFFICES ASSUME p = Upload(n), ~There(n), ~Published(n), ~HasRow(n) PROVE FALSE
      BY <2>3
    <3>1. n \in Owned(c)
      BY <2>2, <2>4
    <3>2. ~HasTab(n)
      BY <2>1 DEF NameInv, Clean, Removing
    <3>3. PICK r \in rows : r[2] = n
      BY <3>1, <3>2 DEF Owned, HasTab
    <3>4. r[1] \in Sessions /\ r = <<r[1], n>>
      BY <3>3 DEF TypeInv, TypeOK
    <3> QED BY <3>4 DEF HasRow
  <2>6. Removed(n)' /\ Clean(n)'
    BY <1>1, <2>1, <2>5 DEF Removed, Clean, There, Published, HasRow, store
  <2>7. \A g \in Handlers : SameHold(job[g], job'[g], n)
    <3>1. SameHold(job[h], job'[h], n)
      BY <1>2, <1>4 DEF SameHold
    <3> QED BY <1>2, <3>1, SameJob DEF SameWork
  <2>8. OneFile(n)' /\ Held(n)' /\ OneTab(n)' /\ SenderOnly(n)' /\ HasOwner(n)'
    BY <1>3, <2>7, FilesKept
  <2>9. Kept1(n)'
    <3> SUFFICES ASSUME There(n)'
                 PROVE  /\ cached'[n] \in {NoFile, disk'[Upload(n)]}
                        /\ renderer'[Upload(n)] \in {NoFile, disk'[Upload(n)]}
                        /\ \A g \in Handlers : job'[g].op = "render" /\ job'[g].name = n =>
                              /\ Upload(n) \in listed'
                              /\ job'[g].at = "store" => job'[g].pic = disk'[Upload(n)]
      BY DEF Kept1, Rendering
    <3>1. There(n) /\ disk' = disk /\ Upload(n) \in listed /\ listed' = listed
      BY <1>1, <2>2, <2>3 DEF There, store
    <3> QED BY <1>1, <1>2, <3>1 DEF NameInv, Kept1, Rendering
  <2> QED BY <2>6, <2>8, <2>9 DEF NameInv
<1> QED BY <1>5, <1>6

\* A rendering that ends, having stored nothing or what it should.
LEMMA RenderEnds ==
    ASSUME TypeInv, NEW h \in Handlers, RenderJob(job[h]), job'[h] = Idle,
           \A g \in Handlers \ {h} : job'[g] = job[g], UNCHANGED <<store, listed, renderer>>,
           NEW n \in Names, NameInv(n), There(n) => cached'[n] \in {NoFile, disk[Upload(n)]},
           job[h].name # n => cached'[n] = cached[n]
    PROVE  NameInv(n)'
<1>1. SameFiles(n) /\ SameRows(n) /\ SameTabs(n) /\ SavedInHand(n)
  BY StoreSame
<1>2. CASE job[h].name # n
  <2>1. ~InHand(job[h], n) /\ ~InHand(job'[h], n)
    BY <1>2, HandOfOneName
  <2>2. SameKept(n)
    BY <1>2 DEF SameKept
  <2> QED BY <1>1, <2>1, <2>2, OtherName, OneStep, NothingOfName
<1>3. CASE job[h].name = n
  <2>1. job[h].op = "render" /\ InHand(job[h], n) /\ n \notin job[h].gone
    BY <1>3 DEF RenderJob, InHand
  <2>2. \A g \in Handlers : n \notin job[g].gone
    BY <2>1, RemoverIsAlone DEF NameInv
  <2>3. There(n) \/ Published(n) \/ HasRow(n)
    BY <2>1, <2>2, AboutInHand DEF NameInv, Clean, Removing
  <2>4. \A g \in Handlers : n \notin job'[g].gone
    BY <2>2, IdleHasNothing
  <2>5. Removed(n)' /\ Clean(n)'
    BY <2>3, <2>4 DEF Removed, Clean, There, Published, HasRow, store
  <2>6. \A g \in Handlers : SameHold(job[g], job'[g], n)
    <3>1. SameHold(job[h], job'[h], n)
      BY <2>1, IdleHasNothing DEF SameHold
    <3> QED BY <3>1, SameJob DEF SameWork
  <2>7. OneFile(n)' /\ Held(n)' /\ OneTab(n)' /\ SenderOnly(n)' /\ HasOwner(n)'
    BY <1>1, <2>6, FilesKept
  <2>8. Kept1(n)'
    <3> SUFFICES ASSUME There(n)'
                 PROVE  /\ cached'[n] \in {NoFile, disk'[Upload(n)]}
                        /\ renderer'[Upload(n)] \in {NoFile, disk'[Upload(n)]}
                        /\ \A g \in Handlers : job'[g].op = "render" /\ job'[g].name = n =>
                              /\ Upload(n) \in listed'
                              /\ job'[g].at = "store" => job'[g].pic = disk'[Upload(n)]
      BY DEF Kept1, Rendering
    <3>1. There(n) /\ disk' = disk
      BY DEF There, store
    <3>2. ASSUME NEW g \in Handlers, job'[g].op = "render" PROVE job'[g] = job[g]
      BY <3>2, IdleHasNothing
    <3> QED BY <3>1, <3>2 DEF NameInv, Kept1, Rendering
  <2> QED BY <2>5, <2>7, <2>8 DEF NameInv
<1> QED BY <1>2, <1>3

\* The renderers after one has been found or made for a path: those of a file are of it.
LEMMA RendererOfFile ==
    ASSUME TypeInv, NEW p \in Paths, renderer' = renderer \/ Made(p), NEW n \in Names
    PROVE  renderer'[Upload(n)] \in {NoFile, renderer[Upload(n)], disk[Upload(n)]}
BY KeptOrMade, PathsType

LEMMA BuildKeeps ==
    ASSUME TypeInv, ListedInv, NEW h \in Handlers, Build(h), NEW n \in Names, NameInv(n)
    PROVE  NameInv(n)'
<1>1. UNCHANGED <<store, listed, cached>> /\ RenderJob(job[h])
  BY AtStep DEF Build
<1>2. /\ \A g \in Handlers \ {h} : job'[g] = job[g]
      /\ job[h].op = "render" /\ job[h].todo = {} /\ job[h].gone = {}
  BY BuildJob
<1>3. renderer'[Upload(n)] \in {NoFile, renderer[Upload(n)], disk[Upload(n)]}
  <2>1. renderer' = renderer \/ \E p \in Paths : Made(p)
    BY BuildJob DEF TypeInv, TypeOK
  <2> QED BY <2>1, RendererOfFile
<1>4. SameFiles(n) /\ SameRows(n) /\ SameTabs(n) /\ SavedInHand(n) /\ SameKept(n)
  BY <1>1, <1>3, StoreSame DEF SameKept
<1>5. CASE job'[h] = Idle /\ renderer' = renderer
  BY <1>1, <1>2, <1>5, RenderEnds DEF NameInv, Kept1
<1>6. ASSUME job'[h].op = "render", job'[h].at = "store", job'[h].name = job[h].name,
             job'[h].todo = {}, job'[h].gone = {},
             There(n) /\ job[h].name = n => job'[h].pic = disk[Upload(n)]
      PROVE  NameInv(n)'
  <2>1. SameHold(job[h], job'[h], n) /\ SameAway(job[h], job'[h], n)
    BY <1>2, <1>6 DEF SameHold, SameAway, InHand
  <2>2. \A g \in Handlers : SameHold(job[g], job'[g], n) /\ SameAway(job[g], job'[g], n)
    BY <1>2, <2>1, SameJob DEF SameWork
  <2>3. OneFile(n)' /\ Held(n)' /\ OneTab(n)' /\ SenderOnly(n)' /\ HasOwner(n)'
    BY <1>4, <2>2, FilesKept
  <2>4. Removed(n)' /\ Clean(n)'
    BY <1>4, <2>2, AwayKept DEF NameInv
  <2>5. Kept1(n)'
    <3> SUFFICES ASSUME There(n)'
                 PROVE  /\ cached'[n] \in {NoFile, disk'[Upload(n)]}
                        /\ renderer'[Upload(n)] \in {NoFile, disk'[Upload(n)]}
                        /\ \A g \in Handlers : job'[g].op = "render" /\ job'[g].name = n =>
                              /\ Upload(n) \in listed'
                              /\ job'[g].at = "store" => job'[g].pic = disk'[Upload(n)]
      BY DEF Kept1, Rendering
    <3>1. There(n) /\ disk' = disk
      BY <1>1 DEF There, store
    <3>2. /\ cached[n] \in {NoFile, disk[Upload(n)]}
          /\ renderer[Upload(n)] \in {NoFile, disk[Upload(n)]}
          /\ \A g \in Handlers : job[g].op = "render" /\ job[g].name = n =>
                /\ Upload(n) \in listed
                /\ job[g].at = "store" => job[g].pic = disk[Upload(n)]
      BY <3>1 DEF NameInv, Kept1, Rendering
    <3>3. ASSUME NEW g \in Handlers, job'[g].op = "render", job'[g].name = n
          PROVE  Upload(n) \in listed' /\ (job'[g].at = "store" => job'[g].pic = disk'[Upload(n)])
      <4>1. CASE g = h
        BY <1>1, <1>2, <1>6, <3>1, <3>2, <3>3, <4>1
      <4>2. CASE g # h
        BY <1>1, <1>2, <3>1, <3>2, <3>3, <4>2
      <4> QED BY <4>1, <4>2
    <3> QED BY <1>1, <1>3, <3>1, <3>2, <3>3
  <2> QED BY <2>3, <2>4, <2>5 DEF NameInv
<1>7. \/ job'[h] = Idle
      \/ /\ job'[h].op = "render" /\ job'[h].at = "store" /\ job'[h].name = job[h].name
         /\ job'[h].todo = {} /\ job'[h].gone = {}
         /\ \/ {p \in listed : p[2] = job[h].name} = {}
            \/ \E p \in listed : p[2] = job[h].name /\ job'[h].pic \in {renderer[p], disk[p]} \ {NoFile}
  BY BuildJob
<1>8. CASE job'[h] = Idle
  <2>1. renderer' = renderer
    BY <1>8, BuildJob, IdleHasNothing
  <2> QED BY <1>5, <1>8, <2>1
<1>9. CASE job'[h] # Idle
  <2>1. ASSUME There(n), job[h].name = n PROVE job'[h].pic = disk[Upload(n)]
    <3>1. Upload(n) \in listed /\ Upload(n)[2] = n
      BY <1>2, <2>1 DEF NameInv, Kept1, Rendering, Upload
    <3>2. PICK p \in listed : p[2] = n /\ job'[h].pic \in {renderer[p], disk[p]} \ {NoFile}
      BY <1>7, <1>9, <2>1, <3>1
    <3>3. p = Upload(n)
      BY <2>1, <3>2, ListedIsUpload
    <3> QED BY <2>1, <3>2, <3>3 DEF NameInv, Kept1
  <2> QED BY <1>6, <1>7, <1>9, <2>1
<1> QED BY <1>8, <1>9

LEMMA RecheckStoreKeep ==
    ASSUME TypeInv, NEW h \in Handlers, Recheck(h) \/ Store(h), NEW n \in Names, NameInv(n)
    PROVE  NameInv(n)'
<1>1. RenderJob(job[h]) /\ UNCHANGED <<store, listed, renderer>>
  BY AtStep DEF Recheck, Store
<1>2. There(n) => cached[n] \in {NoFile, disk[Upload(n)]}
  BY DEF NameInv, Kept1
<1>3. CASE Recheck(h) /\ Done(h)
  <2>1. cached' = cached
    BY <1>3 DEF Recheck
  <2> QED BY <1>1, <1>2, <1>3, <2>1, DoneStep, RenderEnds
<1>4. CASE Recheck(h) /\ Go(h, "build")
  <2>1. job[h].op = "render" /\ cached' = cached
    BY <1>1, <1>4 DEF RenderJob, Recheck
  <2>2. /\ \A g \in Handlers \ {h} : job'[g] = job[g]
        /\ job'[h].at = "build" /\ job'[h].op = job[h].op /\ job'[h].name = job[h].name
        /\ job'[h].todo = job[h].todo /\ job'[h].gone = job[h].gone
    BY <1>4, <2>1, NextStep
  <2>3. SameWork(job[h], job'[h], n)
    BY <1>1, <2>1, <2>2 DEF SameWork, SameHold, SameAway, SameRender, InHand, RenderJob
  <2>4. SameFiles(n) /\ SameRows(n) /\ SameTabs(n) /\ SavedInHand(n) /\ SameKept(n)
    BY <1>1, <2>1, StoreSame DEF SameKept
  <2> QED BY <2>2, <2>3, <2>4, OneStep, NothingOfName
<1>5. CASE Store(h)
  <2>1. /\ job[h].at = "store" /\ cached' = [cached EXCEPT ![job[h].name] = job[h].pic] /\ Done(h)
    BY <1>5 DEF Store
  <2>2. cached'[n] = IF n = job[h].name THEN job[h].pic ELSE cached[n]
    BY <2>1 DEF TypeInv, TypeOK
  <2>3. There(n) /\ n = job[h].name => job[h].pic = disk[Upload(n)]
    BY <1>1, <2>1 DEF NameInv, Kept1, Rendering, RenderJob
  <2> QED BY <1>1, <1>2, <2>1, <2>2, <2>3, DoneStep, RenderEnds
<1> QED BY <1>3, <1>4, <1>5 DEF Recheck

\* The warm-up and the poll of the list leave a name as it was, whichever it is.
LEMMA WarmPollKeep ==
    ASSUME TypeInv, (\E p \in Paths : Warm(p)) \/ Poll \/ UNCHANGED vars, NEW n \in Names, NameInv(n)
    PROVE  NameInv(n)'
<1>1. UNCHANGED store /\ job' = job /\ cached' = cached /\ listed' \in {listed, OnDisk}
  BY DEF Warm, Poll, vars
<1>2. renderer'[Upload(n)] \in {NoFile, renderer[Upload(n)], disk[Upload(n)]}
  <2>1. renderer' = renderer \/ \E p \in Paths : Made(p)
    BY DEF Warm, Poll, vars
  <2> QED BY <2>1, RendererOfFile
<1>3. SameFiles(n) /\ SameRows(n) /\ SameTabs(n) /\ SavedInHand(n) /\ SameKept(n)
  BY <1>1, <1>2, StoreSame, RelistKeeps DEF SameKept
<1>4. \A g \in Handlers : SameWork(job[g], job'[g], n)
  BY <1>1, SameJob
<1> QED BY <1>3, <1>4, NothingOfName

\* After a restart a file has a row, or goes, and nothing else is left of any name.
LEMMA RestartKeeps ==
    ASSUME TypeInv, Restart, NEW n \in Names, NameInv(n)
    PROVE  NameInv(n)'
<1>1. /\ by' = by /\ saved' = saved /\ rows' = {r \in rows : disk[Upload(r[2])] # NoFile}
      /\ disk' = [p \in Paths |-> IF p \in Orphans THEN NoFile ELSE disk[p]]
      /\ tabs' = [c \in Clients |-> {}] /\ renderer' = [p \in Paths |-> NoFile]
      /\ cached' = Emptied /\ job' = [g \in Handlers |-> Idle]
  BY DEF Restart
<1>2. Upload(n) \in Paths /\ <<"models", n>> \in Paths
  BY PathsType
<1>3. \A g \in Handlers : /\ job'[g].op = "none" /\ job'[g].gone = {}
                          /\ ~About(g, n)'
  BY <1>1, IdleHasNothing, HandOfOneName, AboutInHand
<1>4. ~HasTab(n)' /\ cached'[n] = NoFile /\ renderer'[Upload(n)] = NoFile
  BY <1>1, <1>2 DEF HasTab, Emptied
<1>5. There(n)' => There(n) /\ disk'[Upload(n)] = disk[Upload(n)] /\ Upload(n) \notin Orphans
  BY <1>1, <1>2 DEF There
<1>6. Published(n)' => Published(n)
  BY <1>1, <1>2 DEF Published
<1>7. OneFile(n)' /\ Held(n)' /\ OneTab(n)' /\ Removed(n)' /\ Clean(n)'
  BY <1>3, <1>4, <1>5, <1>6 DEF NameInv, OneFile, Held, OneTab, Removed, Clean, HasTab, Uploading, CleaningUp
<1>8. SenderOnly(n)'
  BY <1>1, <1>4, <1>5 DEF NameInv, SenderOnly, HasTab
<1>9. Kept1(n)'
  BY <1>3, <1>4 DEF Kept1, Rendering
<1>10. HasOwner(n)'
  <2> SUFFICES ASSUME There(n)' PROVE HasRow(n)'
    BY DEF HasOwner
  <2>1. There(n) /\ Upload(n) \in OnDisk /\ Upload(n) \notin Orphans
    BY <1>2, <1>5 DEF There, OnDisk
  <2>2. Upload(n)[1] = "uploads" /\ Upload(n)[2] = n
    BY DEF Upload
  <2>3. PICK s \in Sessions : <<s, n>> \in rows
    BY <2>1, <2>2 DEF Orphans
  <2> QED BY <1>1, <2>1, <2>3 DEF HasRow, There
<1> QED BY <1>7, <1>8, <1>9, <1>10 DEF NameInv

\* A file of the directory everybody sees is never taken away.
LEMMA StepKeepsListed == TypeInv /\ ListedInv /\ [Next]_vars => ListedInv'
<1> SUFFICES ASSUME TypeInv, ListedInv, [Next]_vars, NEW n \in Names, <<"models", n>> \in listed'
             PROVE  Published(n)'
  BY DEF ListedInv
<1>1. <<"models", n>> \in Paths /\ \A m \in Names : Upload(m) # <<"models", n>>
  BY PathsType
<1>2. listed' \subseteq listed \cup OnDisk
  <2>1. ASSUME NEW h \in Handlers, NEW c \in Clients, NEW m \in Names,
               \/ Claim(h, c) \/ PopTab(h, c) \/ FindOwned(h, c, m) \/ LookUp(h, c, m)
        PROVE  listed' = listed
    BY <2>1 DEF Claim, PopTab, FindOwned, LookUp
  <2>2. ASSUME NEW h \in Handlers,
               \/ Save(h) \/ SaveFails(h) \/ Register(h) \/ Publish(h) \/ RegisterTab(h)
               \/ Forget(h) \/ ForgetFails(h) \/ Untab(h) \/ ClearCaches(h)
               \/ Recheck(h) \/ Build(h) \/ Store(h)
        PROVE  listed' = listed
    BY <2>2 DEF Save, SaveFails, Register, Publish, RegisterTab, Forget, ForgetFails, Untab,
         ClearCaches, Recheck, Build, Store
  <2>3. ASSUME NEW h \in Handlers, NEW m \in Names, Unlink(h, m) \/ UnlinkFails(h, m)
        PROVE  listed' = listed
    BY <2>3 DEF Unlink, UnlinkFails
  <2>4. ASSUME NEW h \in Handlers, Relist(h) \/ DropRenderers(h) PROVE listed' = OnDisk
    BY <2>4 DEF Relist, DropRenderers
  <2>5. (\E p \in Paths : Warm(p)) \/ UNCHANGED vars => listed' = listed
    BY DEF Warm, vars
  <2>6. Poll \/ Restart => listed' \subseteq OnDisk
    BY DEF Poll, Restart
  <2>7. 0 \in Names
    BY NumbersType
  <2> QED BY <2>1, <2>2, <2>3, <2>4, <2>5, <2>6, <2>7 DEF Next
<1>3. Published(n)
  BY <1>2 DEF ListedInv, OnDisk, Published
<1>4. ASSUME disk' = disk PROVE Published(n)'
  BY <1>3, <1>4 DEF Published
<1>5. ASSUME NEW h \in Handlers, NEW c \in Clients, Claim(h, c) PROVE Published(n)'
  <2>1. PICK m, d : disk' = [disk EXCEPT ![<<d, m>>] = Len(by) + 1]
    BY <1>5 DEF Claim
  <2>2. Len(by) + 1 # NoFile
    BY NumbersType DEF TypeInv, TypeOK
  <2> QED BY <1>1, <1>3, <2>1, <2>2 DEF Published, TypeInv, TypeOK
<1>6. ASSUME NEW h \in Handlers, Save(h) PROVE Published(n)'
  <2>1. job[h].pic # NoFile
    BY <1>6, AtStep, NumbersType DEF Save, UploadJob
  <2>2. disk' = [disk EXCEPT ![<<job[h].dir, job[h].name>>] = job[h].pic]
    BY <1>6 DEF Save
  <2> QED BY <1>1, <1>3, <2>1, <2>2 DEF Published, TypeInv, TypeOK
<1>7. ASSUME NEW h \in Handlers, NEW m \in Names, Unlink(h, m) PROVE Published(n)'
  <2>1. disk' = [disk EXCEPT ![Upload(m)] = NoFile]
    BY <1>7 DEF Unlink
  <2> QED BY <1>1, <1>3, <2>1 DEF Published, TypeInv, TypeOK
<1>8. CASE Restart
  <2>1. <<"models", n>> \notin Orphans
    BY DEF Orphans
  <2> QED BY <1>1, <1>3, <1>8, <2>1 DEF Restart, Published
<1>9. \/ disk' = disk
      \/ \E h \in Handlers :
            \/ \E c \in Clients : Claim(h, c)
            \/ Save(h)
            \/ \E m \in Names : Unlink(h, m)
      \/ Restart
  BY DEF Next, vars, store, SaveFails, Register, Relist, Publish, RegisterTab, FindOwned, PopTab,
         UnlinkFails, Forget, ForgetFails, Untab, DropRenderers, ClearCaches, LookUp, Recheck,
         Build, Store, Warm, Poll
<1> QED BY <1>4, <1>5, <1>6, <1>7, <1>8, <1>9

-----------------------------------------------------------------------------
LEMMA StepKeepsNames ==
    ASSUME TypeInv, ListedInv, [Next]_vars, NEW n \in Names, NameInv(n), n \notin marred'
    PROVE  NameInv(n)'
<1>1. ASSUME NEW h \in Handlers, NEW c \in Clients, Claim(h, c) \/ PopTab(h, c)
      PROVE  NameInv(n)'
  BY <1>1, ClaimKeeps, PopTabKeeps
<1>2. ASSUME NEW h \in Handlers, NEW c \in Clients, NEW m \in Names, FindOwned(h, c, m) \/ LookUp(h, c, m)
      PROVE  NameInv(n)'
  BY <1>2, FindOwnedKeeps, LookUpKeeps
<1>3. ASSUME NEW h \in Handlers, NEW m \in Names, Unlink(h, m) \/ UnlinkFails(h, m)
      PROVE  NameInv(n)'
  BY <1>3, UnlinkKeeps, UnlinkFailsKeeps
<1>4. ASSUME NEW h \in Handlers,
             \/ Save(h) \/ SaveFails(h) \/ Register(h) \/ Relist(h) \/ Publish(h) \/ RegisterTab(h)
      PROVE  NameInv(n)'
  BY <1>4, SaveKeeps, SaveFailsKeeps, RegisterKeeps, RelistPublishKeep, RegisterTabKeeps
<1>5. ASSUME NEW h \in Handlers,
             \/ Forget(h) \/ ForgetFails(h) \/ Untab(h) \/ DropRenderers(h) \/ ClearCaches(h)
      PROVE  NameInv(n)'
  BY <1>5, ForgetKeeps, ForgetFailsKeeps, UntabKeeps, DropRenderersKeeps, ClearCachesKeeps
<1>6. ASSUME NEW h \in Handlers, Recheck(h) \/ Build(h) \/ Store(h)
      PROVE  NameInv(n)'
  BY <1>6, RecheckStoreKeep, BuildKeeps
<1>7. CASE (\E p \in Paths : Warm(p)) \/ Poll \/ UNCHANGED vars
  BY <1>7, WarmPollKeep
<1>8. CASE Restart
  BY <1>8, RestartKeeps
<1> QED BY <1>1, <1>2, <1>3, <1>4, <1>5, <1>6, <1>7, <1>8 DEF Next

\* Once marred, a name is marred for good.
LEMMA MarredStays == ASSUME TypeInv, [Next]_vars PROVE marred \subseteq marred'
<1>1. ASSUME NEW h \in Handlers, NEW c \in Clients, NEW m \in Names,
             \/ Claim(h, c) \/ PopTab(h, c) \/ FindOwned(h, c, m) \/ LookUp(h, c, m)
             \/ Unlink(h, m) \/ UnlinkFails(h, m)
      PROVE  marred \subseteq marred'
  BY <1>1 DEF Claim, PopTab, FindOwned, LookUp, Unlink, UnlinkFails, Mark
<1>2. ASSUME NEW h \in Handlers, NEW m \in Names, Unlink(h, m) \/ UnlinkFails(h, m)
      PROVE  marred \subseteq marred'
  BY <1>2 DEF Unlink, UnlinkFails, Mark
<1>3. ASSUME NEW h \in Handlers,
             \/ Save(h) \/ SaveFails(h) \/ Register(h) \/ Relist(h) \/ Publish(h) \/ RegisterTab(h)
             \/ Forget(h) \/ ForgetFails(h) \/ Untab(h) \/ DropRenderers(h) \/ ClearCaches(h)
             \/ Recheck(h) \/ Build(h) \/ Store(h)
      PROVE  marred \subseteq marred'
  BY <1>3 DEF Save, SaveFails, Register, Relist, Publish, RegisterTab, Forget, ForgetFails, Untab,
       DropRenderers, ClearCaches, Recheck, Build, Store, Mark
<1>4. (\E p \in Paths : Warm(p)) \/ Poll \/ Restart \/ UNCHANGED vars => marred' = marred
  BY DEF Warm, Poll, Restart, vars
<1>5. 0 \in Names
  BY NumbersType
<1> QED BY <1>1, <1>2, <1>3, <1>4, <1>5 DEF Next

LEMMA StepKeepsStore == TypeInv /\ StoreInv /\ [Next]_vars => StoreInv'
<1> SUFFICES ASSUME TypeInv, StoreInv, [Next]_vars PROVE StoreInv'
  OBVIOUS
<1>1. ListedInv /\ ListedInv'
  BY StepKeepsListed DEF StoreInv
<1>2. marred \subseteq marred'
  BY MarredStays
<1>3. ASSUME NEW n \in Names, n \notin marred' PROVE NameInv(n)'
  <2>1. NameInv(n)
    BY <1>2, <1>3 DEF StoreInv
  <2> QED BY <1>1, <1>3, <2>1, StepKeepsNames
<1> QED BY <1>1, <1>3 DEF StoreInv

LEMMA InitStore == Init => StoreInv
<1> SUFFICES ASSUME Init PROVE StoreInv
  OBVIOUS
<1>1. \A h \in Handlers : job[h].op = "none" /\ job[h].gone = {}
  BY IdleHasNothing DEF Init
<1>2. \A n \in Names, h \in Handlers : ~About(h, n)
  BY HandOfOneName, AboutInHand DEF Init
<1>3. /\ \A n \in Names : ~There(n) /\ ~Published(n) /\ ~HasRow(n) /\ ~HasTab(n)
      /\ \A n \in Names : cached[n] = NoFile /\ renderer[Upload(n)] = NoFile
  BY PathsType DEF Init, There, Published, HasRow, HasTab
<1>4. ListedInv
  BY DEF Init, ListedInv
<1>5. ASSUME NEW n \in Names PROVE NameInv(n)
  <2>1. OneFile(n) /\ Held(n) /\ SenderOnly(n) /\ Kept1(n) /\ HasOwner(n)
    BY <1>1, <1>3 DEF OneFile, Held, SenderOnly, Kept1, HasOwner, Uploading
  <2>2. OneTab(n) /\ Removed(n) /\ Clean(n)
    BY <1>1, <1>2, <1>3 DEF OneTab, Removed, Clean, HasTab, Uploading, CleaningUp
  <2> QED BY <2>1, <2>2 DEF NameInv
<1> QED BY <1>4, <1>5 DEF StoreInv

LEMMA Invariant == Spec => [](TypeInv /\ StoreInv)
<1> QED BY InitTypes, InitStore, StepKeepsTypes, StepKeepsStore, PTL DEF Spec

\* A file of the upload directory whose name no removal crossed: what is known of it.
LEMMA UnmarredFile ==
    ASSUME TypeInv, StoreInv, NEW p \in Unmarred
    PROVE  /\ p[2] \in Names /\ p = Upload(p[2]) /\ There(p[2])
           /\ NameInv(p[2])
<1>1. p \in Paths /\ disk[p] # NoFile /\ p[1] = "uploads" /\ p[2] \notin marred
  BY DEF Unmarred, OnDisk
<1>2. p[2] \in Names /\ p = <<p[1], p[2]>>
  BY <1>1, PathsType
<1>3. p = Upload(p[2])
  BY <1>1, <1>2 DEF Upload
<1> QED BY <1>1, <1>2, <1>3 DEF There, StoreInv

-----------------------------------------------------------------------------
(* The theorems *)

\* Every request goes through the steps of its handler, for any clients,
\* sessions and threads: an upload is always given a name within the bounds.
THEOREM TypeCorrect == Spec => []TypeOK
<1>1. TypeInv => TypeOK
  BY DEF TypeInv
<1> QED BY <1>1, Invariant, PTL

\* Two uploads that ask for the same name, whatever the directory, never write
\* to the same file, and none is written over: the name is checked and taken in
\* one step under models_lock, however many threads upload, delete or crash.
THEOREM NothingIsWrittenOver == Spec => []NoOverwrite
<1>1. TypeInv /\ StoreInv => NoOverwrite
  <2> SUFFICES ASSUME TypeInv, StoreInv PROVE NoOverwrite
    OBVIOUS
  <2>1. ASSUME NEW p \in OnDisk, p[2] \notin marred, NEW q \in OnDisk, q[2] = p[2] PROVE q = p
    <3>1. p \in Paths /\ q \in Paths /\ disk[p] # NoFile /\ disk[q] # NoFile
      BY DEF OnDisk
    <3>2. p[2] \in Names /\ OneFile(p[2])
      BY <2>1, <3>1, PathsType DEF StoreInv, NameInv
    <3>3. /\ p = Upload(p[2]) \/ p = <<"models", p[2]>>
          /\ q = Upload(p[2]) \/ q = <<"models", p[2]>>
      BY <2>1, <3>1, PathsType
    <3> QED BY <3>1, <3>2, <3>3 DEF OneFile, There, Published
  <2>2. ASSUME NEW h \in Handlers, job[h].at = "save", job[h].name \notin marred
        PROVE  disk[<<job[h].dir, job[h].name>>] = job[h].pic
    <3>1. UploadJob(job[h])
      BY <2>2, AtStep
    <3>2. job[h].name \in Names /\ Uploading(h)
      BY <3>1 DEF UploadJob, Uploading
    <3> QED BY <2>2, <3>2 DEF StoreInv, NameInv, Held
  <2> QED BY <2>1, <2>2 DEF NoOverwrite
<1> QED BY <1>1, Invariant, PTL

\* A row or a tab entry of an uploaded file is its sender's: a name that is
\* handed out again comes with nobody's claim to it.
THEOREM FilesAreTheirSenders == Spec => []OnlyTheSender
<1>1. TypeInv /\ StoreInv => OnlyTheSender
  <2> SUFFICES ASSUME TypeInv, StoreInv, NEW p \in Unmarred
               PROVE  /\ \A s \in Sessions : <<s, p[2]>> \in rows => Cookie[Sender(p)] = s
                      /\ \A c \in Clients : p[2] \in tabs[c] => Sender(p) = c
    BY DEF OnlyTheSender
  <2>1. p = Upload(p[2]) /\ There(p[2]) /\ SenderOnly(p[2])
    BY UnmarredFile DEF NameInv
  <2>2. Sender(p) = by[disk[Upload(p[2])]]
    BY <2>1 DEF Sender
  <2> QED BY <2>1, <2>2 DEF SenderOnly
<1> QED BY <1>1, Invariant, PTL

\* The response kept for a name and the renderer kept for its path are of the
\* file that has the name now, however often the name was used before.
THEOREM NothingStaleIsKept == Spec => []KeptIsOfItsFile
<1>1. TypeInv /\ StoreInv => KeptIsOfItsFile
  <2> SUFFICES ASSUME TypeInv, StoreInv, NEW p \in Unmarred
               PROVE  {cached[p[2]], renderer[p]} \subseteq {NoFile, disk[p]}
    BY DEF KeptIsOfItsFile
  <2>1. p = Upload(p[2]) /\ There(p[2]) /\ Kept1(p[2])
    BY UnmarredFile DEF NameInv
  <2> QED BY <2>1 DEF Kept1
<1> QED BY <1>1, Invariant, PTL

\* A file that is wholly uploaded and that no request is about belongs to a
\* session or a tab, whichever write, unlink or start failed before.
THEOREM NoFileIsLost == Spec => []FilesHaveOwners
<1>1. TypeInv /\ StoreInv => FilesHaveOwners
  <2> SUFFICES ASSUME TypeInv, StoreInv, NEW p \in Unmarred, disk[p] \in saved,
                      \A h \in Handlers : ~About(h, p[2])
               PROVE  HasRow(p[2]) \/ HasTab(p[2])
    BY DEF FilesHaveOwners, HasRow, HasTab
  <2>1. p = Upload(p[2]) /\ There(p[2]) /\ HasOwner(p[2])
    BY UnmarredFile DEF NameInv
  <2>2. \A h \in Handlers : ~InHand(job[h], p[2])
    BY AboutInHand
  <2> QED BY <2>1, <2>2 DEF HasOwner, InHand, Uploading, CleaningUp
<1> QED BY <1>1, Invariant, PTL
=============================================================================
