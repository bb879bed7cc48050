------------------------------ MODULE ModelStore ------------------------------
(***************************************************************************)
(* Uploaded models: their files, the rows and browser tabs that say whose  *)
(* they are, the list of models, the renderers and the cached responses.   *)
(* app/server.py (upload, ingest, delete, cleanup, render, warm-up, start) *)
(* with app/db.py's uploaded_models.                                       *)
(*                                                                         *)
(* Every upload asks for the same file name, the case in which they meet:  *)
(* name 0 is that name, name k the one upload k is given instead when the  *)
(* name is taken.  A file, a renderer's mesh and a picture are the number  *)
(* of the upload they come from.  A client is a browser tab, with the      *)
(* session of its cookie if it has one; an ingester posts to /ingest, has  *)
(* no tab, and its files go to the directory everybody sees.               *)
(***************************************************************************)
EXTENDS Naturals, Sequences, FiniteSets

CONSTANTS
    Handlers,     \* request threads
    Clients, Ingesters,
    Sessions, Cookie,
    Faults,       \* of "save", "db", "unlink", "crash"
    MaxUploads, RendererMax,
    None

ASSUME StoreAssumption ==
    /\ Ingesters \subseteq Clients
    /\ Cookie \in [Clients -> Sessions \cup {None}]
    /\ None \notin Sessions /\ None \notin Nat
    /\ Faults \subseteq {"save", "db", "unlink", "crash"}
    /\ MaxUploads \in Nat \ {0} /\ RendererMax \in Nat \ {0}

Uploads  == 1..MaxUploads
NoFile   == 0
Default  == MaxUploads + 1          \* the picture of DEFAULT_MODEL
Names    == {0} \cup 2..MaxUploads   \* the first upload finds the name free
Dirs     == {"models", "uploads"}   \* MODEL_DIR, UPLOAD_DIR
Paths    == Dirs \X Names
Upload(n) == <<"uploads", n>>

VARIABLES
    by,         \* history: who sent upload 1, 2, ...
    disk,       \* path -> the upload whose file is there, or NoFile
    saved,      \* the uploads whose bytes are all written
    rows,       \* live rows of uploaded_models: <<session, name>>
    tabs,       \* uploaded_models_by_session
    listed,     \* AVAILABLE_MODELS, without the built-ins
    renderer,   \* renderers_by_model
    cached,     \* quantized_render_cache and preview_payload_cache, by name
    warm,       \* _warmup_queue
    job,        \* what each request thread is doing
    marred      \* history: names where two requests crossed a removal, or one failed

store == <<by, disk, saved, rows, tabs>>
vars  == <<store, listed, renderer, cached, warm, job, marred>>

\* A request: where it is, whose, and, for an upload or a render, the name (and
\* directory) and the upload or picture it has in hand; for a removal, the names
\* still to do and those whose file it has taken away.
Idle == [op |-> "none", at |-> "idle", client |-> None, name |-> None, dir |-> "uploads",
         pic |-> NoFile, todo |-> {}, gone |-> {}]
Jobs == [op : {"none", "upload", "delete", "cleanup", "render"},
         at : {"idle", "save", "register", "relist", "publish", "tab",
               "unlink", "forget", "untab", "drop", "clear", "recheck", "build", "store"},
         client : Clients \cup {None}, name : Names \cup {None}, dir : Dirs,
         pic : 0..Default, todo : SUBSET Names, gone : SUBSET Names]

TypeOK ==
    /\ by \in Seq(Clients) /\ Len(by) <= MaxUploads
    /\ disk \in [Paths -> {NoFile} \cup Uploads]
    /\ saved \subseteq Uploads
    /\ rows \subseteq Sessions \X Names
    /\ tabs \in [Clients -> SUBSET Names]
    /\ listed \subseteq Paths
    /\ renderer \in [Paths -> {NoFile} \cup Uploads]
    /\ cached \in [Names -> 0..Default]
    /\ warm \subseteq Paths
    /\ job \in [Handlers -> Jobs]
    /\ marred \subseteq Names

Init ==
    /\ by = <<>> /\ saved = {} /\ rows = {} /\ listed = {} /\ warm = {} /\ marred = {}
    /\ disk = [p \in Paths |-> NoFile]
    /\ tabs = [c \in Clients |-> {}]
    /\ renderer = [p \in Paths |-> NoFile]
    /\ cached = [n \in Names |-> NoFile]
    /\ job = [h \in Handlers |-> Idle]

-----------------------------------------------------------------------------
(* What the actions share. *)

OnDisk        == {p \in Paths : disk[p] # NoFile}         \* _discover_models
Owned(c)      == {r[2] : r \in {q \in rows : q[1] = Cookie[c]}} \cup tabs[c]
Visible(c, n) == \E p \in listed : p[2] = n /\ (p[1] = "models" \/ n \in Owned(c))
TakenByRow(n) == \E s \in Sessions : <<s, n>> \in rows        \* mutant
TakenByFile(n) == \E d \in Dirs : disk[<<d, n>>] # NoFile      \* mutant
Taken(n)      == \/ \E d \in Dirs : disk[<<d, n>>] # NoFile
                 \/ \E s \in Sessions : <<s, n>> \in rows
Go(h, at)     == job' = [job EXCEPT ![h].at = at]
Done(h)       == job' = [job EXCEPT ![h] = Idle]
Uncleared     == cached                                    \* mutant
Emptied       == [n \in Names |-> NoFile]                  \* both caches cleared
KeepAll(ns)   == renderer                                  \* mutant
Forgotten(ns) == [p \in Paths |-> IF p \in {Upload(n) : n \in ns} THEN NoFile ELSE renderer[p]]

\* The name an upload gets: the one asked for, or one of its own.
NextName(id) == IF Taken(0) THEN id + 1 ELSE 0              \* mutant
NameFor(id)  == IF Taken(0) THEN id ELSE 0

\* The requests about a name, and the removals of it that have come to the file.
About(h, n)    == n \in {job[h].name} \cup job[h].todo \cup job[h].gone
Removing(n)    == \E h \in Handlers : n \in job[h].gone
Crossing(h, n) == \E g \in Handlers \ {h} : About(g, n)
Mark(ns)       == marred' = marred \cup ns

\* renderers_by_model after a renderer has been built: the oldest are dropped
\* until RendererMax are left (which are the oldest is not modelled).
Kept(p, i) ==
    LET others == {q \in Paths \ {p} : renderer[q] # NoFile}
        room   == IF Cardinality(others) < RendererMax THEN Cardinality(others) ELSE RendererMax - 1
    IN  {[q \in Paths |-> IF q = p THEN i ELSE IF q \in stay THEN renderer[q] ELSE NoFile] :
            stay \in {s \in SUBSET others : Cardinality(s) = room}}

-----------------------------------------------------------------------------
(* upload_model, ingest_model and _save_and_index_stl *)

\* Under models_lock: the name is checked and reserved (dest.touch()).
Claim(h, c) ==
    LET id == Len(by) + 1
        n  == NameFor(id)
        d  == IF c \in Ingesters THEN "models" ELSE "uploads"
    IN  /\ job[h] = Idle /\ id <= MaxUploads
        /\ by' = Append(by, c)
        /\ disk' = [disk EXCEPT ![<<d, n>>] = id]
        /\ job' = [job EXCEPT ![h] = [Idle EXCEPT !.op = "upload", !.at = "save", !.client = c,
                                                  !.name = n, !.dir = d, !.pic = id]]
        /\ Mark({m \in {n} : Removing(m)})
        /\ UNCHANGED <<saved, rows, tabs, listed, renderer, cached, warm>>

Save(h) ==
    /\ job[h].at = "save"
    /\ disk' = [disk EXCEPT ![<<job[h].dir, job[h].name>>] = job[h].pic]
    /\ saved' = saved \cup {job[h].pic}
    /\ Go(h, "register")
    /\ UNCHANGED <<by, rows, tabs, listed, renderer, cached, warm, marred>>

\* save_fn raises: a 500, and the reserved file stays.
SaveFails(h) ==
    /\ "save" \in Faults /\ job[h].at = "save"
    /\ Done(h)
    /\ UNCHANGED <<store, listed, renderer, cached, warm, marred>>

\* register_model, for a sender with a session; a failure is only logged, and
\* reading the size of a file that is gone is one.
Register(h) ==
    LET s == Cookie[job[h].client]
    IN  /\ job[h].at = "register"
        /\ \/ /\ s # None /\ disk[<<job[h].dir, job[h].name>>] # NoFile
              /\ rows' = rows \cup {<<s, job[h].name>>}
           \/ /\ s = None \/ disk[<<job[h].dir, job[h].name>>] = NoFile \/ "db" \in Faults
              /\ rows' = rows
        /\ Go(h, "relist")
        /\ UNCHANGED <<by, disk, saved, tabs, listed, renderer, cached, warm, marred>>

Relist(h) ==
    /\ job[h].at = "relist"
    /\ listed' = OnDisk
    /\ Go(h, "publish")
    /\ UNCHANGED <<store, renderer, cached, warm, marred>>

\* enqueue_model_for_warmup, and both caches are cleared.
Publish(h) ==
    /\ job[h].at = "publish"
    /\ warm' = warm \cup {<<job[h].dir, job[h].name>>}
    /\ cached' = Emptied
    /\ IF job[h].client \in Ingesters THEN Done(h) ELSE Go(h, "tab")
    /\ UNCHANGED <<store, listed, renderer, marred>>

RegisterTab(h) ==
    /\ job[h].at = "tab"
    /\ tabs' = [tabs EXCEPT ![job[h].client] = @ \cup {job[h].name}]
    /\ Done(h)
    /\ UNCHANGED <<by, disk, saved, rows, listed, renderer, cached, warm, marred>>

-----------------------------------------------------------------------------
(* delete_model, and _cleanup_uploaded_models_for_session when a tab closes *)

\* session_owns_model: 404 when it does not.
FindOwned(h, c, n) ==
    /\ job[h] = Idle /\ <<Cookie[c], n>> \in rows
    /\ job' = [job EXCEPT ![h] = [Idle EXCEPT !.op = "delete", !.at = "unlink", !.todo = {n}]]
    /\ Mark({m \in {n} : Removing(m)})
    /\ UNCHANGED <<store, listed, renderer, cached, warm>>

PopTab(h, c) ==
    /\ job[h] = Idle /\ tabs[c] # {}
    /\ tabs' = [tabs EXCEPT ![c] = {}]
    /\ job' = [job EXCEPT ![h] = [Idle EXCEPT !.op = "cleanup", !.at = "unlink", !.todo = tabs[c]]]
    /\ Mark({n \in tabs[c] : Removing(n)})
    /\ UNCHANGED <<by, disk, saved, rows, listed, renderer, cached, warm>>

\* The next file.  A deletion goes on to forget the name even if no file of it
\* was there, a cleanup only for the files it took away.
Unlink(h, n) ==
    LET there == disk[Upload(n)] # NoFile
        left  == job[h].todo \ {n}
        gone  == job[h].gone \cup {m \in {n} : there \/ job[h].op = "delete"}
    IN  /\ job[h].at = "unlink" /\ n \in job[h].todo
        /\ disk' = [disk EXCEPT ![Upload(n)] = NoFile]
        /\ job' = [job EXCEPT ![h].todo = left, ![h].gone = gone,
                              ![h].at = IF left = {} THEN "forget" ELSE "unlink"]
        /\ Mark({m \in gone \ job[h].gone : Crossing(h, m)})
        /\ UNCHANGED <<by, saved, rows, tabs, listed, renderer, cached, warm>>

\* A deletion is answered with a 500; a cleanup notes the error and goes on.
UnlinkFails(h, n) ==
    /\ "unlink" \in Faults /\ job[h].at = "unlink" /\ n \in job[h].todo
    /\ disk[Upload(n)] # NoFile
    /\ IF job[h].op = "delete"
       THEN Done(h)
       ELSE job' = [job EXCEPT ![h].todo = @ \ {n},
                               ![h].at = IF job[h].todo = {n} THEN "forget" ELSE "unlink"]
    /\ Mark({m \in {n} : job[h].op = "cleanup"})
    /\ UNCHANGED <<store, listed, renderer, cached, warm>>

\* recorder.forget_file -> mark_file_deleted: every session's row of the name.
Forget(h) ==
    /\ job[h].at = "forget"
    /\ rows' = {r \in rows : r[2] \notin job[h].gone}
    /\ Go(h, IF job[h].op = "delete" THEN "untab" ELSE "drop")
    /\ UNCHANGED <<by, disk, saved, tabs, listed, renderer, cached, warm, marred>>

\* It raises, and so does the request: nothing after it happens.
ForgetFails(h) ==
    /\ "db" \in Faults /\ job[h].at = "forget" /\ job[h].gone # {}
    /\ Done(h)
    /\ Mark({n \in job[h].gone : \A s \in Sessions : <<s, n>> \notin rows})
    /\ UNCHANGED <<store, listed, renderer, cached, warm>>

Untab(h) ==
    /\ job[h].at = "untab"
    /\ tabs' = [c \in Clients |-> tabs[c] \ job[h].gone]
    /\ Go(h, "drop")
    /\ UNCHANGED <<by, disk, saved, rows, listed, renderer, cached, warm, marred>>

\* Under models_lock: the list again, and _forget_renderer of each file.
DropRenderers(h) ==
    /\ job[h].at = "drop"
    /\ listed' = OnDisk
    /\ renderer' = Forgotten(job[h].gone)
    /\ Go(h, "clear")
    /\ UNCHANGED <<store, cached, warm, marred>>

ClearCaches(h) ==
    /\ job[h].at = "clear"
    /\ cached' = Emptied
    /\ Done(h)
    /\ UNCHANGED <<store, listed, renderer, warm, marred>>

-----------------------------------------------------------------------------
(* render_view and _render_response, for a request that may use the cache *)

\* _resolve_model_stem, then the cache: a hit is the answer and changes nothing.
LookUp(h, c, n) ==
    /\ job[h] = Idle /\ c \notin Ingesters /\ Visible(c, n) /\ cached[n] = NoFile
    /\ job' = [job EXCEPT ![h] = [Idle EXCEPT !.op = "render", !.at = "recheck", !.client = c,
                                              !.name = n]]
    /\ Mark({m \in {n} : Removing(m)})
    /\ UNCHANGED <<store, listed, renderer, cached, warm>>

\* get_or_create_renderer resolves the name once more: a 404 if it has gone.
Recheck(h) ==
    /\ job[h].at = "recheck"
    /\ IF Visible(job[h].client, job[h].name) THEN Go(h, "build") ELSE Done(h)
    /\ UNCHANGED <<store, listed, renderer, cached, warm, marred>>

\* _renderer_for_path: the renderer there is, or one made from the file.
HasRenderer(p) == renderer[p] # NoFile
Made(p)        == disk[p] # NoFile /\ renderer' \in Kept(p, disk[p])

\* Under models_lock, of the path _path_for_stem finds: the default model's if
\* the name has left the list since the check.  No file, or half of one, raises.
Build(h) ==
    LET found == {p \in listed : p[2] = job[h].name}
    IN  /\ job[h].at = "build"
        /\ \/ /\ found = {} /\ renderer' = renderer
              /\ job' = [job EXCEPT ![h].at = "store", ![h].pic = Default]
           \/ \E p \in found :
                \/ /\ HasRenderer(p) /\ renderer' = renderer
                   /\ job' = [job EXCEPT ![h].at = "store", ![h].pic = renderer[p]]
                \/ /\ ~HasRenderer(p) /\ Made(p)
                   /\ job' = [job EXCEPT ![h].at = "store", ![h].pic = disk[p]]
                \/ /\ ~HasRenderer(p) /\ disk[p] \notin saved
                   /\ renderer' = renderer /\ Done(h)
        /\ UNCHANGED <<store, listed, cached, warm, marred>>

Store(h) ==
    /\ job[h].at = "store"
    /\ cached' = [cached EXCEPT ![job[h].name] = job[h].pic]
    /\ Done(h)
    /\ UNCHANGED <<store, listed, renderer, warm, marred>>

-----------------------------------------------------------------------------
(* The rest of the process *)

\* _warm_one_model; a model that fails is logged and left to be built on demand.
Warm(p) ==
    /\ p \in warm
    /\ warm' = warm \ {p}
    /\ \/ HasRenderer(p) /\ renderer' = renderer
       \/ ~HasRenderer(p) /\ Made(p)
       \/ ~HasRenderer(p) /\ disk[p] \notin saved /\ renderer' = renderer
    /\ UNCHANGED <<store, listed, cached, job, marred>>

\* models_endpoint, _refresh_model_list_if_stale
Poll ==
    /\ listed # OnDisk
    /\ listed' = OnDisk
    /\ UNCHANGED <<store, renderer, cached, warm, job, marred>>

\* What _reconcile_uploads finds: files of the upload directory nobody's row names.
NoOrphans == {}                                             \* mutant
Orphans == {p \in OnDisk : p[1] = "uploads" /\ \A s \in Sessions : <<s, p[2]>> \notin rows}

\* The process dies and starts again: _reconcile_uploads, then the models found
\* are warmed up.
Restart ==
    /\ "crash" \in Faults
    /\ rows' = {r \in rows : disk[Upload(r[2])] # NoFile}
    /\ disk' = [p \in Paths |-> IF p \in Orphans THEN NoFile ELSE disk[p]]
    /\ listed' = OnDisk \ Orphans
    /\ warm' = listed'
    /\ tabs' = [c \in Clients |-> {}]
    /\ renderer' = [p \in Paths |-> NoFile]
    /\ cached' = Emptied
    /\ job' = [h \in Handlers |-> Idle]
    /\ UNCHANGED <<by, saved, marred>>

Next ==
    \/ \E h \in Handlers :
         \/ \E c \in Clients : Claim(h, c) \/ PopTab(h, c)
         \/ \E c \in Clients, n \in Names : FindOwned(h, c, n) \/ LookUp(h, c, n)
         \/ \E n \in Names : Unlink(h, n) \/ UnlinkFails(h, n)
         \/ Save(h) \/ SaveFails(h) \/ Register(h) \/ Relist(h) \/ Publish(h) \/ RegisterTab(h)
         \/ Forget(h) \/ ForgetFails(h) \/ Untab(h) \/ DropRenderers(h) \/ ClearCaches(h)
         \/ Recheck(h) \/ Build(h) \/ Store(h)
    \/ \E p \in Paths : Warm(p)
    \/ Poll
    \/ Restart

Spec == Init /\ [][Next]_vars

-----------------------------------------------------------------------------
(* Properties.  Where a removal of a file overlapped another request about   *)
(* the same name, or failed half-way, the name is marred, and what holds     *)
(* elsewhere may not hold of it: the README says how.                        *)

Sender(p)    == by[disk[p]]
Unmarred     == {p \in OnDisk : p[1] = "uploads" /\ p[2] \notin marred}

\* No upload takes over the name of a file that is there, neither while another
\* upload of that name is between checking the name and writing its bytes, nor
\* across the two directories (the check and the touch are one step under
\* models_lock).
NoOverwrite ==
    /\ \A p \in OnDisk : p[2] \notin marred =>
          \A q \in OnDisk : q[2] = p[2] => q = p
    /\ \A h \in Handlers : job[h].at = "save" /\ job[h].name \notin marred =>
          disk[<<job[h].dir, job[h].name>>] = job[h].pic

\* Nobody but its sender has a row or a tab entry for an uploaded file: a name
\* is handed out again only when no session and no tab still claims it.
OnlyTheSender ==
    \A p \in Unmarred :
        /\ \A s \in Sessions : <<s, p[2]>> \in rows => Cookie[Sender(p)] = s
        /\ \A c \in Clients : p[2] \in tabs[c] => Sender(p) = c

\* Nothing stale is kept when a name is used again: a response kept for it is a
\* picture of the file that has the name, and the renderer kept for its path was
\* made from the file that is there.
KeptIsOfItsFile ==
    \A p \in Unmarred : {cached[p[2]], renderer[p]} \subseteq {NoFile, disk[p]}

\* A file that was wholly uploaded and that no request is working on is some
\* session's or some tab's, so that somebody can see it and delete it.
FilesHaveOwners ==
    \A p \in Unmarred : disk[p] \in saved /\ (\A h \in Handlers : ~About(h, p[2])) =>
        \/ \E s \in Sessions : <<s, p[2]>> \in rows
        \/ \E c \in Clients : p[2] \in tabs[c]

\* A row stops being live only when the file its session sent under that name is
\* gone (_reconcile_uploads marks "a row whose file is gone").
RowLeavesWithItsFile ==
    [][\A r \in rows \ rows' :
          \A p \in Paths : p[2] = r[2] /\ disk[p] # NoFile /\ disk'[p] = disk[p] =>
              Cookie[by[disk[p]]] # r[1]]_vars
=============================================================================
