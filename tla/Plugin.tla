------------------------------- MODULE Plugin -------------------------------
(***************************************************************************)
(* The plugin loader (src/core/bin/plugin/mod.rs): the Plugin singleton    *)
(* keeps the library search path (library_dir), the loaded flag and the   *)
(* table load_libs of unit type -> dynamic library.  update_library_dir   *)
(* appends new existing directories and reloads; load_lib walks every     *)
(* directory and inserts each .so that has the required constructors;     *)
(* get_lib looks a type up, retrying load_lib twice on a miss; the two    *)
(* create_* operations resolve a constructor symbol in the library found. *)
(*                                                                         *)
(* The file system is the environment: directories appear and disappear, *)
(* plugin files are installed, replaced or removed.  A plugin file is     *)
(* abstracted to the symbols it exports.                                   *)
(***************************************************************************)
EXTENDS Naturals, Sequences, FiniteSets, SequencesExt

CONSTANTS
    Dirs,         \* candidate library directories
    DefaultPath,  \* get_default_libpath's candidates, in priority order
    Types,        \* unit types with a plugin (Service, Socket, ...)
    MaxArgDirs,   \* directories in one update_library_dir argument
    PluginKinds   \* kinds of plugin file that get installed

ASSUME /\ DefaultPath \in Seq(Dirs) /\ MaxArgDirs \in Nat \ {0}

\* A plugin file of a type, by the constructors it exports:
\*   "params"       __unit_obj_create_with_params and __um_obj_create
\*   "default_only" __unit_obj_create_default and __um_obj_create
\*   "no_um"        a unit constructor but no __um_obj_create
Kinds  == {"params", "default_only", "no_um"}
Absent == "absent"
Files  == Kinds \cup {Absent}

ASSUME PluginKinds \subseteq Kinds

VARIABLES
    library_dir,  \* Plugin.library_dir, the search path in order
    loaded,       \* Plugin.loaded
    load_libs,    \* Plugin.load_libs: type -> kind of the library, or Absent
    dir_exists,   \* file system: which directories exist
    disk,         \* file system: dir -> type -> plugin file there
    created,      \* result of the last create_unit_obj_with_um per type
    um_created,   \* result of the last create_um_obj per type
    panicked      \* a panic (unwrap) aborted the manager

vars == <<library_dir, loaded, load_libs, dir_exists, disk, created,
          um_created, panicked>>

Results == {"none", "ok", "err"}

-----------------------------------------------------------------------------
\* load_plugin: the symbol checks that decide whether a file is inserted.
\* get_unit_type resolves the file's type from its name (plugin.conf).
load_plugin(k) == k \in {"params", "default_only"}

\* The directories of the path that hold a file named for type t.
Named(ld, t) == {d \in ToSet(ld) : disk[d][t] # Absent}

\* load_lib passes add_library only the file name; dynamic_reload searches
\* the whole search path for it (not in src/), so the file it opens may be
\* any same-named file on the path.  An opening chooses one per type: as
\* the last successful insert wins, one choice per type gives the same
\* tables as one choice per walked file.  load_lib runs only on a path
\* update_library_dir has just extended, so search_path[0] always exists.
Openings(ld) ==
    {op \in [Types -> Dirs] : \A t \in Types : Named(ld, t) # {} => op[t] \in Named(ld, t)}

\* load_lib's walk: every type whose file was found on the path is inserted
\* when the opened library passes load_plugin's checks; otherwise the old
\* entry stays.  WalkDir on a missing directory yields an error entry and
\* entry.unwrap() panics (WalkPanics).
walk(ld, libs, op) ==
    [t \in Types |-> IF Named(ld, t) # {} /\ load_plugin(disk[op[t]][t])
                        THEN disk[op[t]][t] ELSE libs[t]]

WalkPanics(ld) == \E d \in ToSet(ld) : ~dir_exists[d]

\* load_lib as a step on (loaded, load_libs, panicked), for the search path ld.
load_lib(ld, ldd) ==
    IF ldd THEN UNCHANGED <<loaded, load_libs, panicked>>
    ELSE IF WalkPanics(ld)
         THEN /\ panicked' = TRUE
              /\ UNCHANGED <<loaded, load_libs>>
         ELSE /\ \E op \in Openings(ld) : load_libs' = walk(ld, load_libs, op)
              /\ loaded' = TRUE
              /\ UNCHANGED panicked

update_dir_dup(args) ==
    FoldLeft(LAMBDA ld, d : IF dir_exists[d] THEN Append(ld, d) ELSE ld,
             library_dir, args)

\* update_dir: append each existing directory of the argument that is not
\* on the path yet.
update_dir(args) ==
    FoldLeft(LAMBDA ld, d : IF dir_exists[d] /\ ~Contains(ld, d)
                               THEN Append(ld, d) ELSE ld,
             library_dir, args)

\* update_library_dir: a new directory clears loaded, then load_lib runs.
update_library_dir(args) ==
    LET ld == update_dir(args) IN
    /\ library_dir' = ld
    /\ IF ld # library_dir THEN load_lib(ld, FALSE)
                           ELSE UNCHANGED <<loaded, load_libs, panicked>>

\* get_lib: Err when not loaded; on a miss, load_lib up to twice and look
\* again.  load_lib returns at once while loaded holds, so the retries see
\* the same table.  get_lib(t) is TRUE when a library is returned.
get_lib_retry(t) ==
    IF loaded /\ load_libs[t] = Absent
       THEN load_lib(library_dir, loaded)
       ELSE UNCHANGED <<loaded, load_libs, panicked>>

get_lib(t) == loaded /\ load_libs[t] # Absent

\* The constructor create_unit_obj_with_um resolves in the library.
HasParamsCtor(k) == k = "params"
-----------------------------------------------------------------------------
NoLibs == [t \in Types |-> Absent]

\* get_default_libpath: the first candidate directory that exists, or "".
DefaultDirs ==
    LET ex == SelectSeq(DefaultPath, LAMBDA d : dir_exists[d])
    IN IF ex = <<>> THEN <<>> ELSE <<Head(ex)>>

\* The INSTANCE initialiser: Plugin::new, then update_library_dir with the
\* default library path; the file system is in any state.
Init ==
    /\ dir_exists \in [Dirs -> BOOLEAN]
    /\ disk \in [Dirs -> [Types -> PluginKinds \cup {Absent}]]
    /\ \A d \in Dirs : ~dir_exists[d] => disk[d] = NoLibs
    /\ library_dir = DefaultDirs
    /\ loaded = (library_dir # <<>>)
    /\ \E op \in Openings(library_dir) : load_libs = walk(library_dir, NoLibs, op)
    /\ created = [t \in Types |-> "none"]
    /\ um_created = [t \in Types |-> "none"]
    /\ panicked = FALSE

Live == ~panicked

UpdateLibraryDir ==
    /\ Live
    /\ \E args \in BoundedSeq(Dirs, MaxArgDirs) : update_library_dir(args)
    /\ UNCHANGED <<dir_exists, disk, created, um_created>>

\* create_unit_obj_with_um: get_lib, then the with-params constructor.
CreateUnitObj(t) ==
    /\ Live
    /\ get_lib_retry(t)
    /\ created' = [created EXCEPT ![t] =
                      IF get_lib(t) /\ HasParamsCtor(load_libs[t]) THEN "ok" ELSE "err"]
    /\ UNCHANGED <<library_dir, dir_exists, disk, um_created>>

\* create_um_obj: get_lib, then __um_obj_create.
CreateUmObj(t) ==
    /\ Live
    /\ get_lib_retry(t)
    /\ um_created' = [um_created EXCEPT ![t] = IF get_lib(t) THEN "ok" ELSE "err"]
    /\ UNCHANGED <<library_dir, dir_exists, disk, created>>

\* File system: a directory is created or removed (with its files).
FsDir(d) ==
    /\ Live
    /\ dir_exists' = [dir_exists EXCEPT ![d] = ~@]
    /\ disk' = [disk EXCEPT ![d] = NoLibs]
    /\ UNCHANGED <<library_dir, loaded, load_libs, created, um_created, panicked>>

\* File system: a plugin file is installed, replaced or removed.
FsFile(d, t, k) ==
    /\ Live /\ dir_exists[d] /\ disk[d][t] # k
    /\ disk' = [disk EXCEPT ![d][t] = k]
    /\ UNCHANGED <<library_dir, loaded, load_libs, dir_exists, created,
                   um_created, panicked>>

Halted == panicked /\ UNCHANGED vars

Next ==
    \/ UpdateLibraryDir
    \/ \E t \in Types : CreateUnitObj(t) \/ CreateUmObj(t)
    \/ \E d \in Dirs : FsDir(d)
    \/ \E d \in Dirs, t \in Types, k \in PluginKinds \cup {Absent} : FsFile(d, t, k)
    \/ Halted

Spec == Init /\ [][Next]_vars

-----------------------------------------------------------------------------
TypeOK ==
    /\ library_dir \in Seq(Dirs) /\ Len(library_dir) <= Cardinality(Dirs)
    /\ loaded \in BOOLEAN /\ panicked \in BOOLEAN
    /\ load_libs \in [Types -> Files]
    /\ dir_exists \in [Dirs -> BOOLEAN]
    /\ disk \in [Dirs -> [Types -> Files]]
    /\ created \in [Types -> Results] /\ um_created \in [Types -> Results]

(* create_unit_obj_with_um fails only when no directory of the search path *)
(* holds a usable plugin of the type: the get_lib retry is there to pick   *)
(* up a plugin that was not loaded yet.                                    *)
CreateFindsInstalledPlugin ==
    [][ \A t \in Types :
          (CreateUnitObj(t) /\ created'[t] = "err")
             => ~\E d \in ToSet(library_dir) : disk[d][t] = "params" ]_vars

(* Loading plugins never panics the manager, whatever the file system does *)
(* to the directories on the search path.                                  *)
NoLoadPanic == ~panicked
=============================================================================
