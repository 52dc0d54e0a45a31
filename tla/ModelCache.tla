----------------------------- MODULE ModelCache ------------------------------
(***************************************************************************)
(* The cache of a model's artifacts (embeddings/src/artifacts.rs): the     *)
(* command --provision-models downloads a missing file into a staged one   *)
(* and renames it into place, and it and every daemon that starts verify   *)
(* the file's digest and then open it again to load it.  One file, which   *)
(* comes in two chunks.  All downloads of a file share the name they stage *)
(* it under; a file that was opened keeps being written whatever its name  *)
(* has become.                                                             *)
(***************************************************************************)
EXTENDS Integers

CONSTANTS
    Provisions,     \* runs of --provision-models
    Starts,         \* starts of a daemon
    MaxBad,         \* how many chunks arrive altered
    MaxCacheKills   \* how many processes are killed

VARIABLES
    content,    \* the chunks of each file that was opened, by the process that made it
    part,       \* the process whose file has the staged name, or Nobody
    final,      \* the process whose file has the artifact's name, or Nobody
    handle,     \* the file each download writes to
    loading,    \* the next step of each process
    loaded,     \* what each has loaded
    moved,      \* processes whose file was replaced or written after they verified it
    bad, broken

cachevars == <<content, part, final, handle, loading, loaded, moved, bad, broken>>

Users == Provisions \cup Starts
Nobody == "nobody"
Missing == [c \in {1, 2} |-> "missing"]
Good == [c \in {1, 2} |-> "good"]
Chunks == [{1, 2} -> {"missing", "good", "bad"}]

ASSUME CacheAssumption ==
    /\ Nobody \notin Users
    /\ MaxBad \in Nat /\ MaxCacheKills \in Nat

CacheInit ==
    /\ content = [p \in Users |-> Missing]
    /\ part = Nobody /\ final = Nobody
    /\ handle = [p \in Users |-> Nobody]
    /\ loading = [p \in Users |-> "start"]
    /\ loaded = [p \in Users |-> Missing]
    /\ moved = {}
    /\ bad = 0 /\ broken = 0

Moves(p, to) == loading' = [loading EXCEPT ![p] = to]
Disturbs == moved' = moved \cup {p \in Users : loading[p] = "load"}

-----------------------------------------------------------------------------
(* ensure_model, load_cached and download_one                              *)

\* ensure_model and load_cached: only the former fetches what is missing, and only when
\* it is missing.
Look(p) ==
    /\ loading[p] = "start"
    /\ Moves(p, CASE final # Nobody -> "verify"
                 [] p \in Provisions -> "fetch"
                 [] OTHER -> "failed")
    /\ UNCHANGED <<content, part, final, handle, loaded, moved, bad, broken>>

\* download_one: the request fails, or the staged file is created, which empties the file
\* another download has staged.
Fetch(p) ==
    /\ loading[p] = "fetch"
    /\ \/ /\ Moves(p, "failed")
          /\ UNCHANGED <<content, part, handle>>
       \/ /\ Moves(p, "first")
          /\ part' = IF part = Nobody THEN p ELSE part
          /\ handle' = [handle EXCEPT ![p] = part']
          /\ content' = [content EXCEPT ![part'] = Missing]
    /\ UNCHANGED <<final, loaded, moved, bad, broken>>

\* download_one: a chunk arrives and is written.
WriteChunk(p) ==
    /\ loading[p] \in {"first", "second"}
    /\ \E c \in {"good"} \cup (IF bad < MaxBad THEN {"bad"} ELSE {}) :
        /\ content' = [content EXCEPT ![handle[p]][IF loading[p] = "first" THEN 1 ELSE 2] = c]
        /\ bad' = IF c = "bad" THEN bad + 1 ELSE bad
    /\ Moves(p, IF loading[p] = "first" THEN "second" ELSE "publish")
    /\ IF handle[p] = final THEN Disturbs ELSE UNCHANGED moved
    /\ UNCHANGED <<part, final, handle, loaded, broken>>

\* download_one: the stream breaks, and the staged name is removed, whosever file it is.
BreakOff(p) ==
    /\ loading[p] \in {"first", "second"}
    /\ part' = Nobody
    /\ Moves(p, "failed")
    /\ UNCHANGED <<content, final, handle, loaded, moved, bad, broken>>

\* download_one: the rename, which fails when another download has taken the name away.
Publish(p) ==
    /\ loading[p] = "publish"
    /\ IF part = Nobody
         THEN Moves(p, "failed") /\ UNCHANGED <<part, final, moved>>
         ELSE /\ final' = part
              /\ part' = Nobody
              /\ Moves(p, "verify")
              /\ Disturbs
    /\ UNCHANGED <<content, handle, loaded, bad, broken>>

\* Mutant: the file that is there is taken for the right one.
VerifyNothing(p) ==
    /\ loading[p] = "verify"
    /\ Moves(p, "load")
    /\ UNCHANGED <<content, part, final, handle, loaded, moved, bad, broken>>

\* verify_digest, on the file that has the name now.
VerifyDigest(p) ==
    /\ loading[p] = "verify"
    /\ Moves(p, IF content[final] = Good THEN "load" ELSE "failed")
    /\ UNCHANGED <<content, part, final, handle, loaded, moved, bad, broken>>

\* load_verified: the file is opened again, and read without its digest.
Load(p) ==
    /\ loading[p] = "load"
    /\ loaded' = [loaded EXCEPT ![p] = content[final]]
    /\ Moves(p, "loaded")
    /\ UNCHANGED <<content, part, final, handle, moved, bad, broken>>

\* A process is killed; its staged file stays.
KillUser(p) ==
    /\ broken < MaxCacheKills
    /\ loading[p] \in {"first", "second", "publish"}
    /\ broken' = broken + 1
    /\ Moves(p, "failed")
    /\ UNCHANGED <<content, part, final, handle, loaded, moved, bad>>

CacheNext ==
    \E p \in Users :
        \/ Look(p) \/ Fetch(p) \/ WriteChunk(p) \/ BreakOff(p) \/ Publish(p)
        \/ VerifyDigest(p) \/ Load(p) \/ KillUser(p)

CacheSpec == CacheInit /\ [][CacheNext]_cachevars

-----------------------------------------------------------------------------
(* Correctness                                                             *)

\* Every variable keeps its type.
CacheTypeOK ==
    /\ content \in [Users -> Chunks] /\ loaded \in [Users -> Chunks]
    /\ {part, final} \subseteq Users \cup {Nobody}
    /\ handle \in [Users -> Users \cup {Nobody}]
    /\ loading \in [Users -> {"start", "fetch", "first", "second", "publish", "verify", "load",
                              "loaded", "failed"}]
    /\ moved \subseteq Users
    /\ bad \in 0..MaxBad /\ broken \in 0..MaxCacheKills

\* What a process loads is the model whole and unaltered, whatever downloads raced, broke
\* off or were killed, unless the file changed hands between its digest and its loading.
\* (With two provisions and no altered chunk the exception never comes: a torn file of one
\* is not there while the other is between its digest and its loading.  A third provision,
\* which publishes what it staged under the shared name, brings it about.)
LoadsWhatItVerified ==
    \A p \in Users : loading[p] = "loaded" => loaded[p] = Good \/ p \in moved
=============================================================================
