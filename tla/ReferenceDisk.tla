--------------------------- MODULE ReferenceDisk ---------------------------
(* What the reference cache keeps on disk for each subtitle file, and the    *)
(* tests the program makes of it (opensubtitles/cache.rs):                   *)
(*   file-ID.attempt   the charge marker written before the POST,            *)
(*   file-ID.partial/  the staging directory of a download,                  *)
(*   file-ID/          the published entry, a renamed staging directory.     *)
(* A JSON document is known by the body whose size and SHA256 it records; a  *)
(* body is the full response or a prefix of it left by an interrupted write. *)
CONSTANT Files   \* file ids of the provider

Marks == {"none", "torn", "whole"}
Bodies == {"none", "prefix", "full"}
Documents == Bodies \union {"torn"}

Dirs == [there : BOOLEAN, receipt : Documents, body : Bodies, prov : Documents]

NoDir == [there |-> FALSE, receipt |-> "none", body |-> "none", prov |-> "none"]
EmptyDir == [NoDir EXCEPT !.there = TRUE]

VARIABLES marker,     \* file-ID.attempt
          partial,    \* file-ID.partial
          entry,      \* file-ID
          usable,     \* whether the provider's response parses as captions
          evicting,   \* entries whose eviction is under way: none or one
          wounded     \* history: files with a torn write or an interrupted
                      \* staging ("staging") or eviction ("eviction")

diskVars == <<marker, partial, entry, usable, evicting, wounded>>

Wounds == {"staging", "eviction"}

DiskTypeOK ==
    /\ marker \in [Files -> Marks]
    /\ partial \in [Files -> Dirs]
    /\ entry \in [Files -> Dirs]
    /\ usable \in [Files -> BOOLEAN]
    /\ evicting \in SUBSET Files
    /\ wounded \in [Files -> SUBSET Wounds]

DiskInit ==
    /\ marker = [f \in Files |-> "none"]
    /\ partial = [f \in Files |-> NoDir]
    /\ entry = [f \in Files |-> NoDir]
    /\ usable \in [Files -> BOOLEAN]
    /\ evicting = {}
    /\ wounded = [f \in Files |-> {}]

-----------------------------------------------------------------------------
(* A prefix of a subtitle file may parse as well as the whole.               *)
Parses(f, body) == body = "prefix" \/ (body = "full" /\ usable[f])

(* load_from: provenance and body agree, and the body parses.                *)
Loads(f, d) == d.body # "none" /\ d.prov = d.body /\ Parses(f, d.body)

(* What walk() demands of every published entry before anything else in the  *)
(* cache is read or written.                                                 *)
Intact(f) ==
    entry[f].there => /\ Loads(f, entry[f])
                      /\ entry[f].receipt = "none"
                      /\ marker[f] # "torn"

Inventoried == \A f \in Files : Intact(f)

(* The coordination lock is free: no eviction is under way.                  *)
Quiet == evicting = {}

(* finish_staging would publish the staging directory of f.                  *)
(* Mutations ("Mut...") are plausible bugs of the definition below them.     *)
MutAttestedPrefix(f) == marker[f] # "torn"
MutAttestedReceipt(f) == marker[f] # "torn" /\ partial[f].receipt = partial[f].body
Attested(f) ==
    /\ marker[f] # "torn"
    /\ \/ partial[f].receipt = partial[f].body
       \/ partial[f].receipt = "none" /\ partial[f].prov # "none"

Publishable(f) ==
    /\ partial[f].body # "none"
    /\ Attested(f)
    /\ Parses(f, partial[f].body)
    /\ partial[f].prov # "none" => Loads(f, partial[f])

(* No later invocation makes progress on f until somebody looks into it.     *)
NeedsReview(f) ==
    \/ marker[f] = "torn"
    \/ ~Intact(f)
    \/ partial[f].there /\ ~Publishable(f)

-----------------------------------------------------------------------------
(* space_for evicts a published entry that is neither pinned by the evicting *)
(* process nor in a season another process owns: content, provenance, the    *)
(* directory, then the marker.                                               *)
EvictBegin(f) ==
    /\ Quiet
    /\ Inventoried
    /\ entry[f].there
    /\ evicting' = {f}
    /\ entry' = [entry EXCEPT ![f].body = "none"]
    /\ UNCHANGED <<marker, partial, usable, wounded>>

EvictProvenance(f) ==
    /\ f \in evicting
    /\ entry[f].prov # "none"
    /\ entry' = [entry EXCEPT ![f].prov = "none"]
    /\ UNCHANGED <<marker, partial, usable, evicting, wounded>>

EvictDirectory(f) ==
    /\ f \in evicting
    /\ entry[f].there
    /\ entry[f].prov = "none"
    /\ entry' = [entry EXCEPT ![f] = NoDir]
    /\ UNCHANGED <<marker, partial, usable, evicting, wounded>>

EvictMarker(f) ==
    /\ f \in evicting
    /\ ~entry[f].there
    /\ marker' = [marker EXCEPT ![f] = "none"]
    /\ evicting' = {}
    /\ UNCHANGED <<partial, entry, usable, wounded>>

EvictStep(f) == EvictProvenance(f) \/ EvictDirectory(f) \/ EvictMarker(f)

(* The evicting process dies, or a removal is refused.                       *)
EvictStops(f) ==
    /\ f \in evicting
    /\ evicting' = {}
    /\ wounded' = IF entry[f].there
                  THEN [wounded EXCEPT ![f] = @ \union {"eviction"}]
                  ELSE wounded
    /\ UNCHANGED <<marker, partial, entry, usable>>
=============================================================================
