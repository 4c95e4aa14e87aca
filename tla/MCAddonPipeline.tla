--------------------------- MODULE MCAddonPipeline ---------------------------
(* Small instances of AddonPipeline for TLC. *)
EXTENDS AddonPipeline

\* No row is ever 30 minutes old, or any mid-pipeline state may be.
Fresh   == {{}}
Stalled == {{}, {"completed"}, {"organized"}, {"completed", "organized"}}
=============================================================================
