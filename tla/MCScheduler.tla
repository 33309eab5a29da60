----------------------------- MODULE MCScheduler -----------------------------
(* Instances of Scheduler for TLC: which jobs are asked for, and on which lanes. *)
EXTENDS Scheduler

Job(kind, payload) == [kind |-> kind, payload |-> payload, binds |-> FALSE]

MCInline == Job("detect_client", "none")
MCMenu   == {"MENU"}
MCCores  == {"MENU", "SNES"}

\* DAT imports that batch.
DatJobs == {Job("dat_import", "a"), Job("dat_import", "b")}

\* The two lanes the gate holds.
MixedJobs == {Job("scan", "snes"), Job("dat_import", "a")}

\* Two kinds a restart runs again, of which one joins a job that is paused, and one it
\* must not, the only kind a user can cancel.
RepeatJobs == {Job("dat_import", "a"), Job("recompute_1g1r", "nes"), Job("url_fetch", "t1")}

=============================================================================
