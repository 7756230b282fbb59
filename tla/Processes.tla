----------------------------- MODULE Processes -----------------------------
(* The processes that may synchronise a source: both end up in             *)
(* sync_source_with_tracking, inside `with sync_lock(...)`.                *)

CONSTANTS
  Task,     \* Celery worker processes, which run sync_source_task
  Command   \* shells running `manage.py sync_source`

ASSUME ProcessAssumption == Task \cap Command = {}

Worker == Task \cup Command

=============================================================================
