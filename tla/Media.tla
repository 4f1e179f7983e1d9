------------------------------- MODULE Media --------------------------------
(***************************************************************************)
(* Two parts of the image builder that share no state: its download cache  *)
(* (F), used by one build at a time, and the kernel modules it selects and *)
(* the node then loads (M).                                                *)
(***************************************************************************)
CONSTANTS
  Builds, MaxFaults,                \* those of Fetch
  All, Tables, RootLists, MaxDepth  \* those of Modules

VARIABLES
  f_at, f_fd, f_tmp, f_cached, f_data, f_got, f_faults,
  m_deps, m_roots, m_bad, m_phase, m_k, m_stack, m_seen, m_out, m_files,
  m_loaded, m_failed

F == INSTANCE Fetch WITH
  Shared <- FALSE, at <- f_at, fd <- f_fd, tmp <- f_tmp, cached <- f_cached,
  data <- f_data, got <- f_got, faults <- f_faults

M == INSTANCE Modules WITH
  deps <- m_deps, roots <- m_roots, bad <- m_bad, phase <- m_phase, k <- m_k,
  stack <- m_stack, seen <- m_seen, out <- m_out, files <- m_files,
  loaded <- m_loaded, failed <- m_failed

ASSUME MediaAssumption == F!FetchAssumption /\ M!ModulesAssumption

-----------------------------------------------------------------------------
(* Fetch: a build only uses what its pinned hash says, wherever an earlier *)
(* build was cut off and whatever the server sent, and a file with an      *)
(* artifact's name in the cache is whole.                                  *)
UsedIsPinned == F!TypeOK /\ F!UsedIsPinned /\ F!CachedIsWhole

(* Modules: the walk over modules.dep ends on every table, every module is *)
(* listed once, after its dependencies, and a node loads exactly those the *)
(* kernel accepts with all they need.                                      *)
ModulesLoad == M!NeverTooDeep /\ M!DependenciesFirst /\ M!LoadsAllItCan
=============================================================================
