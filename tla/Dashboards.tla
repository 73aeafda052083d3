----------------------------- MODULE Dashboards -----------------------------
(***************************************************************************)
(* The grafana-dashboard integration: GrafanaDashboardProvider, which keeps *)
(* the dashboards of the charm's revision in every unit's stored state and  *)
(* publishes the leader's, and GrafanaDashboardConsumer, which renders      *)
(* those it can parse into its peer databag.                                *)
(***************************************************************************)
EXTENDS CharmHooks

CONSTANTS
    Files,          \* names of dashboard files
    FilesOf,        \* the dashboard files of each revision
    Unparsable      \* files whose content is not JSON

ASSUME FilesAssumption == FilesOf \in [Revisions -> SUBSET Files]

VARIABLES
    templates,      \* per unit, _stored.dashboard_templates: file and revision
    dashboards,     \* the templates in the application's databag, or None
    rendered,       \* the dashboards in Grafana's peer databag
    rendering       \* the databag changed since Grafana's leader read it

dashboardVars == <<templates, dashboards, rendered, rendering>>

Templates == Files \X Revisions

ASSUME NoDashboardsAssumption == \A ts \in SUBSET Templates : ts # None

DashboardsInit ==
    /\ templates = [u \in Units |-> {}]
    /\ dashboards = None
    /\ rendered = {}
    /\ rendering = FALSE

DashboardsTypeOK ==
    /\ templates \in [Units -> SUBSET Templates]
    /\ dashboards \in (SUBSET Templates) \cup {None}
    /\ rendered \in SUBSET Templates
    /\ rendering \in BOOLEAN

(* A fault: the files of the earlier revision stay in the stored state. *)
FromDirAccumulated(u) ==
    {t \in templates[u] : t[1] \notin FilesOf[running[u]]} \cup (FilesOf[running[u]] \X {running[u]})

(* _update_all_dashboards_from_dir forgets every "file:" entry first. *)
FromDir(u) == FilesOf[running[u]] \X {running[u]}

(* _upset_dashboards_on_relation. *)
Upset(u) == dashboards' = templates'[u] /\ rendering' = TRUE

(* A fault: a new integration does not publish. *)
ReadingWithoutCreated(u, k) == k \in {<<"leader-elected">>, <<"upgrade-charm">>}

(* leader-elected and upgrade-charm refresh the stored state of any unit;    *)
(* relation-created only that of the leader, which alone publishes.          *)
Reading(u, k) ==
    \/ k \in {<<"leader-elected">>, <<"upgrade-charm">>}
    \/ k = <<"grafana-dashboard", "created">> /\ u = leader

DashboardHook(u, k) ==
    /\ templates' = IF Reading(u, k) THEN [templates EXCEPT ![u] = FromDir(u)] ELSE templates
    /\ IF Reading(u, k) /\ u = leader /\ "grafana-dashboard" \in Visible(u, k) THEN Upset(u)
       ELSE UNCHANGED <<dashboards, rendering>>
    /\ UNCHANGED rendered

(* _render_dashboards_and_signal_changed in Grafana's leader. *)
Render ==
    /\ "grafana-dashboard" \in related \ dying
    /\ rendering
    /\ rendered' = {t \in dashboards : t[1] \notin Unparsable}
    /\ rendering' = FALSE
    /\ UNCHANGED <<juju, templates, dashboards>>

(* _on_grafana_dashboard_relation_broken: before the next integration. *)
NewDashboards(e) ==
    IF e = "grafana-dashboard" THEN
        /\ dashboards' = None
        /\ rendered' = {}
        /\ rendering' = FALSE
        /\ UNCHANGED templates
    ELSE UNCHANGED dashboardVars

-----------------------------------------------------------------------------
(* However the leadership moved while a refresh was rolled out, in the end   *)
(* Grafana shows the dashboards of the revision that runs and none of an     *)
(* earlier one (_update_all_dashboards_from_dir, _upset_dashboards_on_       *)
(* relation).                                                                *)
SettledDashboards ==
    Settled /\ "grafana-dashboard" \in related \ dying /\ ~rendering =>
        rendered = (FilesOf[revision] \ Unparsable) \X {revision}
=============================================================================
