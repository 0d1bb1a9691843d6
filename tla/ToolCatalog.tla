---------------------------- MODULE ToolCatalog ----------------------------
(***************************************************************************)
(* The tools of tool-registry as their manifests declare them, and         *)
(* validate_tool_call: the gate between what a model asks and what runs.   *)
(***************************************************************************)
EXTENDS Permissions

Manifest(requires, risk, approval) ==
    [requires |-> requires, risk_level |-> risk, requires_user_approval |-> approval]

files_read  == Manifest({"file_read"}, "safe", FALSE)
files_list  == Manifest({"file_read"}, "safe", FALSE)
files_write == Manifest({"file_write"}, "moderate", TRUE)
files_edit  == Manifest({"file_write"}, "moderate", TRUE)

git_status == Manifest({"file_read"}, "safe", FALSE)
git_diff   == Manifest({"file_read"}, "safe", FALSE)
git_log    == Manifest({"file_read"}, "safe", FALSE)
git_branch == Manifest({"file_write"}, "moderate", TRUE)
git_commit == Manifest({"file_write"}, "high", TRUE)

milestone_list    == Manifest({"file_read"}, "safe", FALSE)
milestone_create  == Manifest({"file_write"}, "moderate", TRUE)
milestone_restore == Manifest({"file_write"}, "high", TRUE)

exec_python == Manifest({"process_execution"}, "high", TRUE)
exec_node   == Manifest({"process_execution"}, "high", TRUE)
exec_shell  == Manifest({"process_execution"}, "critical", TRUE)

github_push      == Manifest({"network"}, "critical", TRUE)
github_create_pr == Manifest({"network"}, "critical", TRUE)

Catalog ==
    [t \in {"files.read", "files.list", "files.write", "files.edit", "git.status", "git.diff",
            "git.log", "git.branch", "git.commit", "milestone.list", "milestone.create",
            "milestone.restore", "exec.python", "exec.node", "exec.shell", "github.push",
            "github.create_pr"} |->
        CASE t = "files.read" -> files_read       [] t = "files.list" -> files_list
          [] t = "files.write" -> files_write     [] t = "files.edit" -> files_edit
          [] t = "git.status" -> git_status       [] t = "git.diff" -> git_diff
          [] t = "git.log" -> git_log             [] t = "git.branch" -> git_branch
          [] t = "git.commit" -> git_commit       [] t = "milestone.list" -> milestone_list
          [] t = "milestone.create" -> milestone_create
          [] t = "milestone.restore" -> milestone_restore
          [] t = "exec.python" -> exec_python     [] t = "exec.node" -> exec_node
          [] t = "exec.shell" -> exec_shell       [] t = "github.push" -> github_push
          [] t = "github.create_pr" -> github_create_pr]

\* A tool answers calls while its worker is well.
is_callable_now(registry, t) == t \in DOMAIN registry /\ registry[t] = "ok"

\* The parent of a run is <<>> or <<its permissions>>.
check_subagent_invariant(ctx) == ctx.parent = <<>> \/ is_subset_of(ctx.permissions, ctx.parent[1])

Answer(call) == CASE call.approval = "none"    -> "approval_required"
                  [] call.approval = "denied"  -> "rejected"
                  [] call.approval = "granted" -> "approved"

\* A call is well-formed when its version is the manifest's, its arguments
\* fit the schema and its path, if it reads one, is inside the jail.
validate_tool_call(ctx, call) ==
    IF \/ ~ is_callable_now(ctx.registry, call.tool)
       \/ ~ call.wellFormed
       \/ call.tool \notin ctx.allowed
       \/ ~ check_subagent_invariant(ctx)
       \/ "file_read" \in Catalog[call.tool].requires /\ ctx.permissions.level["file_read"] = 0
    THEN "rejected"
    ELSE IF Catalog[call.tool].requires_user_approval THEN Answer(call) ELSE "approved"
=============================================================================
