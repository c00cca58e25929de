------------------------------- MODULE GitRepo -------------------------------
(***************************************************************************)
(* The git tool (tools/git.rs): one repository of the workspace and its    *)
(* remote.  Every history is a line, for the tool never merges: a commit   *)
(* is the sequence of the trees up to it, its own the last.                *)
(***************************************************************************)
EXTENDS Common, Naturals, Sequences, FiniteSets, SequencesExt

CONSTANTS GitBranches, GitTags, GitTrees,
          GitMaxLog      \* bound: commits of a history

ASSUME GitConstants == None \notin GitBranches /\ None \notin Seq(GitTrees) /\ GitTrees # {}

VARIABLES
    gitHeads,    \* refs/heads: branch -> commit, None when there is none
    gitHead,     \* the branch HEAD names; None: not cloned yet
    gitTags,     \* refs/tags
    gitTracked,  \* refs/remotes/origin
    gitRemote,   \* the branches of the remote
    gitIndex, gitWork,  \* the tree of the index and of the working directory
    gitDid       \* history: "drops" when the last command may forget commits

gitVars == <<gitHeads, gitHead, gitTags, gitTracked, gitRemote, gitIndex, gitWork, gitDid>>

GitNoRefs(names) == [n \in names |-> None]
GitTip == gitHeads[gitHead]
GitCommits(refs) == {refs[n] : n \in DOMAIN refs} \ {None}
\* revparse_single: HEAD, a branch, a tag or a remote branch.
GitKnown == GitCommits(gitHeads) \cup GitCommits(gitTags) \cup GitCommits(gitTracked)
GitReachable(heads, tags) ==
    UNION {{SubSeq(c, 1, n) : n \in 1..Len(c)} : c \in GitCommits(heads) \cup GitCommits(tags)}

\* ensure_read_write_allowed: "branch" and "tag" write even where they list.
GitMay(readOnly, command) == readOnly => command \in {"status", "diff", "log"}
GitBegins(readOnly, command) == gitHead # None /\ GitMay(readOnly, command)

GitClone(ro) ==
    /\ gitHead = None /\ GitMay(ro, "clone")
    /\ \E b \in GitBranches :
          /\ gitRemote[b] # None
          /\ gitHead' = b
          /\ gitHeads' = [gitHeads EXCEPT ![b] = gitRemote[b]]
          /\ gitIndex' = Last(gitRemote[b]) /\ gitWork' = Last(gitRemote[b])
    /\ gitTracked' = gitRemote
    /\ gitDid' = "keeps" /\ UNCHANGED <<gitTags, gitRemote>>

\* status, diff and log.
GitRead(ro) == GitBegins(ro, "status") /\ gitDid' = "keeps" /\
    UNCHANGED <<gitHeads, gitHead, gitTags, gitTracked, gitRemote, gitIndex, gitWork>>

\* The index is written before the commit is made; all or the named paths are staged.
GitCommit(stages, ro) ==
    /\ GitBegins(ro, "commit")
    /\ gitIndex' = IF stages THEN gitWork ELSE gitIndex
    /\ LET past == IF GitTip = None THEN <<>> ELSE GitTip IN
       /\ Len(past) < GitMaxLog
       /\ gitHeads' = [gitHeads EXCEPT ![gitHead] = Append(past, gitIndex')]
    /\ gitDid' = "keeps" /\ UNCHANGED <<gitHead, gitTags, gitTracked, gitRemote, gitWork>>

\* Repository::branch without force.
GitCreates(b, c) == gitHeads[b] = None /\ c \in GitKnown

\* HEAD moves first: checkout_head then takes every file that differs from the new
\* HEAD for a change of the user's and leaves it.  A branch that does not exist
\* leaves HEAD there and fails.
GitCheckout(b, create, ro) ==
    /\ GitBegins(ro, "checkout")
    /\ IF create
       THEN \E c \in GitKnown : GitCreates(b, c) /\ gitHeads' = [gitHeads EXCEPT ![b] = c]
       ELSE UNCHANGED gitHeads
    /\ gitHead' = b
    /\ gitDid' = "keeps" /\ UNCHANGED <<gitTags, gitTracked, gitRemote, gitIndex, gitWork>>

GitCreateBranch(b, c, ro) ==
    /\ GitBegins(ro, "branch") /\ GitCreates(b, c)
    /\ gitHeads' = [gitHeads EXCEPT ![b] = c]
    /\ gitDid' = "keeps"
    /\ UNCHANGED <<gitHead, gitTags, gitTracked, gitRemote, gitIndex, gitWork>>

\* git_branch_delete refuses the branch of HEAD.
GitDeleteBranch(b, ro) ==
    /\ GitBegins(ro, "branch") /\ gitHeads[b] # None /\ b # gitHead
    /\ gitHeads' = [gitHeads EXCEPT ![b] = None]
    /\ gitDid' = "drops"
    /\ UNCHANGED <<gitHead, gitTags, gitTracked, gitRemote, gitIndex, gitWork>>

GitTag(t, c, force, ro) ==
    /\ GitBegins(ro, "tag") /\ c \in GitKnown
    /\ gitTags[t] = None \/ force
    /\ gitTags' = [gitTags EXCEPT ![t] = c]
    /\ gitDid' = IF gitTags[t] = None THEN "keeps" ELSE "drops"
    /\ UNCHANGED <<gitHeads, gitHead, gitTracked, gitRemote, gitIndex, gitWork>>

GitDeleteTag(t, ro) ==
    /\ GitBegins(ro, "tag") /\ gitTags[t] # None
    /\ gitTags' = [gitTags EXCEPT ![t] = None]
    /\ gitDid' = "drops"
    /\ UNCHANGED <<gitHeads, gitHead, gitTracked, gitRemote, gitIndex, gitWork>>

\* merge_analysis compares what was fetched with HEAD, whichever branch is pulled.
GitUpToDate(fetched) == GitTip # None /\ IsPrefix(fetched, GitTip)
GitForwards_Always(fetched) == TRUE
GitForwards(fetched) == GitTip = None \/ IsPrefix(GitTip, fetched)

\* fast_forward_branch: the branch named is set to what was fetched and checked out.
GitPull(b, ro) ==
    /\ GitBegins(ro, "pull") /\ gitRemote[b] # None
    /\ gitTracked' = [gitTracked EXCEPT ![b] = gitRemote[b]]
    /\ IF ~GitUpToDate(gitRemote[b]) /\ GitForwards(gitRemote[b])
       THEN /\ gitHeads' = [gitHeads EXCEPT ![b] = gitRemote[b]]
            /\ gitHead' = b
            /\ gitDid' = IF b = gitHead THEN "keeps" ELSE "pulls another"
       ELSE gitDid' = "keeps" /\ UNCHANGED <<gitHeads, gitHead>>
    /\ UNCHANGED <<gitTags, gitRemote, gitIndex, gitWork>>

\* Not forced: the remote takes only what continues its branch.
GitPush(b, ro) ==
    /\ GitBegins(ro, "push") /\ gitHeads[b] # None
    /\ gitRemote[b] = None \/ IsPrefix(gitRemote[b], gitHeads[b])
    /\ gitRemote' = [gitRemote EXCEPT ![b] = gitHeads[b]]
    /\ gitTracked' = [gitTracked EXCEPT ![b] = gitHeads[b]]
    /\ gitDid' = "keeps" /\ UNCHANGED <<gitHeads, gitHead, gitTags, gitIndex, gitWork>>

\* Other people push; files of the working directory are edited.
GitOthersPush ==
    /\ \E b \in GitBranches, v \in GitTrees :
          /\ gitRemote[b] = None \/ Len(gitRemote[b]) < GitMaxLog
          /\ gitRemote' = [gitRemote EXCEPT ![b] = IF @ = None THEN <<v>> ELSE Append(@, v)]
    /\ gitDid' = "keeps"
    /\ UNCHANGED <<gitHeads, gitHead, gitTags, gitTracked, gitIndex, gitWork>>
GitEdit ==
    /\ gitHead # None /\ gitWork' \in GitTrees /\ gitDid' = "keeps"
    /\ UNCHANGED <<gitHeads, gitHead, gitTags, gitTracked, gitRemote, gitIndex>>

GitInit ==
    /\ gitHeads = GitNoRefs(GitBranches) /\ gitTracked = GitNoRefs(GitBranches)
    /\ gitTags = GitNoRefs(GitTags)
    /\ gitRemote = [b \in GitBranches |-> <<CHOOSE v \in GitTrees : TRUE>>]
    /\ gitHead = None /\ gitIndex = None /\ gitWork = None /\ gitDid = "keeps"

GitNext ==
    \/ \E ro \in BOOLEAN :
        \/ GitClone(ro) \/ GitRead(ro)
        \/ \E stages \in BOOLEAN : GitCommit(stages, ro)
        \/ \E b \in GitBranches :
              GitCheckout(b, TRUE, ro) \/ GitCheckout(b, FALSE, ro) \/ GitDeleteBranch(b, ro)
              \/ GitPull(b, ro) \/ GitPush(b, ro)
        \/ \E b \in GitBranches, c \in GitKnown : GitCreateBranch(b, c, ro)
        \/ \E t \in GitTags, c \in GitKnown, force \in BOOLEAN : GitTag(t, c, force, ro)
        \/ \E t \in GitTags : GitDeleteTag(t, ro)
    \/ GitOthersPush \/ GitEdit

\* A commit a branch or a tag reaches is reached after every command, but for those
\* that delete or move a tag or delete a branch, and a pull of a branch HEAD is not
\* on: no checkout, commit, push or pull of the current branch forgets work, whatever
\* was pushed to the remote meanwhile.
GitCommitsKept ==
    [][gitDid' = "keeps" => GitReachable(gitHeads, gitTags) \subseteq GitReachable(gitHeads', gitTags')]_gitVars

GitSpec == GitInit /\ [][GitNext]_gitVars
=============================================================================
