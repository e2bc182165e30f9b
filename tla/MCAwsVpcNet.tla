---------------------------- MODULE MCAwsVpcNet ----------------------------
EXTENDS AwsVpcNet

\* Group 1 gives access to the cluster, group 2 is a basic one, group 3 is for
\* fenced machines.  The first interface needs two chunks of a backup.
MCHome == <<{1, 2}, {1}>>

Given(off, on) == [a \in {"off", "on"} |-> IF a = "off" THEN off ELSE on]
NoOption == <<{}, {}>>

\* --invert-sg-removal with the group for fenced machines, and tags.
ByTags == [secg |-> {3}, keep |-> TRUE, desired |-> Given(NoOption, NoOption), self |-> "none",
           ignoreState |-> FALSE, ignoreTags |-> FALSE, poweroff |-> FALSE, ignoreRestore |-> FALSE]
\* The same with options for the interfaces.
ByOptions == [ByTags EXCEPT !.desired = Given(MCHome, MCHome)]

MCSetups == {
    ByTags,
    [ByTags EXCEPT !.ignoreTags = TRUE, !.poweroff = TRUE],
    [ByTags EXCEPT !.secg = {1}, !.keep = FALSE],
    [ByTags EXCEPT !.secg = {2}, !.keep = FALSE],
    [ByTags EXCEPT !.ignoreRestore = TRUE, !.self = "p"],
    [ByOptions EXCEPT !.poweroff = TRUE],
    [ByOptions EXCEPT !.ignoreState = TRUE],
    \* Groups for fenced machines by the options for the interfaces.
    [ByOptions EXCEPT !.secg = {}, !.desired = Given(<<{3}, {3}>>, MCHome)],
    [ByOptions EXCEPT !.secg = {}, !.desired = Given(<<{3}, {3}>>, <<{1, 2}, {}>>), !.ignoreState = TRUE],
    [ByTags EXCEPT !.secg = {}],
    \* An off by tags, and an on by options.
    [ByTags EXCEPT !.desired = Given(NoOption, MCHome), !.ignoreState = TRUE]}
=============================================================================
