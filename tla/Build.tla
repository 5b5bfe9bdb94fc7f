-------------------------------- MODULE Build --------------------------------
(***************************************************************************)
(* build.py: download, import of the sieve client, instrumentation, build, *)
(* tag and push of the two images, the kind node (Kubernetes) and the      *)
(* controller.  Every command may fail; all but one of the failures end    *)
(* the process and leave the source tree as it is at that moment.          *)
(***************************************************************************)
EXTENDS Integers, Sequences

CONSTANTS
    MaxBuilds,       \* bound: processes
    NoTree           \* there is no such tree or image

Targets == {"node", "controller"}
BuildModes == {"vanilla", "learn", "test"}

ASSUME BuildAssumption == MaxBuilds \in Nat

VARIABLES
    stage,           \* the step that the process is at
    request,         \* its target, build_only and push_to_remote
    modes,           \* the modes that it still has to build, the current one first
    tree,            \* the source trees: the client is imported, the modes of the
                     \* instrumentations
    latest,          \* the image under the name that the build gives it
    image,           \* the images by target and tag
    remote,          \* those in the registry
    builds

buildVars == <<stage, request, modes, tree, latest, image, remote, builds>>

BuildInit ==
    /\ stage = "idle" /\ modes = <<>> /\ builds = 0
    /\ request = [target |-> "node", build_only |-> FALSE, push |-> FALSE]
    /\ tree = [t \in Targets |-> NoTree] /\ latest = [t \in Targets |-> NoTree]
    /\ image = [t \in Targets |-> [m \in BuildModes |-> NoTree]]
    /\ remote = image

tgt == request.target
this_mode == Head(modes)

\* The options that main accepts; build_only is of the controller's build only.
Make(target, mode, build_only, push) ==
    /\ stage = "idle" /\ builds < MaxBuilds
    /\ build_only => target = "controller" /\ mode # "all"
    /\ request' = [target |-> target, build_only |-> build_only, push |-> push]
    /\ modes' = IF mode = "all" THEN <<"learn", "test", "vanilla">> ELSE <<mode>>
    /\ stage' = IF build_only THEN "build" ELSE "download"
    /\ builds' = builds + 1
    /\ UNCHANGED <<tree, latest, image, remote>>

Advance(next) == stage' = next /\ UNCHANGED <<request, modes, builds>>

\* A command has failed.
StageFails ==
    /\ stage \in {"install", "instrument", "build", "push"} \/ (stage = "tag" /\ tgt = "node")
    /\ Advance("idle")
    /\ UNCHANGED <<tree, latest, image, remote>>

\* Mutant: a tree that is there is taken as it is.
Download_Reuses ==
    /\ stage = "download"
    /\ tree' = [tree EXCEPT ![tgt] =
         IF @ = NoTree THEN [client |-> FALSE, instrumented |-> <<>>] ELSE @]
    /\ Advance("install")
    /\ UNCHANGED <<latest, image, remote>>

\* The old tree is removed first; the clone may fail.
Download ==
    /\ stage = "download"
    /\ \/ /\ tree' = [tree EXCEPT ![tgt] = [client |-> FALSE, instrumented |-> <<>>]]
          /\ Advance("install")
       \/ /\ tree' = [tree EXCEPT ![tgt] = NoTree]
          /\ Advance("idle")
    /\ UNCHANGED <<latest, image, remote>>

InstallLib ==
    /\ stage = "install"
    /\ tree' = [tree EXCEPT ![tgt].client = TRUE]
    /\ Advance("instrument")
    /\ UNCHANGED <<latest, image, remote>>

Instrument ==
    /\ stage = "instrument"
    /\ tree' = [tree EXCEPT ![tgt].instrumented = Append(@, this_mode)]
    /\ Advance("build")
    /\ UNCHANGED <<latest, image, remote>>

BuildImage ==
    /\ stage = "build" /\ tree[tgt] # NoTree
    /\ latest' = [latest EXCEPT ![tgt] =
         [tree |-> tree[tgt], build_only |-> request.build_only]]
    /\ Advance("tag")
    /\ UNCHANGED <<tree, image, remote>>

\* docker tag; for the controller, its exit code is not looked at.
Tag ==
    /\ stage = "tag"
    /\ \/ image' = [image EXCEPT ![tgt][this_mode] = latest[tgt]]
       \/ tgt = "controller" /\ image' = image
    /\ Advance(IF request.push THEN "push" ELSE "next")
    /\ UNCHANGED <<tree, latest, remote>>

Push ==
    /\ stage = "push" /\ image[tgt][this_mode] # NoTree
    /\ remote' = [remote EXCEPT ![tgt][this_mode] = image[tgt][this_mode]]
    /\ Advance("next")
    /\ UNCHANGED <<tree, latest, image>>

\* The loop over the modes in the two wrappers.
NextMode ==
    /\ stage = "next"
    /\ modes' = Tail(modes)
    /\ stage' = IF Len(modes) = 1 THEN "idle" ELSE "download"
    /\ UNCHANGED <<request, tree, latest, image, remote, builds>>

BuildNext ==
    \/ \E t \in Targets, m \in BuildModes \cup {"all"}, b, p \in BOOLEAN : Make(t, m, b, p)
    \/ Download \/ InstallLib \/ Instrument \/ BuildImage \/ Tag \/ Push \/ NextMode
    \/ StageFails

BuildSpec == BuildInit /\ [][BuildNext]_buildVars
-----------------------------------------------------------------------------
\* An image with the tag of a mode, here or in the registry, has the client and was
\* instrumented once, for that mode, whatever builds have failed before it; only
\* --build_only may put a tag on a tree that was prepared for something else.
ImageOfMode ==
    \A t \in Targets, m \in BuildModes : \A i \in {image[t][m], remote[t][m]} :
        i # NoTree /\ ~i.build_only => i.tree = [client |-> TRUE, instrumented |-> <<m>>]
==============================================================================
