-------------------------- MODULE CompositionRoot --------------------------
(***************************************************************************)
(* What the publisher of a Buck2 composition root promises, without locks, *)
(* journal or crashes: the generated files of a workspace change from one  *)
(* whole generation to the next in a single step.  Somebody else may       *)
(* replace a file by hand; such a file is nobody's to overwrite.           *)
(***************************************************************************)
CONSTANTS
  Gens,      \* generations that can be published
  Paths,     \* generated files
  Config,    \* .buckconfig, the file Buck takes as the authority of the root
  Manifest,  \* the generation manifest: names every file with its hash
  Output,    \* Output[g][f]: the content of f in generation g, Absent if g has no f
  Absent,
  Foreign    \* bytes no generation produced

VARIABLE content  \* content[f]: the file f as the workspace is to be understood

Init == content = [f \in Paths |-> Absent]

\* The root becomes generation g at once.
Publish(g) ==
  content' = [f \in Paths |-> IF content[f] = Foreign THEN Foreign ELSE Output[g][f]]

Gone(f) == content[f] \in {Absent, Foreign}

\* Teardown: not atomic, but nothing goes before the authority has gone, and the
\* manifest, which says whose the others are, goes last.
Retract(f) ==
  /\ content[f] # Foreign
  /\ f # Config => Gone(Config)
  /\ f = Manifest => \A g \in Paths \ {Manifest} : Gone(g)
  /\ content' = [content EXCEPT ![f] = Absent]

Edit(f) == content' = [content EXCEPT ![f] = Foreign]

Next == (\E g \in Gens : Publish(g)) \/ (\E f \in Paths : Retract(f) \/ Edit(f))

Spec == Init /\ [][Next]_content
=============================================================================
