--------------------------- MODULE MCEditorPanels ---------------------------
(* Instances of EditorPanels; see the .cfg files. *)
EXTENDS EditorPanels

\* Other windows cancel and replace the jobs of every panel.
MCOutside == Panels \X {"canceled", "superseded"}

=============================================================================
