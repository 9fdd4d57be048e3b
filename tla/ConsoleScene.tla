----------------------------- MODULE ConsoleScene -----------------------------
(***************************************************************************)
(* The web interface shows one page or dialog at a time (src/App.tsx):     *)
(* "scene" says which, "at" is the record that the module of it keeps.     *)
(***************************************************************************)
CONSTANT Scenes   \* the pages and dialogs that are gone through
VARIABLES scene, at
vars == <<scene, at>>
=============================================================================
