------------------------------ MODULE MCFolders ------------------------------
(* Folders for TLC: two users, two servers, folder names one of which begins another. *)
EXTENDS Folders, TLC

CONSTANTS ann, bob, doc, s1, s2

MCFolderNames == {<<"a">>, <<"a", "/", "b">>, <<"c">>}
MCOnDisk      == (doc :> ann)
MCHome        == (doc :> 1)
MCOrder       == <<s1, s2>>
MCShared      == (doc :> {bob})
MCCommands    ==
  (ann :> {"CREATEFOLDER", "MOVE", "CREATE", "DELETE", "VIEW"})
    @@ (bob :> {"CREATEFOLDER", "MOVEFOLDER", "VIEW", "VIEWFOLDER"})
MCFlags       == {{"long"}, {"all"}}

=============================================================================
