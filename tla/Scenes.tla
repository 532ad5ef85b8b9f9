------------------------------- MODULE Scenes --------------------------------
(***************************************************************************)
(* The scenes of a window (class StateMachine).  The main one shows a scene *)
(* at a time; the modal one shows it in a popup, which covers the window    *)
(* until it is closed.  Opening and closing are asked for and happen when   *)
(* the popup is drawn next; closed by the user, it keeps its scene.         *)
(***************************************************************************)

MainScene == {"GameRoomLooby", "Resume", "Play"}

ModalScene == {"Empty", "JoinGameRoom", "CreateGameRoom", "Settings", "HighScore", "About"}

Modal == [scene : ModalScene, openPopUp : BOOLEAN, closePopUp : BOOLEAN, visible : BOOLEAN]

NewModal == [scene |-> "Empty", openPopUp |-> FALSE, closePopUp |-> FALSE, visible |-> FALSE]

\* The flags are set whether the scene is another one or not.
switchTo(modal, scene) ==
  [modal EXCEPT !.scene = scene, !.openPopUp = scene # "Empty", !.closePopUp = scene = "Empty"]

\* The popup is drawn.
imGuiUpdate(modal) ==
  LET opened == modal.visible \/ modal.openPopUp IN
    [modal EXCEPT !.openPopUp = FALSE,
                  !.closePopUp = @ /\ ~opened,
                  !.visible = opened /\ ~modal.closePopUp]

\* "Cancel" or Escape, in a popup that is drawn.
cancelPopUp(modal) == [modal EXCEPT !.closePopUp = FALSE, !.visible = FALSE]
==============================================================================
