-------------------------------- MODULE Media --------------------------------
(***************************************************************************)
(* What a game shows: texts (src/src/string.c, utfsjis.c), images          *)
(* (src/src/qnt.c, pms.c, cg.c with dcf.c, webp.c and pcf.c), and the      *)
(* fonts (src/src/fnl.c).  They share no state: a behaviour is that of one *)
(* of them, `work` says which.                                             *)
(***************************************************************************)
EXTENDS SjisTextCheck, Fnl

CONSTANTS NULL,
          Pictures, Undefined,                    \* of Qnt
          PmsPictures,                            \* of Pms
          CgArchives, Clear, Key, Chunk, MaxDepth \* of CgLoad

VARIABLES work,  \* "text", "qnt", "pms", "load" or "font"
          picture, file, cg,
          pms, place, stage, pixels, alpha, result,
          archive, asked, stack, based, value, loading

QntImage == INSTANCE Qnt
PmsImage == INSTANCE Pms
Loader   == INSTANCE CgLoad

qntVars  == <<picture, file, cg>>
pmsVars  == <<pms, place, stage, pixels, alpha, result>>
loadVars == <<archive, asked, stack, based, value, loading>>
varsMedia == <<work, vars, qntVars, pmsVars, loadVars, fontVars>>

\* What the others have, where one works.
NoQnt  == picture = NULL /\ file = NULL /\ cg = NULL
NoPms  == pms = NULL /\ place = 0 /\ stage = "done" /\ pixels = <<>> /\ alpha = <<>> /\ result = NULL
NoLoad == archive = <<>> /\ asked = NULL /\ stack = <<>> /\ based = FALSE /\ value = NULL /\ loading = "idle"

InitMedia ==
  /\ Init /\ InitFont
  /\ \/ work \in {"text", "font"} /\ NoQnt /\ NoPms /\ NoLoad
     \/ work = "qnt"  /\ QntImage!Init /\ NoPms /\ NoLoad
     \/ work = "pms"  /\ PmsImage!Init /\ NoQnt /\ NoLoad
     \/ work = "load" /\ Loader!Init   /\ NoQnt /\ NoPms

\* The steps of a load that was begun.
LoadStep == work = "load" /\ Loader!Step /\ UNCHANGED <<work, vars, qntVars, pmsVars, fontVars>>

NextMedia ==
  \/ LoadStep
  \/ /\ UNCHANGED work
     /\ \/ work = "text" /\ Next          /\ UNCHANGED <<qntVars, pmsVars, loadVars, fontVars>>
        \/ work = "qnt"  /\ QntImage!Next /\ UNCHANGED <<vars, pmsVars, loadVars, fontVars>>
        \/ work = "pms"  /\ PmsImage!Next /\ UNCHANGED <<vars, qntVars, loadVars, fontVars>>
        \/ work = "load" /\ Loader!Begin  /\ UNCHANGED <<vars, qntVars, pmsVars, fontVars>>
        \/ work = "font" /\ NextCode      /\ UNCHANGED <<vars, qntVars, pmsVars, loadVars>>

SpecMedia == InitMedia /\ [][NextMedia]_varsMedia /\ WF_varsMedia(LoadStep)
-----------------------------------------------------------------------------
(* An image is decoded to what was written, whatever its format and the    *)
(* way it was packed, and shows what its file and its bases show together. *)
ImagesDecoded ==
  /\ work = "qnt"  => QntImage!PictureReadBack
  /\ work = "pms"  => PmsImage!PictureUnpacked
  /\ work = "load" => Loader!ImageComposed

(* Loading an image ends, unless its bases run in a circle.                *)
LoadEnds == Loader!LoadEnds
=============================================================================
