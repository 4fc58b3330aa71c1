----------------------------- MODULE FormParser -----------------------------
(***************************************************************************)
(* The parsers of multipart forms, part by part: FormData::parse of a      *)
(* registration and FormData::parsePhotoOnly in the auth server,           *)
(* FormDataParser::getContent in the content server.                       *)
(*                                                                         *)
(* A form is the sequence of its parts; the last one may lack the          *)
(* delimiter that closes it.  What a parser extracts is written as the     *)
(* number of the part it comes from, 0 for none.  photo_type in addPhoto   *)
(* is a view of a string that is gone: it may read as anything, Garbage.   *)
(***************************************************************************)
EXTENDS Integers, Sequences

CONSTANTS
    Names,        \* names of parts, "password" among them
    MaxFiles,     \* file names, in the order of std::string, are 1..MaxFiles
    MaxParts      \* parts of a form

ASSUME NamesAssumption == "password" \in Names
ASSUME BoundsAssumption == MaxFiles \in Nat /\ MaxParts \in Nat

(* A part is a file, with a file name and a Content-Type, or a field.      *)
Garbage == -1
Parts == [name : Names, file : 0..MaxFiles]
Forms == UNION {[1..n -> Parts] : n \in 0..MaxParts}
IsFile(part) == part.file # 0

VARIABLES
    parser,       \* "registration", "photoOnly" or "getContent"
    form, closed, \* the parts, and whether the last one is delimited
    part,         \* the part that startPositon or start_p has reached
    isNextPhoto,
    properties,   \* userProperties or output_collection: the part last named so
    type,         \* userProperties["photo_type"], output_collection["Content-Type"]
    files,        \* filesCoordinates: the part last with this file name
    photo,        \* binaryData
    status        \* "parsing", "parsed", "throws" or "undefined"

input == <<parser, form, closed>>
vars == <<parser, form, closed, part, isNextPhoto, properties, type, files, photo, status>>

Delimited == IF closed THEN Len(form) ELSE Len(form) - 1

Init ==
    /\ parser \in {"registration", "photoOnly", "getContent"}
    /\ form \in Forms /\ closed \in BOOLEAN
    /\ part = 1 /\ isNextPhoto = FALSE
    /\ properties = [n \in Names |-> 0]
    /\ type = 0 /\ photo = 0
    /\ files = [f \in 1..MaxFiles |-> 0]
    /\ status = "parsing"

Parsing(who) == status = "parsing" /\ parser = who

-----------------------------------------------------------------------------
(* FormData::separatorToPropertis, an iteration of its loop. *)

(* A possible slip: a part without a type is a photo all the same. *)
addPhotoUntyped ==
    /\ files' = [files EXCEPT ![IF IsFile(form[part]) THEN form[part].file ELSE 1] = part]
    /\ type' = part /\ part' = part + 1
    /\ UNCHANGED status

(* addPhoto: getType throws when the part has no Content-Type. *)
addPhoto ==
    IF IsFile(form[part])
    THEN /\ files' = [files EXCEPT ![form[part].file] = part]
         /\ type' \in {part, Garbage}
         /\ part' = part + 1
         /\ UNCHANGED status
    ELSE status' = "throws" /\ UNCHANGED <<files, type, part>>

(* A possible slip: a file before the password is refused.                 *)
fieldOnly ==
    /\ Parsing("registration") /\ part <= Delimited /\ ~isNextPhoto
    /\ IsFile(form[part]) /\ status' = "throws"
    /\ UNCHANGED <<input, part, isNextPhoto, properties, type, files, photo>>

(* find("Content-Type:", pos, n) takes n for the length of what it is to   *)
(* find, reads on behind the literal and finds nothing.  So a file before  *)
(* the password is stored as a field too, but the name that                *)
(* getPropertisName reads takes in the file's and is none of Names.        *)
field ==
    /\ Parsing("registration") /\ part <= Delimited /\ ~isNextPhoto
    /\ IF IsFile(form[part]) THEN UNCHANGED <<properties, isNextPhoto>>
       ELSE /\ properties' = [properties EXCEPT ![form[part].name] = part]
            /\ isNextPhoto' = (form[part].name = "password")
    /\ part' = part + 1
    /\ UNCHANGED <<input, type, files, photo, status>>

(* A possible slip, or the repair: one photo is all that is expected. *)
photoAfterPasswordOnce ==
    /\ Parsing("registration") /\ part <= Delimited /\ isNextPhoto
    /\ addPhoto
    /\ isNextPhoto' = FALSE
    /\ UNCHANGED <<input, properties, photo>>

photoAfterPassword ==
    /\ Parsing("registration") /\ part <= Delimited /\ isNextPhoto
    /\ addPhoto
    /\ UNCHANGED <<input, isNextPhoto, properties, photo>>

(* FormData::parsePhotoOnly: the first part, and no other. *)
parsePhotoOnly ==
    /\ Parsing("photoOnly") /\ part = 1 /\ Delimited >= 1
    /\ addPhoto
    /\ UNCHANGED <<input, isNextPhoto, properties, photo>>

(* parse_post_t takes the first of filesCoordinates in the order of names. *)
parse_post_t ==
    /\ \/ Parsing("registration") /\ part > Delimited
       \/ Parsing("photoOnly") /\ part = 2
    /\ \E f \in DOMAIN files :
          /\ files[f] # 0 /\ \A g \in DOMAIN files : files[g] # 0 => f <= g
          /\ photo' = files[f]
    /\ status' = "parsed"
    /\ UNCHANGED <<input, part, isNextPhoto, properties, type, files>>

(* Without a file begin() is end(), and reading there is undefined.  What  *)
(* has no delimiter at all has thrown before.                              *)
parse_post_tNoFile ==
    /\ Parsing("registration") /\ part > Delimited
    /\ \A f \in DOMAIN files : files[f] = 0
    /\ status' = IF Delimited < 0 THEN "throws" ELSE "undefined"
    /\ UNCHANGED <<input, part, isNextPhoto, properties, type, files, photo>>

parsePhotoOnlyThrows ==
    /\ Parsing("photoOnly") /\ part = 1 /\ Delimited < 1
    /\ status' = "throws"
    /\ UNCHANGED <<input, part, isNextPhoto, properties, type, files, photo>>

-----------------------------------------------------------------------------
(* FormDataParser::getContent: addProperty, and once even for a part that  *)
(* nothing closes.  Without any delimiter positions wrap round.            *)

addProperty ==
    /\ Parsing("getContent") /\ part <= Len(form)
    /\ part = 1 \/ part <= Delimited
    /\ type' = IF IsFile(form[part]) THEN part ELSE type
    /\ properties' = [properties EXCEPT ![form[part].name] = part]
    /\ part' = part + 1
    /\ UNCHANGED <<input, isNextPhoto, files, photo, status>>

getContentEnd ==
    /\ Parsing("getContent")
    /\ part > Len(form) \/ (part > 1 /\ part > Delimited)
    /\ status' \in IF Delimited < 0 THEN {"throws", "parsed"} ELSE {"parsed"}
    /\ UNCHANGED <<input, part, isNextPhoto, properties, type, files, photo>>

Next ==
    \/ field \/ photoAfterPassword \/ parsePhotoOnly \/ parsePhotoOnlyThrows
    \/ parse_post_t \/ parse_post_tNoFile
    \/ addProperty \/ getContentEnd

Spec == Init /\ [][Next]_vars

-----------------------------------------------------------------------------

Latest(parts) == IF parts = {} THEN 0
                 ELSE CHOOSE i \in parts : \A j \in parts : j <= i
Field(i, n) == ~IsFile(form[i]) /\ form[i].name = n

(* The last part of the fields, for a registration: the password. *)
Fields == {i \in 1..Delimited : \A j \in 1..i - 1 : ~Field(j, "password")}

(* Every parameter of a registration is the last field of its name up to   *)
(* the password; of a new post, the last part of its name, file or not.    *)
FieldsMean == status = "parsed" => \A n \in Names :
    CASE parser = "registration" -> properties[n] = Latest({i \in Fields : Field(i, n)})
      [] parser = "getContent" /\ closed ->
            properties[n] = Latest({i \in DOMAIN form : form[i].name = n})
      [] OTHER -> TRUE

(* What is stored as the picture of a registration, or of a profile, is a  *)
(* file of the form, in a registration one that follows the password.  Its *)
(* recorded type is read from the same part unless the form has several    *)
(* files, or is a view of nothing; so is that of a post's picture.         *)
PhotoMeans ==
    /\ status = "parsed" /\ parser # "getContent" =>
          /\ photo # 0 /\ IsFile(form[photo])
          /\ parser = "registration" => photo \notin Fields
          /\ \/ type \in {photo, Garbage}
             \/ \E i \in 1..Delimited : i # photo /\ i \notin Fields /\ IsFile(form[i])
    /\ status = "parsed" /\ parser = "getContent" =>
          \/ type = properties["photo"]
          \/ \E i, j \in DOMAIN form : i # j /\ IsFile(form[i]) /\ IsFile(form[j])
          \/ \A i \in DOMAIN form : IsFile(form[i]) => form[i].name # "photo"
          \/ \E i \in DOMAIN form : Field(i, "photo")

(* What ends the auth server's process in a registration: a field after    *)
(* the password, or a form with no delimiter; and without a file after the *)
(* password it reads where nothing is.  Everything else is parsed.         *)
FailureExplained == parser = "registration" =>
    /\ status = "throws" => Delimited < 0 \/
          \E i \in 1..Delimited : i \notin Fields /\ ~IsFile(form[i])
    /\ status = "undefined" => \A i \in 1..Delimited : IsFile(form[i]) => i \in Fields
=============================================================================
