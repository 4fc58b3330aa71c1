-------------------------- MODULE FormParserProofs --------------------------
(***************************************************************************)
(* Proofs about FormParser, for forms of any number of parts, fields and   *)
(* files.                                                                  *)
(***************************************************************************)
EXTENDS FormParser, SequenceTheorems, TLAPS

(* What Latest chooses, without a choice. *)
IsLatest(k, S) == IF S = {} THEN k = 0 ELSE k \in S /\ \A j \in S : j <= k

(* The parts that the parser has passed. *)
Passed == 1..part - 1

(* A file of the form that follows the password, as far as it was parsed.  *)
Picture(i) == i \in Passed /\ i \in 1..Delimited /\ i \notin Fields /\ IsFile(form[i])

Kinds ==
    /\ form \in Forms /\ closed \in BOOLEAN
    /\ parser \in {"registration", "photoOnly", "getContent"}
    /\ part \in Nat /\ part >= 1
    /\ properties \in [Names -> Nat] /\ files \in [1..MaxFiles -> Nat]

(* The fields end with the password, and everything behind is a picture.   *)
Registered ==
    /\ part <= Delimited + 1 \/ part = 1
    /\ isNextPhoto <=> \E j \in Passed : Field(j, "password")
    /\ \A n \in Names : IsLatest(properties[n], {i \in Passed \cap Fields : Field(i, n)})
    /\ \A i \in Passed : i \notin Fields => IsFile(form[i]) /\ files[form[i].file] # 0
    /\ \A f \in DOMAIN files : files[f] # 0 => Picture(files[f])
    /\ type \in {0, Garbage} \/ Picture(type)
    /\ type = 0 => \A f \in DOMAIN files : files[f] = 0
    /\ status = "parsed" => part > Delimited /\ Picture(photo) /\ type # 0
    /\ status = "throws" =>
          Delimited < 0 \/ \E i \in 1..Delimited : i \notin Fields /\ ~IsFile(form[i])
    /\ status = "undefined" => part > Delimited /\ \A f \in DOMAIN files : files[f] = 0

(* Only the first part is looked at. *)
PhotoOnly ==
    /\ \A f \in DOMAIN files : files[f] # 0 =>
          /\ files[f] = 1 /\ IsFile(form[1])
          /\ type \in {1, Garbage}
    /\ status = "parsed" => photo = 1 /\ IsFile(form[1]) /\ type \in {1, Garbage}

(* Every part is a property, every file gives the type. *)
Content ==
    /\ part <= Len(form) + 1
    /\ \A n \in Names : IsLatest(properties[n], {i \in Passed : form[i].name = n})
    /\ IsLatest(type, {i \in Passed : IsFile(form[i])})
    /\ status = "parsed" => part > Delimited

FormInv ==
    /\ Kinds
    /\ parser = "registration" => Registered
    /\ parser = "photoOnly" => PhotoOnly
    /\ parser = "getContent" => Content

-----------------------------------------------------------------------------
(* A form is a sequence of parts. *)
LEMMA FormParts ==
    ASSUME Kinds
    PROVE  /\ Len(form) \in Nat /\ DOMAIN form = 1..Len(form)
           /\ \A i \in DOMAIN form : form[i].name \in Names /\ form[i].file \in 0..MaxFiles
           /\ Delimited \in Int /\ Delimited <= Len(form) /\ Delimited >= Len(form) - 1
           /\ closed => Delimited = Len(form)
<1>1. PICK n \in 0..MaxParts : form \in [1..n -> Parts]
  BY DEF Kinds, Forms
<1>2. n \in Nat
  BY BoundsAssumption
<1>3. form \in Seq(Parts)
  BY <1>1, <1>2, SeqDef
<1>4. /\ Len(form) \in Nat /\ DOMAIN form = 1..Len(form)
      /\ \A i \in DOMAIN form : form[i] \in Parts
  BY <1>3
<1>5. \A i \in DOMAIN form : form[i].name \in Names /\ form[i].file \in 0..MaxFiles
  BY <1>4 DEF Parts
<1>6. /\ Delimited \in Int /\ Delimited <= Len(form) /\ Delimited >= Len(form) - 1
      /\ closed => Delimited = Len(form)
  <2>1. CASE closed
    BY <1>4, <2>1 DEF Delimited
  <2>2. CASE ~closed
    <3>1. Delimited = Len(form) - 1
      BY <2>2, Zenon DEF Delimited
    <3>2. Delimited \in Int /\ Delimited <= Len(form) /\ Delimited >= Len(form) - 1
      BY <1>4, <3>1
    <3> QED
      BY <2>2, <3>2, Zenon
  <2> QED
    BY <2>1, <2>2
<1> QED
  BY <1>4, <1>5, <1>6

(* What is latest is what Latest chooses. *)
LEMMA LatestIs ==
    ASSUME NEW S, S \subseteq Nat, NEW k, IsLatest(k, S)
    PROVE  Latest(S) = k
<1>1. CASE S = {}
  BY <1>1 DEF IsLatest, Latest
<1>2. CASE S # {}
  <2>1. k \in S /\ \A j \in S : j <= k
    BY <1>2 DEF IsLatest
  <2>2. \A i \in S : (\A j \in S : j <= i) => i = k
    BY <2>1
  <2>3. (CHOOSE i \in S : \A j \in S : j <= i) = k
    BY <2>1, <2>2
  <2> QED
    BY <1>2, <2>3 DEF Latest
<1> QED
  BY <1>1, <1>2

(* The part just passed is the latest. *)
LEMMA LatestNow ==
    ASSUME NEW m \in Nat, NEW S, m \in S, \A i \in S : i \in Nat /\ i <= m
    PROVE  IsLatest(m, S)
BY DEF IsLatest

(* Passing one more part. *)
LEMMA PassedOne ==
    ASSUME Kinds, part' = part + 1
    PROVE  /\ Passed' = Passed \cup {part} /\ part \notin Passed
           /\ \A i \in Passed : i \in Nat /\ i >= 1 /\ i < part
           /\ part' \in Nat /\ part' >= 1
BY DEF Kinds, Passed

-----------------------------------------------------------------------------
(* What does not depend on the parser's progress. *)
Stays == Delimited' = Delimited /\ Fields' = Fields /\ form' = form /\ closed' = closed
         /\ parser' = parser

(* A step of a parser changes neither the form nor its fields. *)
LEMMA InputStays ==
    ASSUME UNCHANGED input
    PROVE  Stays
BY DEF Stays, input, Delimited, Fields, Field, IsFile

(* Until the password has been passed every part is one of the fields,     *)
(* afterwards none is.                                                     *)
LEMMA FieldOrPicture ==
    ASSUME Kinds, Registered, part <= Delimited
    PROVE  /\ part \in 1..Delimited /\ part \in DOMAIN form
           /\ part \in Fields <=> ~isNextPhoto
<1>1. part \in 1..Delimited /\ part \in DOMAIN form
  BY FormParts DEF Kinds
<1>2. part \in Fields <=> ~(\E j \in Passed : Field(j, "password"))
  BY <1>1 DEF Fields, Passed
<1> QED
  BY <1>1, <1>2 DEF Registered

(* Everything passed remains what it was. *)
LEMMA PicturesStay ==
    ASSUME Kinds, Stays, part' = part + 1
    PROVE  \A i : Picture(i) => Picture(i)'
BY PassedOne DEF Picture, Stays, IsFile

(* field: up to the password every part that is no file is a parameter. *)
LEMMA FieldStep ==
    ASSUME FormInv, field
    PROVE  FormInv'
<1>1. /\ Kinds /\ Registered /\ part <= Delimited /\ ~isNextPhoto /\ part' = part + 1
      /\ parser = "registration" /\ status = "parsing"
      /\ files' = files /\ type' = type /\ photo' = photo /\ status' = status
      /\ UNCHANGED input
  BY DEF field, FormInv, Parsing
<1>2. Stays
  BY <1>1, InputStays
<1>3. /\ part \in 1..Delimited /\ part \in DOMAIN form /\ part \in Fields
  BY <1>1, FieldOrPicture
<1>4. /\ Passed' = Passed \cup {part} /\ part \notin Passed
      /\ \A i \in Passed : i \in Nat /\ i >= 1 /\ i < part
      /\ part' \in Nat /\ part' >= 1 /\ part \in Nat
  BY <1>1, PassedOne DEF Kinds
<1>5. form[part].name \in Names
  BY <1>1, <1>3, FormParts
<1>6. /\ properties' \in [Names -> Nat]
      /\ \A n \in Names : properties'[n] = IF Field(part, n) THEN part ELSE properties[n]
      /\ isNextPhoto' <=> Field(part, "password")
  <2>1. CASE IsFile(form[part])
    BY <1>1, <2>1 DEF field, Field, Kinds
  <2>2. CASE ~IsFile(form[part])
    BY <1>1, <1>4, <1>5, <2>2 DEF field, Field, Kinds
  <2> QED
    BY <2>1, <2>2
<1>7. Kinds'
  BY <1>1, <1>4, <1>6 DEF Kinds, input
<1>8. \A i, n : Field(i, n)' = Field(i, n)
  BY <1>2 DEF Field, IsFile, Stays
<1>9. isNextPhoto' <=> \E j \in Passed' : Field(j, "password")'
  <2>1. \A j \in Passed : ~Field(j, "password")
    BY <1>1 DEF Registered
  <2> QED
    BY <1>4, <1>6, <1>8, <2>1
<1>10. ASSUME NEW n \in Names
       PROVE  IsLatest(properties'[n], {i \in Passed' \cap Fields : Field(i, n)})
  <2>1. CASE Field(part, n)
    <3> DEFINE S == {i \in Passed' \cap Fields : Field(i, n)}
    <3>1. part \in S /\ \A i \in S : i \in Nat /\ i <= part
      BY <1>3, <1>4, <2>1
    <3> HIDE DEF S
    <3> QED
      BY <1>4, <1>6, <2>1, <3>1, LatestNow DEF S
  <2>2. CASE ~Field(part, n)
    <3>1. {i \in Passed' \cap Fields : Field(i, n)} = {i \in Passed \cap Fields : Field(i, n)}
      BY <1>4, <2>2
    <3> QED
      BY <1>1, <1>6, <2>2, <3>1 DEF Registered
  <2> QED
    BY <2>1, <2>2
<1>11. \A n \in Names :
          IsLatest(properties[n]', {i \in Passed' \cap Fields' : Field(i, n)'})
  BY <1>2, <1>8, <1>10 DEF Stays, IsLatest
<1>12. \A i \in Passed' : i \notin Fields' => IsFile(form'[i]) /\ files'[form'[i].file] # 0
  BY <1>1, <1>2, <1>3, <1>4 DEF Registered, Stays
<1>13. \A i : Picture(i) => Picture(i)'
  BY <1>1, <1>2, PicturesStay
<1>14. part' <= Delimited' + 1
  BY <1>1, <1>2, <1>4, FormParts DEF Stays
<1>15. Registered'
  BY <1>1, <1>9, <1>11, <1>12, <1>13, <1>14 DEF Registered
<1> QED
  BY <1>1, <1>2, <1>7, <1>15 DEF FormInv, Stays

(* addPhoto, of a part that has been delimited. *)
LEMMA PhotoAdded ==
    ASSUME Kinds, part \in DOMAIN form, addPhoto
    PROVE  \/ /\ IsFile(form[part]) /\ form[part].file \in DOMAIN files
              /\ files' \in [1..MaxFiles -> Nat] /\ DOMAIN files' = DOMAIN files
              /\ \A f \in DOMAIN files :
                    files'[f] = IF f = form[part].file THEN part ELSE files[f]
              /\ type' \in {part, Garbage} /\ part' = part + 1 /\ status' = status
           \/ /\ ~IsFile(form[part]) /\ status' = "throws"
              /\ files' = files /\ type' = type /\ part' = part
<1>1. CASE IsFile(form[part])
  <2>1. form[part].file \in 1..MaxFiles
    BY <1>1, FormParts, BoundsAssumption DEF IsFile
  <2>2. files' = [files EXCEPT ![form[part].file] = part] /\ part \in Nat
    BY <1>1 DEF addPhoto, Kinds
  <2>3. files \in [1..MaxFiles -> Nat]
    BY DEF Kinds
  <2> QED
    BY <1>1, <2>1, <2>2, <2>3 DEF addPhoto
<1>2. CASE ~IsFile(form[part])
  BY <1>2 DEF addPhoto
<1> QED
  BY <1>1, <1>2

(* photoAfterPassword: what follows the password is a picture, or throws. *)
LEMMA PhotoAfterPasswordStep ==
    ASSUME FormInv, photoAfterPassword
    PROVE  FormInv'
<1>1. /\ Kinds /\ Registered /\ part <= Delimited /\ isNextPhoto /\ addPhoto
      /\ parser = "registration" /\ status = "parsing"
      /\ properties' = properties /\ isNextPhoto' = isNextPhoto /\ photo' = photo
      /\ UNCHANGED input
  BY DEF photoAfterPassword, FormInv, Parsing
<1>2. Stays
  BY <1>1, InputStays
<1>3. /\ part \in 1..Delimited /\ part \in DOMAIN form /\ part \notin Fields
  BY <1>1, FieldOrPicture
<1>4. \A i, n : Field(i, n)' = Field(i, n)
  BY <1>2 DEF Field, IsFile, Stays
<1>5. CASE ~IsFile(form[part])
  <2>1. /\ status' = "throws" /\ files' = files /\ type' = type /\ part' = part
    BY <1>1, <1>3, <1>5, PhotoAdded
  <2>2. Kinds' /\ Passed' = Passed
    BY <1>1, <2>1 DEF Kinds, input, Passed
  <2>3. \A i : Picture(i)' <=> Picture(i)
    BY <1>2, <2>2 DEF Picture, IsFile, Stays
  <2>4. \A n \in Names : IsLatest(properties[n], {i \in Passed \cap Fields : Field(i, n)})'
    BY <1>1, <1>2, <1>4, <2>2 DEF Registered, Stays, IsLatest
  <2>5. \A i \in Passed' : i \notin Fields' => IsFile(form'[i]) /\ files'[form'[i].file] # 0
    BY <1>1, <1>2, <2>1, <2>2 DEF Registered, Stays
  <2>6. \E i \in 1..Delimited : i \notin Fields /\ ~IsFile(form[i])
    BY <1>3, <1>5
  <2>7. Registered'
    BY <1>1, <1>2, <1>4, <2>1, <2>2, <2>3, <2>4, <2>5, <2>6
       DEF Registered, Stays, IsFile
  <2> QED
    BY <1>1, <1>2, <2>2, <2>7 DEF FormInv, Stays
<1>6. CASE IsFile(form[part])
  <2>1. /\ files' \in [1..MaxFiles -> Nat] /\ DOMAIN files' = DOMAIN files
        /\ form[part].file \in DOMAIN files
        /\ \A f \in DOMAIN files :
              files'[f] = IF f = form[part].file THEN part ELSE files[f]
        /\ type' \in {part, Garbage} /\ part' = part + 1 /\ status' = status
    BY <1>1, <1>3, <1>6, PhotoAdded
  <2>2. /\ Passed' = Passed \cup {part} /\ part \notin Passed
        /\ \A i \in Passed : i \in Nat /\ i >= 1 /\ i < part
        /\ part' \in Nat /\ part' >= 1 /\ part \in Nat /\ part # 0
    BY <1>1, <2>1, PassedOne DEF Kinds
  <2>3. Kinds'
    BY <1>1, <2>1, <2>2 DEF Kinds, input
  <2>4. \A i : Picture(i) \/ i = part => Picture(i)'
    <3>1. ASSUME NEW i, i = part PROVE Picture(i)'
      BY <1>2, <1>3, <1>6, <2>2, <3>1 DEF Picture, IsFile, Stays
    <3> QED
      BY <1>1, <1>2, <2>1, <3>1, PicturesStay
  <2>5. isNextPhoto' <=> \E j \in Passed' : Field(j, "password")'
    BY <1>1, <1>4, <2>2 DEF Registered
  <2>6. \A n \in Names :
           IsLatest(properties'[n], {i \in Passed' \cap Fields' : Field(i, n)'})
    <3>1. ASSUME NEW n \in Names
          PROVE  {i \in Passed' \cap Fields' : Field(i, n)'}
                    = {i \in Passed \cap Fields : Field(i, n)}
      BY <1>2, <1>3, <1>4, <2>2 DEF Stays
    <3> QED
      BY <1>1, <3>1 DEF Registered
  <2>7. \A i \in Passed' : i \notin Fields' => IsFile(form'[i]) /\ files'[form'[i].file] # 0
    <3>1. ASSUME NEW i \in Passed, i \notin Fields
          PROVE  IsFile(form[i]) /\ files'[form[i].file] # 0
      <4>1. IsFile(form[i]) /\ files[form[i].file] # 0
        BY <1>1, <3>1 DEF Registered
      <4>2. form[i].file \in DOMAIN files
        <5>1. i \in DOMAIN form
          BY <1>1, <1>3, <2>2, <3>1, FormParts
        <5>2. form[i].file \in 1..MaxFiles
          BY <1>1, <4>1, <5>1, FormParts, BoundsAssumption DEF IsFile
        <5> QED
          BY <1>1, <5>2 DEF Kinds
      <4> QED
        BY <2>1, <2>2, <4>1, <4>2
    <3>2. files'[form[part].file] # 0
      BY <2>1, <2>2
    <3> QED
      BY <1>2, <1>6, <2>2, <3>1, <3>2 DEF Stays
  <2>8. \A f \in DOMAIN files' : files'[f] # 0 => Picture(files[f])'
    BY <1>1, <2>1, <2>4 DEF Registered
  <2>9. /\ type' = Garbage \/ Picture(type)'
        /\ type' # 0
    BY <2>1, <2>2, <2>4 DEF Garbage
  <2>10. part' <= Delimited' + 1
    BY <1>1, <1>2, <2>1, <2>2, FormParts DEF Stays
  <2>11. Registered'
    BY <1>1, <2>1, <2>5, <2>6, <2>7, <2>8, <2>9, <2>10 DEF Registered
  <2> QED
    BY <1>1, <1>2, <2>3, <2>11 DEF FormInv, Stays
<1> QED
  BY <1>5, <1>6

(* parsePhotoOnly: the first part is a picture, or throws. *)
LEMMA ParsePhotoOnlyStep ==
    ASSUME FormInv, parsePhotoOnly
    PROVE  FormInv'
<1>1. /\ Kinds /\ PhotoOnly /\ part = 1 /\ Delimited >= 1 /\ addPhoto
      /\ parser = "photoOnly" /\ status = "parsing"
      /\ properties' = properties /\ photo' = photo /\ UNCHANGED input
  BY DEF parsePhotoOnly, FormInv, Parsing
<1>2. form' = form /\ parser' = parser /\ closed' = closed
  BY <1>1 DEF input
<1>3. part \in DOMAIN form
  BY <1>1, FormParts
<1>4. CASE ~IsFile(form[part])
  <2>1. /\ status' = "throws" /\ files' = files /\ type' = type /\ part' = part
    BY <1>1, <1>3, <1>4, PhotoAdded
  <2>2. Kinds' /\ PhotoOnly'
    BY <1>1, <1>2, <2>1 DEF Kinds, PhotoOnly, IsFile
  <2> QED
    BY <1>1, <1>2, <2>2 DEF FormInv
<1>5. CASE IsFile(form[part])
  <2>1. /\ files' \in [1..MaxFiles -> Nat] /\ DOMAIN files' = DOMAIN files
        /\ \A f \in DOMAIN files :
              files'[f] = IF f = form[part].file THEN part ELSE files[f]
        /\ type' \in {part, Garbage} /\ part' = part + 1 /\ status' = status
    BY <1>1, <1>3, <1>5, PhotoAdded
  <2>2. Kinds'
    BY <1>1, <1>2, <2>1 DEF Kinds
  <2>3. PhotoOnly'
    BY <1>1, <1>2, <1>5, <2>1 DEF PhotoOnly, IsFile
  <2> QED
    BY <1>1, <1>2, <2>2, <2>3 DEF FormInv
<1> QED
  BY <1>4, <1>5

(* parse_post_t: the photo is one of the pictures. *)
LEMMA ParsePostStep ==
    ASSUME FormInv, parse_post_t
    PROVE  FormInv'
<1>1. /\ Kinds /\ status' = "parsed" /\ UNCHANGED input
      /\ part' = part /\ isNextPhoto' = isNextPhoto /\ properties' = properties
      /\ type' = type /\ files' = files
      /\ \/ parser = "registration" /\ part > Delimited
         \/ parser = "photoOnly"
      /\ \E f \in DOMAIN files : files[f] # 0 /\ photo' = files[f]
  BY DEF parse_post_t, FormInv, Parsing
<1>2. Stays
  BY <1>1, InputStays
<1>3. Kinds' /\ Passed' = Passed
  BY <1>1 DEF Kinds, input, Passed
<1>4. CASE parser = "photoOnly"
  <2>1. PhotoOnly'
    BY <1>1, <1>2, <1>4 DEF FormInv, PhotoOnly, IsFile, Stays
  <2> QED
    BY <1>2, <1>3, <1>4, <2>1 DEF FormInv, Stays
<1>5. CASE parser = "registration"
  <2>1. Registered /\ part > Delimited
    BY <1>1, <1>5 DEF FormInv
  <2>2. \A i : Picture(i)' <=> Picture(i)
    BY <1>2, <1>3 DEF Picture, IsFile, Stays
  <2>3. Picture(photo)' /\ type # 0
    BY <1>1, <2>1, <2>2 DEF Registered
  <2>4. \A i, n : Field(i, n)' = Field(i, n)
    BY <1>2 DEF Field, IsFile, Stays
  <2>5. \A n \in Names : IsLatest(properties[n], {i \in Passed \cap Fields : Field(i, n)})'
    BY <1>1, <1>2, <1>3, <2>1, <2>4 DEF Registered, Stays, IsLatest
  <2>6. \A i \in Passed' : i \notin Fields' => IsFile(form'[i]) /\ files'[form'[i].file] # 0
    BY <1>1, <1>2, <1>3, <2>1 DEF Registered, Stays
  <2>7. Registered'
    BY <1>1, <1>2, <1>3, <2>1, <2>2, <2>3, <2>4, <2>5, <2>6 DEF Registered, Stays
  <2> QED
    BY <1>2, <1>3, <1>5, <2>7 DEF FormInv, Stays
<1> QED
  BY <1>1, <1>4, <1>5

(* parse_post_tNoFile: there is no picture. *)
LEMMA NoFileStep ==
    ASSUME FormInv, parse_post_tNoFile
    PROVE  FormInv'
<1>1. /\ Kinds /\ Registered /\ parser = "registration" /\ UNCHANGED input
      /\ part' = part /\ isNextPhoto' = isNextPhoto /\ properties' = properties
      /\ type' = type /\ files' = files /\ photo' = photo
      /\ part > Delimited /\ \A f \in DOMAIN files : files[f] = 0
      /\ status' = IF Delimited < 0 THEN "throws" ELSE "undefined"
  BY DEF parse_post_tNoFile, FormInv, Parsing
<1>2. Stays
  BY <1>1, InputStays
<1>3. Kinds' /\ Passed' = Passed
  BY <1>1 DEF Kinds, input, Passed
<1>4. \A i : Picture(i)' <=> Picture(i)
  BY <1>2, <1>3 DEF Picture, IsFile, Stays
<1>5. \A i, n : Field(i, n)' = Field(i, n)
  BY <1>2 DEF Field, IsFile, Stays
<1>6. \A n \in Names : IsLatest(properties[n], {i \in Passed \cap Fields : Field(i, n)})'
  BY <1>1, <1>2, <1>3, <1>5 DEF Registered, Stays, IsLatest
<1>7. \A i \in Passed' : i \notin Fields' => IsFile(form'[i]) /\ files'[form'[i].file] # 0
  BY <1>1, <1>2, <1>3 DEF Registered, Stays
<1>8. Registered'
  BY <1>1, <1>2, <1>3, <1>4, <1>5, <1>6, <1>7 DEF Registered, Stays
<1> QED
  BY <1>1, <1>2, <1>3, <1>8 DEF FormInv, Stays

(* parsePhotoOnlyThrows: there is no part that is delimited. *)
LEMMA PhotoOnlyThrowsStep ==
    ASSUME FormInv, parsePhotoOnlyThrows
    PROVE  FormInv'
<1>1. /\ Kinds /\ PhotoOnly /\ parser = "photoOnly" /\ status' = "throws"
      /\ UNCHANGED <<input, part, isNextPhoto, properties, type, files, photo>>
  BY DEF parsePhotoOnlyThrows, FormInv, Parsing
<1>2. Kinds' /\ PhotoOnly'
  BY <1>1 DEF Kinds, PhotoOnly, IsFile, input
<1> QED
  BY <1>1, <1>2 DEF FormInv, input

(* addProperty: a part replaces the one of its name. *)
LEMMA AddPropertyStep ==
    ASSUME FormInv, addProperty
    PROVE  FormInv'
<1>1. /\ Kinds /\ Content /\ parser = "getContent" /\ status = "parsing" /\ UNCHANGED input
      /\ part <= Len(form) /\ part' = part + 1
      /\ type' = IF IsFile(form[part]) THEN part ELSE type
      /\ properties' = [properties EXCEPT ![form[part].name] = part]
      /\ files' = files /\ status' = status
  BY DEF addProperty, FormInv, Parsing
<1>2. form' = form /\ parser' = parser /\ closed' = closed
  BY <1>1 DEF input
<1>3. /\ Passed' = Passed \cup {part} /\ part \notin Passed
      /\ \A i \in Passed : i \in Nat /\ i >= 1 /\ i < part
      /\ part' \in Nat /\ part' >= 1 /\ part \in Nat
  BY <1>1, PassedOne DEF Kinds
<1>4. form[part].name \in Names
  BY <1>1, <1>3, FormParts DEF Kinds
<1>5. /\ properties' \in [Names -> Nat]
      /\ \A n \in Names : properties'[n] = IF form[part].name = n THEN part ELSE properties[n]
  BY <1>1, <1>3, <1>4 DEF Kinds
<1>6. Kinds'
  BY <1>1, <1>2, <1>3, <1>5 DEF Kinds
<1>7. ASSUME NEW n \in Names
      PROVE  IsLatest(properties'[n], {i \in Passed' : form[i].name = n})
  <2> DEFINE S == {i \in Passed' : form[i].name = n}
  <2>1. CASE form[part].name = n
    <3>1. part \in S /\ \A i \in S : i \in Nat /\ i <= part
      BY <1>3, <2>1
    <3> HIDE DEF S
    <3> QED
      BY <1>3, <1>5, <2>1, <3>1, LatestNow DEF S
  <2>2. CASE form[part].name # n
    <3>1. S = {i \in Passed : form[i].name = n}
      BY <1>3, <2>2
    <3> QED
      BY <1>1, <1>5, <2>2, <3>1 DEF Content
  <2> QED
    BY <2>1, <2>2
<1>8. IsLatest(type', {i \in Passed' : IsFile(form[i])})
  <2> DEFINE S == {i \in Passed' : IsFile(form[i])}
  <2>1. CASE IsFile(form[part])
    <3>1. part \in S /\ \A i \in S : i \in Nat /\ i <= part
      BY <1>3, <2>1
    <3>2. type' = part
      BY <1>1, <2>1
    <3> HIDE DEF S
    <3> QED
      BY <1>3, <3>1, <3>2, LatestNow DEF S
  <2>2. CASE ~IsFile(form[part])
    <3>1. S = {i \in Passed : IsFile(form[i])}
      BY <1>3, <2>2
    <3> QED
      BY <1>1, <2>2, <3>1 DEF Content
  <2> QED
    BY <2>1, <2>2
<1>9. part' <= Len(form') + 1
  BY <1>1, <1>2, <1>3, FormParts
<1>10. Content'
  BY <1>1, <1>2, <1>7, <1>8, <1>9 DEF Content, IsLatest, IsFile
<1> QED
  BY <1>1, <1>2, <1>6, <1>10 DEF FormInv

(* getContentEnd: all the parts that are delimited have been passed. *)
LEMMA GetContentEndStep ==
    ASSUME FormInv, getContentEnd
    PROVE  FormInv'
<1>1. /\ Kinds /\ Content /\ parser = "getContent"
      /\ UNCHANGED <<input, part, isNextPhoto, properties, type, files, photo>>
      /\ part > Len(form) \/ part > Delimited
  BY DEF getContentEnd, FormInv, Parsing
<1>2. part > Delimited
  BY <1>1, FormParts DEF Kinds
<1>3. Stays /\ Kinds' /\ Passed' = Passed
  BY <1>1, InputStays DEF Kinds, Passed, input
<1>4. Content'
  BY <1>1, <1>2, <1>3 DEF Content, IsLatest, IsFile, Stays
<1> QED
  BY <1>1, <1>3, <1>4 DEF FormInv, Stays

(* Every step of the three parsers keeps what they have extracted right. *)
LEMMA NextForm ==
    ASSUME FormInv, [Next]_vars
    PROVE  FormInv'
<1>1. CASE UNCHANGED vars
  <2>1. UNCHANGED <<input, part, isNextPhoto, properties, type, files, photo, status>>
    BY <1>1 DEF vars, input
  <2>2. Stays /\ Kinds' = Kinds /\ Passed' = Passed
    BY <2>1, InputStays DEF Kinds, Passed, input
  <2>3. /\ \A i : Picture(i)' <=> Picture(i)
        /\ \A i, n : Field(i, n)' = Field(i, n)
    BY <2>2 DEF Picture, Field, IsFile, Stays
  <2>4. Registered => Registered'
    BY <2>1, <2>2, <2>3 DEF Registered, IsLatest, IsFile, Stays
  <2>5. PhotoOnly' = PhotoOnly /\ Content' = Content
    BY <2>1, <2>2 DEF PhotoOnly, Content, IsLatest, IsFile, Stays
  <2> QED
    BY <2>2, <2>4, <2>5 DEF FormInv, Stays
<1> QED
  BY <1>1, FieldStep, PhotoAfterPasswordStep, ParsePhotoOnlyStep, ParsePostStep, NoFileStep,
     PhotoOnlyThrowsStep, AddPropertyStep, GetContentEndStep DEF Next

(* Nothing has been extracted at first. *)
LEMMA InitForm ==
    ASSUME Init
    PROVE  FormInv
<1>1. Kinds
  BY BoundsAssumption DEF Init, Kinds
<1>2. Passed = {}
  BY DEF Init, Passed
<1>3. Registered /\ PhotoOnly /\ Content
  <2>1. 1 <= Len(form) + 1 /\ Len(form) \in Nat
    BY <1>1, FormParts
  <2> QED
    BY <1>1, <1>2, <2>1 DEF Init, Registered, PhotoOnly, Content, IsLatest
<1> QED
  BY <1>1, <1>3 DEF FormInv

-----------------------------------------------------------------------------
(* What each parser has extracted from the parts it has passed.            *)
THEOREM FormInvariant == Spec => []FormInv
<1>1. Init => FormInv
  BY InitForm
<1>2. FormInv /\ [Next]_vars => FormInv'
  BY NextForm
<1> QED
  BY <1>1, <1>2, PTL DEF Spec

(* FormData::separatorToPropertis and getContent: a parameter is what the  *)
(* last of its fields says, in a form with any number of parts.            *)
THEOREM FieldsRight == Spec => []FieldsMean
<1>1. ASSUME FormInv, status = "parsed", parser = "registration", NEW n \in Names
      PROVE  properties[n] = Latest({i \in Fields : Field(i, n)})
  <2>1. Registered /\ Kinds
    BY <1>1 DEF FormInv
  <2>2. Passed \cap Fields = Fields
    <3>1. part \in Nat /\ Delimited \in Int /\ part > Delimited
      BY <1>1, <2>1, FormParts DEF Registered, Kinds
    <3> QED
      BY <3>1 DEF Passed, Fields
  <2>3. IsLatest(properties[n], {i \in Fields : Field(i, n)})
    BY <2>1, <2>2 DEF Registered
  <2>4. Fields \subseteq Nat
    BY DEF Fields
  <2> QED
    BY <2>3, <2>4, LatestIs
<1>2. ASSUME FormInv, status = "parsed", parser = "getContent", closed, NEW n \in Names
      PROVE  properties[n] = Latest({i \in DOMAIN form : form[i].name = n})
  <2>1. Content /\ Kinds
    BY <1>2 DEF FormInv
  <2>2. Passed = DOMAIN form
    <3>1. part \in Nat /\ part <= Len(form) + 1 /\ part > Len(form) /\ Len(form) \in Nat
          /\ DOMAIN form = 1..Len(form)
      BY <1>2, <2>1, FormParts DEF Content, Kinds
    <3>2. part = Len(form) + 1
      BY <3>1
    <3> QED
      BY <3>1, <3>2 DEF Passed
  <2>3. IsLatest(properties[n], {i \in DOMAIN form : form[i].name = n})
    BY <2>1, <2>2 DEF Content
  <2>4. DOMAIN form \subseteq Nat
    BY <2>1, FormParts
  <2> QED
    BY <2>3, <2>4, LatestIs
<1>3. FormInv => FieldsMean
  BY <1>1, <1>2 DEF FieldsMean
<1> QED
  BY <1>3, FormInvariant, PTL

(* The picture stored is a file behind the password; only with several     *)
(* files in a form can its recorded type be another's.                     *)
THEOREM PhotosRight == Spec => []PhotoMeans
<1>1. ASSUME FormInv, status = "parsed", parser # "getContent"
      PROVE  /\ photo # 0 /\ IsFile(form[photo])
             /\ parser = "registration" => photo \notin Fields
             /\ \/ type \in {photo, Garbage}
                \/ \E i \in 1..Delimited : i # photo /\ i \notin Fields /\ IsFile(form[i])
  <2>1. CASE parser = "registration"
    <3>1. Picture(photo) /\ (type = Garbage \/ Picture(type)) /\ photo # 0
      <4>1. Registered
        BY <1>1, <2>1 DEF FormInv
      <4>2. Picture(photo) /\ (type = Garbage \/ Picture(type))
        BY <1>1, <4>1 DEF Registered
      <4> QED
        BY <4>2 DEF Picture, Passed
    <3> QED
      BY <3>1 DEF Picture
  <2>2. CASE parser = "photoOnly"
    BY <1>1, <2>2 DEF FormInv, PhotoOnly
  <2> QED
    BY <1>1, <2>1, <2>2 DEF FormInv, Kinds
<1>2. ASSUME FormInv, status = "parsed", parser = "getContent",
             \A i, j \in DOMAIN form : IsFile(form[i]) /\ IsFile(form[j]) => i = j,
             NEW f \in DOMAIN form, IsFile(form[f]), form[f].name = "photo",
             \A i \in DOMAIN form : ~Field(i, "photo")
      PROVE  type = properties["photo"]
  <2>1. Content /\ Kinds
    BY <1>2 DEF FormInv
  <2>2. /\ Passed \subseteq DOMAIN form /\ Passed \subseteq Nat
        /\ form[f].name \in Names
    <3>1. part \in Nat /\ part <= Len(form) + 1 /\ Len(form) \in Nat
          /\ DOMAIN form = 1..Len(form) /\ form[f].name \in Names
      BY <2>1, FormParts DEF Content, Kinds
    <3> QED
      BY <3>1 DEF Passed
  <2> DEFINE S == {i \in Passed : IsFile(form[i])}
  <2>3. {i \in Passed : form[i].name = "photo"} = S
    BY <1>2, <2>2 DEF Field
  <2>4. IsLatest(properties["photo"], S) /\ IsLatest(type, S)
    BY <1>2, <2>1, <2>2, <2>3 DEF Content
  <2>5. S \subseteq Nat
    BY <2>2
  <2> HIDE DEF S
  <2> QED
    BY <2>4, <2>5, LatestIs
<1>3. FormInv => PhotoMeans
  BY <1>1, <1>2 DEF PhotoMeans
<1> QED
  BY <1>3, FormInvariant, PTL

(* A registration that is not parsed has a field behind the password, no   *)
(* delimiter, or no file behind the password.                              *)
THEOREM FailuresExplained == Spec => []FailureExplained
<1>1. ASSUME FormInv, parser = "registration", status = "undefined", NEW i \in 1..Delimited,
             IsFile(form[i]), i \notin Fields
      PROVE  FALSE
  <2>1. Registered /\ Kinds
    BY <1>1 DEF FormInv
  <2>2. part \in Nat /\ Delimited \in Int /\ part > Delimited
        /\ \A f \in DOMAIN files : files[f] = 0
    BY <1>1, <2>1, FormParts DEF Registered, Kinds
  <2>3. i \in Passed
    BY <2>2 DEF Passed
  <2>4. files[form[i].file] # 0
    BY <1>1, <2>1, <2>3 DEF Registered
  <2>5. form[i].file \in DOMAIN files
    <3>1. i \in DOMAIN form
      <4>1. /\ Len(form) \in Nat /\ DOMAIN form = 1..Len(form)
            /\ Delimited \in Int /\ Delimited <= Len(form)
        BY <2>1, FormParts, Zenon
      <4> QED
        BY <4>1
    <3>2. form[i].file \in 1..MaxFiles
      BY <1>1, <2>1, <3>1, FormParts, BoundsAssumption DEF IsFile
    <3> QED
      BY <2>1, <3>2 DEF Kinds
  <2> QED
    BY <2>2, <2>4, <2>5
<1>2. FormInv => FailureExplained
  BY <1>1 DEF FormInv, Registered, FailureExplained
<1> QED
  BY <1>2, FormInvariant, PTL
=============================================================================
