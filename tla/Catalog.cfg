SPECIFICATION Spec
CONSTANTS
  Default = other
  Categories = {other, a, b}
  Products = {x}
  Requests = {p1, p2}
  Uploads = {u, v}
  otherWord = otherWord
  fruitWord = fruitWord
  Words = {otherWord, fruitWord}
  Slugs <- MCSlugs
  OtherSlug <- MCOtherSlug
  Elsewhere = Elsewhere
  Nothing = Nothing
  Keep = Keep
SYMMETRY Symmetry
INVARIANTS
  TypeOK
  CategoryKeysUnique
  NoKeyPassedOver
  EveryProductFiled
  ImagesResolve
PROPERTIES
  PicturesDoNotReturn
