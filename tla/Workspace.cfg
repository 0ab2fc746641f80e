\* Two colliding jobs, one alone, one whose name has no slug.
SPECIFICATION Spec
CONSTANTS
  a = a
  b = b
  c = c
  d = d
  crm = crm
  shop = shop
  Jobs = {a, b, c, d}
  Slugs = {crm, shop}
  NoSlug = NoSlug
  SlugOf <- MCSlugOf
  Nobody = Nobody
  Stranger = Stranger
INVARIANTS
  TypeOK
  ReturnedOwnsFolder
  StagingIsTemporary
  LeftoverIsNamed
PROPERTIES
  ImplementsClaims
